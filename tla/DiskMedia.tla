------------------------------ MODULE DiskMedia ------------------------------
(***************************************************************************)
(* The disks of a session: the list the user opened, its cache in memory,  *)
(* the one image in the drive, and the host files it is written back to    *)
(* (src/src/frontend/sdl3_app.cpp over DiskImage::flush).  Everything runs *)
(* between two frames, and the guest writes in between; the file system    *)
(* may refuse to open a file or fail in the middle of writing it.          *)
(*                                                                         *)
(* The bytes of a disk are abstracted to whose disk they are and how many  *)
(* writes they hold.  A selection that cannot be read, or holds a file     *)
(* that has no disk extension, changes nothing and is left out, and so is  *)
(* the power cycle that gives up because a cartridge cannot be read.       *)
(***************************************************************************)
EXTENDS Naturals, Sequences, Functions

CONSTANTS
  Files,        \* host files with a disk extension
  Whole,        \* those that have the size of a 2DD disk when the model starts
  CommandLines, \* lists of files the application is started with
  Selections,   \* lists of files the user opens; no file twice in a list
  UserActions,  \* what the user does in this instance
  Failures,     \* how writing a file may fail
  MaxWrites     \* bound on the writes a disk gathers

ASSUME SelectionAssumption ==
  /\ Whole \subseteq Files
  /\ CommandLines \subseteq Seq(Files)
  /\ Selections \subseteq Seq(Files) \ {<< >>}
  /\ \A list \in CommandLines \cup Selections : \A i, j \in DOMAIN list : list[i] = list[j] => i = j
  /\ UserActions \subseteq {"swap", "toggle", "open", "eject", "reset", "power", "exit", "blank"}
  /\ Failures \subseteq {"refused", "torn"}
  /\ MaxWrites \in Nat

NoFile == "none"       \* an empty host path
NoDisk == "none"       \* the synthesized default medium
ASSUME FilesAssumption == NoFile \notin Files

VARIABLES
  running,    \* the application runs
  host,       \* the host files
  paths,      \* config_.disk_paths
  cache,      \* disk_images_
  index,      \* current_disk_index_, counted from 1
  writable,   \* config_.disk_writable
  image,      \* the machine's disk_image_
  attached,   \* the drive holds it
  io,         \* how the file system answers the writes of this step
  parted      \* history: listed files the user parted from the session's disk

vars == <<running, host, paths, cache, index, writable, image, attached, io, parted>>

Owner == Files \cup {NoDisk}
\* The bytes of a file, and whether it has exactly the size of a 2DD disk.
Content == [disk : Owner, writes : 0 .. MaxWrites, exact : BOOLEAN]
DiskImage == [disk : Owner, writes : 0 .. MaxWrites, dirty : BOOLEAN, host_path : Files \cup {NoFile}]

\* The constructor pads or cuts the bytes to 2DD size and binds no file.
Loaded(content) ==
  [disk |-> content.disk, writes |-> content.writes, dirty |-> FALSE, host_path |-> NoFile]
Synthesized == Loaded([disk |-> NoDisk, writes |-> 0, exact |-> TRUE])
Bound(i, path) == [i EXCEPT !.host_path = path]

\* data(), as the cache and the files take it: always of 2DD size.
Data(i) == [disk |-> i.disk, writes |-> i.writes, exact |-> TRUE]

(***************************************************************************)
(* flush(): the file is opened for truncation and written from the start,  *)
(* whether or not the image is dirty; nothing without a host path.         *)
(***************************************************************************)
Outcomes == {"written"} \cup Failures
Torn(content) == [content EXCEPT !.writes = 0, !.exact = FALSE]

\* Mutant: what the comments at its callers say it does.
DirtyFlushed(i, outcome) ==
  IF ~i.dirty \/ i.host_path = NoFile \/ outcome = "refused" THEN host
  ELSE [host EXCEPT ![i.host_path] = IF outcome = "written" THEN Data(i) ELSE Torn(@)]

Flushed(i, outcome) ==
  IF i.host_path = NoFile \/ outcome = "refused" THEN host
  ELSE [host EXCEPT ![i.host_path] = IF outcome = "written" THEN Data(i) ELSE Torn(@)]

\* The flush before a disk is taken out, guarded by the write-back flag.
FlushIfWritable ==
  /\ io' \in Outcomes
  /\ host' = IF writable THEN Flushed(image, io') ELSE host
NoFlush == io' = "written" /\ UNCHANGED host

Init ==
  /\ running = FALSE
  /\ paths = << >> /\ cache = << >> /\ index = 1
  /\ writable = FALSE /\ image = Synthesized /\ attached = FALSE
  /\ io = "written" /\ parted = {}
  /\ host = [f \in Files |-> [disk |-> f, writes |-> 0, exact |-> f \in Whole]]

(***************************************************************************)
(* The session.                                                            *)
(***************************************************************************)
Contents(list) == [k \in DOMAIN list |-> host[list[k]]]

\* load_configured_assets: the first disk of the command line, bound to its
\* file without a look at the size.
Start ==
  /\ ~running
  /\ running' = TRUE
  /\ writable' \in BOOLEAN
  /\ index' = 1
  /\ \E list \in CommandLines :
       /\ paths' = list /\ cache' = Contents(list)
       /\ attached' = (list # << >>)
       /\ image' = IF list = << >> THEN Synthesized
                   ELSE IF writable' THEN Bound(Loaded(host[list[1]]), list[1])
                   ELSE Loaded(host[list[1]])
  /\ parted' = {}
  /\ NoFlush

\* write_lba, for the sectors the guest writes through the controller.
GuestWrite ==
  /\ running /\ attached
  /\ image.writes < MaxWrites
  /\ image' = [image EXCEPT !.writes = @ + 1, !.dirty = TRUE]
  /\ UNCHANGED <<running, paths, cache, index, writable, attached, parted>>
  /\ NoFlush

\* Mutant: the outgoing disk is not put back into the cache.
UncachedSwapDisk ==
  /\ running /\ Len(cache) > 1
  /\ FlushIfWritable
  /\ index' = (index % Len(cache)) + 1
  /\ image' = IF writable THEN Bound(Loaded(cache[index']), paths[index'])
              ELSE Loaded(cache[index'])
  /\ attached' = TRUE
  /\ UNCHANGED <<running, paths, cache, writable, parted>>

\* on_disk_swap_hotkey: the outgoing disk is flushed and cached with
\* write-back on; the result of the flush is not looked at.
SwapDisk ==
  /\ running /\ "swap" \in UserActions
  /\ Len(cache) > 1
  /\ FlushIfWritable
  /\ cache' = IF writable THEN [cache EXCEPT ![index] = Data(image)] ELSE cache
  /\ index' = (index % Len(cache)) + 1
  /\ image' = IF writable THEN Bound(Loaded(cache'[index']), paths[index'])
              ELSE Loaded(cache'[index'])
  /\ attached' = TRUE
  /\ UNCHANGED <<running, paths, writable, parted>>

\* on_disk_writable_toggle_hotkey
ToggleWritable ==
  /\ running /\ "toggle" \in UserActions
  /\ writable' = ~writable
  /\ image' = IF writable THEN Bound(image, NoFile)
              ELSE IF index <= Len(paths) THEN Bound(image, paths[index]) ELSE image
  /\ UNCHANGED <<running, paths, cache, index, attached, parted>>
  /\ NoFlush

\* Choosing the file the image is bound to parts it from its disk: the list
\* takes what the file holds before the flush.
Reopened(list) == Range(list) \cap {image.host_path}

\* apply_open_disks: the new files are read first, then the outgoing disk is
\* flushed; the first new disk is bound if its file has the size of a 2DD
\* disk.
OpenSelection(list) ==
  /\ FlushIfWritable
  /\ paths' = list /\ cache' = Contents(list) /\ index' = 1
  /\ image' = IF writable /\ host'[list[1]].exact THEN Bound(Loaded(cache'[1]), list[1])
              ELSE Loaded(cache'[1])
  /\ attached' = TRUE /\ parted' = Reopened(list)
  /\ UNCHANGED <<running, writable>>

OpenDisks ==
  /\ running /\ "open" \in UserActions
  /\ \E list \in Selections : OpenSelection(list)

\* eject_disk: the image leaves the drive and keeps its file.
EjectDisk ==
  /\ running /\ "eject" \in UserActions
  /\ FlushIfWritable
  /\ attached' = FALSE
  /\ paths' = << >> /\ cache' = << >> /\ index' = 1 /\ parted' = {}
  /\ UNCHANGED <<running, writable, image>>

\* cold_boot mounts the default medium; the disk of the list is put back as
\* it was, otherwise the drive is left empty.
Remount ==
  /\ image' = IF cache # << >> THEN image ELSE Synthesized
  /\ attached' = (cache # << >>)
  /\ UNCHANGED <<running, paths, cache, index, writable, parted>>
  /\ NoFlush

ResetMachine == running /\ "reset" \in UserActions /\ Remount

\* power_cycle constructs the machine anew under the same session.
PowerCycle == running /\ "power" \in UserActions /\ Remount

NoSession ==
  /\ running' = FALSE
  /\ paths' = << >> /\ cache' = << >> /\ index' = 1
  /\ writable' = FALSE /\ image' = Synthesized /\ attached' = FALSE /\ parted' = {}

\* shutdown: whatever is bound is flushed.  The next session starts anew.
Shutdown ==
  /\ running /\ "exit" \in UserActions
  /\ io' \in Outcomes
  /\ host' = IF cache # << >> THEN Flushed(image, io') ELSE host
  /\ NoSession

\* The process is killed: nothing is flushed.
Crash ==
  /\ running /\ "exit" \in UserActions
  /\ NoSession
  /\ io' = "killed"
  /\ UNCHANGED host

\* apply_new_blank_disk: only the file is written, nothing is mounted.
Blank(f) == [disk |-> f, writes |-> 0, exact |-> TRUE]
WriteBlank(f) ==
  /\ host' = [host EXCEPT ![f] = Blank(f)]
  /\ io' = "written"
  /\ parted' = parted \cup (Range(paths) \cap {f})
  /\ UNCHANGED <<running, paths, cache, index, writable, image, attached>>

NewBlankDisk ==
  /\ running /\ "blank" \in UserActions
  /\ \E f \in Files : WriteBlank(f)

Next ==
  \/ Start \/ GuestWrite \/ SwapDisk \/ ToggleWritable \/ OpenDisks
  \/ EjectDisk \/ ResetMachine \/ PowerCycle \/ Shutdown \/ Crash \/ NewBlankDisk

Spec == Init /\ [][Next]_vars

-----------------------------------------------------------------------------
TypeOK ==
  /\ running \in BOOLEAN /\ writable \in BOOLEAN /\ attached \in BOOLEAN
  /\ host \in [Files -> Content]
  /\ paths \in Seq(Files) /\ cache \in Seq(Content) /\ Len(cache) = Len(paths)
  /\ index \in 1 .. Len(paths) \cup {1}
  /\ image \in DiskImage
  /\ io \in Outcomes \cup {"killed"}
  /\ parted \subseteq Range(paths)

\* The bytes of one disk are never written to the file of another, through
\* any order of swaps, toggles, new selections, ejects and resets: the path
\* list, the cache, the index and the binding of the image stay in step.
FilesKeepTheirDisk == \A f \in Files : host[f].disk = f

\* A disk of the list is never behind its file: what was flushed when a disk
\* was swapped out is what the guest finds when it is swapped back in, unless the user chose
\* its file again while it was in the drive (SavesPersist).
MountedHere(k) == attached /\ k = index
NotBehindFile ==
  \A k \in DOMAIN paths : paths[k] \notin parted =>
    (IF MountedHere(k) THEN image.writes ELSE cache[k].writes) >= host[paths[k]].writes

\* So a disk is kept: its file holds its own bytes, and the bytes the guest
\* sees are never older than its file (swap_disk, apply_open_disk).
DisksKept == FilesKeepTheirDisk /\ NotBehindFile

\* A disk that leaves the drive with write-back on is in its file as it was
\* in the drive, unless the file system failed in this very step: a flush
\* that failed at an earlier swap is made good by the next one.
Leaves == running /\ attached /\ (index' # index \/ paths' # paths \/ ~attached')
WriteBack ==
  /\ writable
  /\ \/ image.host_path # NoFile
     \/ host[paths[index]].exact /\ paths[index] \notin parted
TakenOutIsSaved ==
  [][Leaves /\ WriteBack /\ io' = "written"
       => host'[paths[index]] = Data(image)]_vars

-----------------------------------------------------------------------------
\* What the message of the write-back toggle says: saves persist.  A file is
\* never overwritten by an older state of its disk.
SavesPersist ==
  [][\A f \in Files : host'[f].exact => host'[f].writes >= host[f].writes]_vars
=============================================================================
