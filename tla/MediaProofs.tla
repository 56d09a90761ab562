----------------------------- MODULE MediaProofs -----------------------------
(***************************************************************************)
(* The files behind the machine's media, for any of them.                  *)
(*                                                                         *)
(* Disks: for every set of files, every selection and every failure of the *)
(* file system, the bytes of one disk are never written to the file of     *)
(* another.  The list of paths, the cache, the index and the binding of    *)
(* the image are four pieces of state the frontend keeps in step by hand;  *)
(* InStep says how.  The steps are those of the session with its dialogs:  *)
(* what the user opens may come through the mailbox (FileDialogs).         *)
(*                                                                         *)
(* Battery files: for any images, any number of writes and any kind of     *)
(* user, a save that was whole stays whole, and what a careful user saved  *)
(* comes back.  The inductive invariant says where the two copies of the   *)
(* battery RAM, the one in the cartridge and the one in the file, agree.   *)
(***************************************************************************)
EXTENDS FileDialogs, BatteryFiles, TLAPS

\* The cache holds the disks of the list, in its order.
CacheInStep == \A k \in DOMAIN paths : cache[k].disk = paths[k]
\* The drive holds the disk the index points at; without a list it is empty.
DriveInStep == IF attached THEN index \in DOMAIN paths /\ image.disk = paths[index]
               ELSE paths = << >>
\* The image is bound to the file of the disk it holds, also when ejected.
BindingInStep == image.host_path # NoFile => image.disk = image.host_path

InStep == TypeOK /\ CacheInStep /\ DriveInStep /\ BindingInStep /\ FilesKeepTheirDisk

\* What the session may do, asked by a key, by the menu or by an answer.
MediaNext ==
  \/ Start \/ GuestWrite \/ SwapDisk \/ ToggleWritable \/ EjectDisk \/ Shutdown \/ Crash
  \/ \E list \in Selections : OpenSelection(list)
  \/ Remount
  \/ \E f \in Files : WriteBlank(f)

\* The disk list alone is the disk list without dialogs.
LEMMA NextIsMedia == [Next]_vars => [MediaNext]_vars
  BY DEF Next, MediaNext, OpenDisks, ResetMachine, PowerCycle, NewBlankDisk

\* A disk may be unwritten.
LEMMA ZeroWrites == MaxWrites \in Nat /\ 0 \in 0 .. MaxWrites
BY SelectionAssumption

\* What is opened is a list of files, and a selection is not empty.
LEMMA ListsAreSequences ==
  /\ CommandLines \subseteq Seq(Files) /\ Selections \subseteq Seq(Files)
  /\ << >> \notin Selections
BY SelectionAssumption

\* A write cut short leaves a content of the same disk.
LEMMA TornKeeps ==
  ASSUME NEW c \in Content
  PROVE  Torn(c) \in Content /\ Torn(c).disk = c.disk
BY ZeroWrites DEF Torn, Content

\* A written disk is a disk, and its data are its own.
LEMMA WrittenKeeps ==
  ASSUME NEW i \in DiskImage
  PROVE  /\ [i EXCEPT !.dirty = TRUE] \in DiskImage
         /\ Data(i) \in Content /\ Data(i).disk = i.disk
BY DEF Data, Content, DiskImage

\* A flush to whatever the image is bound to keeps every file with its disk.
LEMMA FlushedKeeps ==
  ASSUME InStep, NEW outcome \in Outcomes
  PROVE  /\ Flushed(image, outcome) \in [Files -> Content]
         /\ \A f \in Files : Flushed(image, outcome)[f].disk = f
<1>1. host \in [Files -> Content] /\ \A f \in Files : host[f].disk = f
  BY DEF InStep, TypeOK, FilesKeepTheirDisk
<1>2. CASE image.host_path = NoFile \/ outcome = "refused"
  BY <1>1, <1>2 DEF Flushed
<1>3. CASE ~(image.host_path = NoFile \/ outcome = "refused")
  <2> DEFINE p == image.host_path
             c == IF outcome = "written" THEN Data(image) ELSE Torn(host[p])
  <2>1. p \in Files /\ image.disk = p
    BY <1>3 DEF InStep, TypeOK, DiskImage, BindingInStep
  <2>2. Data(image) \in Content /\ Data(image).disk = p
    BY <2>1 DEF InStep, TypeOK, DiskImage, Data, Content
  <2>3. Torn(host[p]) \in Content /\ Torn(host[p]).disk = p
    BY <1>1, <2>1, TornKeeps
  <2>4. c \in Content /\ c.disk = p
    BY <2>2, <2>3
  <2>5. Flushed(image, outcome) = [host EXCEPT ![p] = c]
    BY <1>3 DEF Flushed
  <2> QED BY <1>1, <2>1, <2>4, <2>5
<1> QED BY <1>2, <1>3

\* Hence the flush of an action, whatever the flag and the file system do.
LEMMA FlushKeeps ==
  ASSUME InStep, FlushIfWritable
  PROVE  host' \in [Files -> Content] /\ FilesKeepTheirDisk' /\ io' \in Outcomes
<1>1. host' = Flushed(image, io') \/ host' = host
  BY DEF FlushIfWritable
<1> QED BY <1>1, FlushedKeeps DEF FlushIfWritable, InStep, TypeOK, FilesKeepTheirDisk

\* Nothing is flushed and no file changes.
LEMMA NoFlushKeeps ==
  ASSUME InStep, NoFlush
  PROVE  host' \in [Files -> Content] /\ FilesKeepTheirDisk' /\ io' \in Outcomes
BY DEF InStep, TypeOK, NoFlush, FilesKeepTheirDisk, Outcomes

\* The cache of a list that is read from the files.
LEMMA ContentsInStep ==
  ASSUME InStep, NEW list \in Seq(Files)
  PROVE  /\ Contents(list) \in Seq(Content) /\ Len(Contents(list)) = Len(list)
         /\ DOMAIN Contents(list) = DOMAIN list
         /\ \A k \in DOMAIN list : Contents(list)[k] = host[list[k]]
                                   /\ Contents(list)[k].disk = list[k]
BY DEF InStep, TypeOK, Contents, FilesKeepTheirDisk

\* An image that is loaded is bound to no file.
LEMMA LoadedInStep ==
  ASSUME NEW c \in Content
  PROVE  /\ Loaded(c) \in DiskImage /\ Loaded(c).disk = c.disk
         /\ Loaded(c).host_path = NoFile
BY DEF Loaded, Content, DiskImage

\* Binding changes the file and nothing else.
LEMMA BoundInStep ==
  ASSUME NEW i \in DiskImage, NEW f \in Files \cup {NoFile}
  PROVE  /\ Bound(i, f) \in DiskImage /\ Bound(i, f).disk = i.disk
         /\ Bound(i, f).host_path = f
BY DEF Bound, DiskImage

\* The blank disk of an empty drive is bound to no file.
LEMMA SynthesizedInStep ==
  Synthesized \in DiskImage /\ Synthesized.host_path = NoFile
<1>1. [disk |-> NoDisk, writes |-> 0, exact |-> TRUE] \in Content
  BY ZeroWrites DEF Content, Owner
<1> QED BY <1>1, LoadedInStep DEF Synthesized

\* The empty list.
LEMMA EmptyInStep ==
  /\ << >> \in Seq(Files) /\ << >> \in Seq(Content) /\ Len(<< >>) = 0
  /\ DOMAIN << >> = {}
OBVIOUS

\* List, cache and binding agree at the start.
LEMMA InitInStep == Init => InStep
<1> SUFFICES ASSUME Init PROVE InStep
  OBVIOUS
<1>1. host \in [Files -> Content] /\ FilesKeepTheirDisk
  BY ZeroWrites DEF Init, Content, Owner, FilesKeepTheirDisk
<1>2. cache \in Seq(Content) /\ paths \in Seq(Files) /\ Len(cache) = Len(paths)
  BY EmptyInStep DEF Init
<1>3. CacheInStep /\ DriveInStep /\ BindingInStep
  BY EmptyInStep, SynthesizedInStep DEF Init, CacheInStep, DriveInStep, BindingInStep
<1> QED
  BY <1>1, <1>2, <1>3, SynthesizedInStep DEF Init, InStep, TypeOK, Outcomes

\* Every step keeps them in step.
LEMMA NextInStep == InStep /\ [MediaNext]_vars => InStep'
<1> SUFFICES ASSUME InStep, [MediaNext]_vars PROVE InStep'
  OBVIOUS
<1>1. CASE Start
  <2>1. PICK list \in CommandLines :
          /\ paths' = list /\ cache' = Contents(list)
          /\ attached' = (list # << >>)
          /\ image' = IF list = << >> THEN Synthesized
                      ELSE IF writable' THEN Bound(Loaded(host[list[1]]), list[1])
                      ELSE Loaded(host[list[1]])
    BY <1>1 DEF Start
  <2>2. host' \in [Files -> Content] /\ FilesKeepTheirDisk' /\ io' \in Outcomes
    BY <1>1, NoFlushKeeps DEF Start
  <2>3. list \in Seq(Files)
    BY ListsAreSequences
  <2>4. cache' \in Seq(Content) /\ Len(cache') = Len(paths') /\ CacheInStep'
    BY <2>1, <2>3, ContentsInStep DEF CacheInStep
  <2>5. CASE list = << >>
    BY <1>1, <2>1, <2>2, <2>3, <2>4, <2>5, SynthesizedInStep
       DEF Start, InStep, TypeOK, DriveInStep, BindingInStep
  <2>6. CASE list # << >>
    <3>1. list[1] \in Files /\ 1 \in DOMAIN list
      BY <2>3, <2>6
    <3>2. host[list[1]] \in Content /\ host[list[1]].disk = list[1]
      BY <3>1 DEF InStep, TypeOK, FilesKeepTheirDisk
    <3>3. /\ image' \in DiskImage /\ image'.disk = list[1]
          /\ image'.host_path # NoFile => image'.host_path = list[1]
      BY <2>1, <2>6, <3>1, <3>2, LoadedInStep, BoundInStep
    <3> QED
      BY <1>1, <2>1, <2>2, <2>3, <2>4, <2>6, <3>1, <3>3
         DEF Start, InStep, TypeOK, DriveInStep, BindingInStep
  <2> QED BY <2>5, <2>6
<1>2. CASE GuestWrite
  <2>1. host' \in [Files -> Content] /\ FilesKeepTheirDisk' /\ io' \in Outcomes
    BY <1>2, NoFlushKeeps DEF GuestWrite
  <2>2. image \in DiskImage /\ image.writes + 1 \in 0 .. MaxWrites
    BY <1>2, ZeroWrites DEF GuestWrite, InStep, TypeOK, DiskImage
  <2>3. image' = [image EXCEPT !.writes = image.writes + 1, !.dirty = TRUE]
    BY <1>2 DEF GuestWrite
  <2>4. image' \in DiskImage /\ image'.disk = image.disk /\ image'.host_path = image.host_path
    BY <2>2, <2>3 DEF DiskImage
  <2> QED
    BY <1>2, <2>1, <2>4
       DEF GuestWrite, InStep, TypeOK, CacheInStep, DriveInStep, BindingInStep
<1>3. CASE SwapDisk
  <2>1. host' \in [Files -> Content] /\ FilesKeepTheirDisk' /\ io' \in Outcomes
    BY <1>3, FlushKeeps DEF SwapDisk
  <2>2. attached /\ index \in DOMAIN paths /\ index' \in DOMAIN paths /\ DOMAIN cache = DOMAIN paths
    BY <1>3 DEF SwapDisk, InStep, TypeOK, DriveInStep
  <2>3. Data(image) \in Content /\ Data(image).disk = paths[index]
    BY <2>2 DEF Data, Content, InStep, TypeOK, DiskImage, DriveInStep
  <2>4. cache' \in Seq(Content) /\ Len(cache') = Len(paths') /\ CacheInStep'
    BY <1>3, <2>2, <2>3 DEF SwapDisk, InStep, TypeOK, CacheInStep
  <2>5. cache'[index'] \in Content /\ cache'[index'].disk = paths[index'] /\ paths[index'] \in Files
    BY <1>3, <2>2, <2>4 DEF SwapDisk, CacheInStep, InStep, TypeOK
  <2>6. /\ image' \in DiskImage /\ image'.disk = paths[index']
        /\ image'.host_path # NoFile => image'.host_path = paths[index']
    BY <1>3, <2>5, LoadedInStep, BoundInStep DEF SwapDisk
  <2> QED
    BY <1>3, <2>1, <2>2, <2>4, <2>6 DEF SwapDisk, InStep, TypeOK, DriveInStep, BindingInStep
<1>4. CASE ToggleWritable
  <2>1. host' \in [Files -> Content] /\ FilesKeepTheirDisk' /\ io' \in Outcomes
    BY <1>4, NoFlushKeeps DEF ToggleWritable
  <2>2. index <= Len(paths) => attached /\ paths[index] \in Files /\ image.disk = paths[index]
    BY DEF InStep, TypeOK, DriveInStep
  <2>3. /\ image' \in DiskImage /\ image'.disk = image.disk
        /\ image'.host_path # NoFile => image'.disk = image'.host_path
    BY <1>4, <2>2, BoundInStep DEF ToggleWritable, InStep, TypeOK, BindingInStep
  <2> QED
    BY <1>4, <2>1, <2>3
       DEF ToggleWritable, InStep, TypeOK, CacheInStep, DriveInStep, BindingInStep
<1>5. CASE \E list \in Selections : OpenSelection(list)
  <2>1. host' \in [Files -> Content] /\ FilesKeepTheirDisk' /\ io' \in Outcomes
    BY <1>5, FlushKeeps DEF OpenSelection
  <2>2. PICK list \in Selections :
          /\ paths' = list /\ cache' = Contents(list)
          /\ image' = IF writable /\ host'[list[1]].exact THEN Bound(Loaded(cache'[1]), list[1])
                      ELSE Loaded(cache'[1])
          /\ parted' = Reopened(list)
    BY <1>5 DEF OpenSelection
  <2>3. list \in Seq(Files) /\ 1 \in DOMAIN list /\ list[1] \in Files
    BY ListsAreSequences
  <2>4. cache' \in Seq(Content) /\ Len(cache') = Len(paths') /\ CacheInStep'
    BY <2>2, <2>3, ContentsInStep DEF CacheInStep
  <2>5. cache'[1] \in Content /\ cache'[1].disk = list[1]
    BY <2>2, <2>3, <2>4 DEF CacheInStep
  <2>6. /\ image' \in DiskImage /\ image'.disk = list[1]
        /\ image'.host_path # NoFile => image'.host_path = list[1]
    BY <2>2, <2>3, <2>5, LoadedInStep, BoundInStep
  <2>7. parted' \subseteq Range(paths')
    BY <2>2 DEF Reopened
  <2> QED
    BY <1>5, <2>1, <2>2, <2>3, <2>4, <2>6, <2>7
       DEF OpenSelection, InStep, TypeOK, DriveInStep, BindingInStep
<1>6. CASE EjectDisk
  BY <1>6, FlushKeeps, EmptyInStep
     DEF EjectDisk, InStep, TypeOK, CacheInStep, DriveInStep, BindingInStep
<1>7. CASE Remount
  <2>1. host' \in [Files -> Content] /\ FilesKeepTheirDisk' /\ io' \in Outcomes
    BY <1>7, NoFlushKeeps DEF Remount
  <2>2. cache # << >> <=> attached
    BY DEF InStep, TypeOK, DriveInStep
  <2> QED
    BY <1>7, <2>1, <2>2, SynthesizedInStep
       DEF Remount, InStep, TypeOK, CacheInStep, DriveInStep, BindingInStep
<1>8. CASE Shutdown
  <2>1. host' \in [Files -> Content] /\ FilesKeepTheirDisk' /\ io' \in Outcomes
    <3>1. host' = Flushed(image, io') \/ host' = host
      BY <1>8 DEF Shutdown
    <3> QED BY <1>8, <3>1, FlushedKeeps DEF Shutdown, InStep, TypeOK, FilesKeepTheirDisk
  <2> QED
    BY <1>8, <2>1, SynthesizedInStep, EmptyInStep
       DEF Shutdown, NoSession, InStep, TypeOK, CacheInStep, DriveInStep, BindingInStep
<1>9. CASE Crash
  BY <1>9, SynthesizedInStep, EmptyInStep
     DEF Crash, NoSession, InStep, TypeOK, CacheInStep, DriveInStep, BindingInStep,
         FilesKeepTheirDisk
<1>10. CASE \E f \in Files : WriteBlank(f)
  <2>1. PICK f \in Files : host' = [host EXCEPT ![f] = Blank(f)]
    BY <1>10 DEF WriteBlank
  <2>2. Blank(f) \in Content /\ Blank(f).disk = f
    BY ZeroWrites DEF Blank, Content, Owner
  <2>3. host' \in [Files -> Content] /\ FilesKeepTheirDisk'
    BY <2>1, <2>2 DEF InStep, TypeOK, FilesKeepTheirDisk
  <2> QED
    BY <1>10, <2>3
       DEF WriteBlank, Outcomes, InStep, TypeOK, CacheInStep, DriveInStep, BindingInStep
<1>11. CASE UNCHANGED vars
  BY <1>11 DEF vars, InStep, TypeOK, CacheInStep, DriveInStep, BindingInStep, FilesKeepTheirDisk
<1> QED
  BY <1>1, <1>2, <1>3, <1>4, <1>5, <1>6, <1>7, <1>8, <1>9, <1>10, <1>11 DEF MediaNext

\* The list, the cache, the drive and the binding are in step in every state.
THEOREM SessionInStep == Spec => []InStep
BY InitInStep, NextInStep, NextIsMedia, PTL DEF Spec

\* Every file keeps the bytes of its own disk, through any order of swaps,
\* toggles, selections, ejects, resets, crashes and failing writes.
THEOREM OwnFileOnly == Spec => []FilesKeepTheirDisk
BY SessionInStep, PTL DEF InStep

-----------------------------------------------------------------------------
(***************************************************************************)
(* No disk of the list falls behind its file, but for a file the user      *)
(* chose once more while it was in the drive (SavesPersist says what       *)
(* happens then).  The cache may be older than the disk in the drive but   *)
(* never older than the file, because a flush and the update of the cache  *)
(* go together; that is what makes NotBehindFile inductive.                *)
(***************************************************************************)
DistinctPaths == \A j, k \in DOMAIN paths : paths[j] = paths[k] => j = k
CacheNotBehind ==
  \A k \in DOMAIN paths : paths[k] \notin parted => cache[k].writes >= host[paths[k]].writes
DriveNotBehind ==
  attached /\ paths[index] \notin parted => image.writes >= host[paths[index]].writes

Ahead == InStep /\ DistinctPaths /\ CacheNotBehind /\ DriveNotBehind

\* A flush brings a file up to the image or leaves it no newer than it was.
LEMMA FlushedBehind ==
  ASSUME InStep, NEW outcome \in Outcomes, NEW f \in Files
  PROVE  \/ Flushed(image, outcome)[f].writes <= host[f].writes
         \/ f = image.host_path /\ Flushed(image, outcome)[f].writes = image.writes
<1>1. host[f].writes \in Nat /\ host[f].writes <= host[f].writes
  BY ZeroWrites DEF InStep, TypeOK, Content
<1>2. Data(image).writes = image.writes
  BY DEF Data
<1>3. Torn(host[f]).writes = 0
  BY DEF InStep, TypeOK, Content, Torn
<1>4. host \in [Files -> Content]
  BY DEF InStep, TypeOK
<1> QED BY <1>1, <1>2, <1>3, <1>4 DEF Flushed

\* A flush brings the bound file up to the mounted image, at most.
LEMMA FlushBehind ==
  ASSUME InStep, FlushIfWritable, NEW f \in Files
  PROVE  \/ host'[f].writes <= host[f].writes
         \/ f = image.host_path /\ writable /\ host'[f].writes = image.writes
<1>1. host[f].writes <= host[f].writes
  BY ZeroWrites DEF InStep, TypeOK, Content
<1> QED BY <1>1, FlushedBehind DEF FlushIfWritable

\* Writes are counted in numbers.
LEMMA CountsAreNumbers ==
  ASSUME InStep
  PROVE  /\ \A f \in Files : host[f].writes \in Nat
         /\ \A k \in DOMAIN paths : paths[k] \in Files /\ cache[k].writes \in Nat
         /\ image.writes \in Nat /\ DOMAIN cache = DOMAIN paths
<1>1. \A c \in Content : c.writes \in Nat
  BY ZeroWrites DEF Content
<1>2. DOMAIN cache = DOMAIN paths
  BY DEF InStep, TypeOK
<1>3. \A k \in DOMAIN paths : paths[k] \in Files /\ cache[k] \in Content
  BY <1>2 DEF InStep, TypeOK
<1>4. image.writes \in Nat
  BY ZeroWrites DEF InStep, TypeOK, DiskImage
<1> QED BY <1>1, <1>2, <1>3, <1>4 DEF InStep, TypeOK

\* Neither loading nor binding loses a write.
LEMMA LoadedWrites ==
  ASSUME NEW c, NEW i \in DiskImage, NEW p
  PROVE  Loaded(c).writes = c.writes /\ Bound(i, p).writes = i.writes
BY DEF Loaded, Bound, DiskImage

\* No step leaves a cache or the drive behind the file.
LEMMA NextAhead == Ahead /\ [MediaNext]_vars => Ahead'
<1> SUFFICES ASSUME Ahead, [MediaNext]_vars PROVE Ahead'
  OBVIOUS
<1>1. InStep' /\ InStep
  BY NextInStep DEF Ahead
<1>2. CASE Start
  <2>1. PICK list \in CommandLines :
          /\ paths' = list /\ cache' = Contents(list)
          /\ attached' = (list # << >>)
          /\ image' = IF list = << >> THEN Synthesized
                      ELSE IF writable' THEN Bound(Loaded(host[list[1]]), list[1])
                      ELSE Loaded(host[list[1]])
    BY <1>2 DEF Start
  <2>2. list \in Seq(Files) /\ (list # << >> => list[1] \in Files) /\ host' = host /\ index' = 1
    BY <1>2, ListsAreSequences DEF Start, NoFlush
  <2>3. DistinctPaths'
    BY <2>1, SelectionAssumption DEF DistinctPaths
  <2>4. CacheNotBehind'
    BY <1>1, <2>1, <2>2, ContentsInStep, CountsAreNumbers DEF CacheNotBehind
  <2>5. DriveNotBehind'
    <3>1. CASE list # << >>
      <4>1. host[list[1]] \in Content
        BY <1>1, <2>2, <3>1 DEF InStep, TypeOK
      <4>2. image'.writes = host[list[1]].writes
        BY <2>1, <3>1, <4>1, LoadedWrites, LoadedInStep
      <4> QED BY <1>1, <2>1, <2>2, <3>1, <4>2, CountsAreNumbers DEF DriveNotBehind
    <3> QED BY <2>1, <3>1 DEF DriveNotBehind
  <2> QED BY <1>1, <2>3, <2>4, <2>5 DEF Ahead
<1>3. CASE GuestWrite
  <2>1. image'.writes = image.writes + 1
    BY <1>1, <1>3 DEF GuestWrite, InStep, TypeOK, DiskImage
  <2>2. index \in DOMAIN paths /\ paths[index] \in Files
    BY <1>1, <1>3 DEF GuestWrite, InStep, TypeOK, DriveInStep
  <2> QED
    BY <1>1, <1>3, <2>1, <2>2, CountsAreNumbers
       DEF GuestWrite, NoFlush, Ahead, DistinctPaths, CacheNotBehind, DriveNotBehind
<1>4. CASE SwapDisk
  <2>1. FlushIfWritable /\ paths' = paths /\ attached
    BY <1>1, <1>4 DEF SwapDisk, InStep, TypeOK, DriveInStep
  <2>2. index \in DOMAIN paths /\ index' \in DOMAIN paths /\ attached'
    BY <1>1, <2>1, <1>4 DEF SwapDisk, InStep, TypeOK, DriveInStep
  <2>3. ASSUME NEW k \in DOMAIN paths, paths[k] \notin parted
        PROVE  cache'[k].writes >= host'[paths[k]].writes
    <3>1. paths[k] \in Files /\ cache[k].writes >= host[paths[k]].writes
      BY <1>1, <2>3, CountsAreNumbers DEF Ahead, CacheNotBehind
    <3>2. host'[paths[k]].writes \in Nat
      BY <1>1, <3>1, ZeroWrites DEF InStep, TypeOK, Content
    <3>3. \/ host'[paths[k]].writes <= host[paths[k]].writes
          \/ k = index /\ writable /\ host'[paths[k]].writes = image.writes
      <4>1. paths[k] = image.host_path => k = index
        BY <1>1, <2>1, <2>2, <3>1, FilesAssumption
           DEF InStep, DriveInStep, BindingInStep, Ahead, DistinctPaths
      <4> QED BY <1>1, <2>1, <3>1, <4>1, FlushBehind
    <3>4. CASE k = index /\ writable
      <4>1. cache'[k].writes = image.writes
        BY <1>1, <1>4, <3>4, CountsAreNumbers DEF SwapDisk, Data, InStep, TypeOK
      <4>2. image.writes >= host[paths[k]].writes
        BY <2>1, <2>3, <3>4 DEF Ahead, DriveNotBehind
      <4> QED BY <1>1, <3>1, <3>2, <3>3, <4>1, <4>2, CountsAreNumbers
    <3>5. CASE ~(k = index /\ writable)
      <4>1. cache'[k] = cache[k]
        BY <1>1, <1>4, <3>5, CountsAreNumbers DEF SwapDisk, InStep, TypeOK
      <4> QED BY <1>1, <3>1, <3>2, <3>3, <3>5, <4>1, CountsAreNumbers
    <3> QED BY <3>4, <3>5
  <2>4. cache'[index'] \in Content
    BY <1>1, <2>1, <2>2 DEF InStep, TypeOK
  <2>5. image'.writes = cache'[index'].writes
    BY <1>4, <2>4, LoadedWrites, LoadedInStep DEF SwapDisk
  <2>6. parted' = parted
    BY <1>4 DEF SwapDisk
  <2> QED
    BY <1>1, <2>1, <2>2, <2>3, <2>5, <2>6 DEF Ahead, DistinctPaths, CacheNotBehind, DriveNotBehind
<1>5. CASE ToggleWritable
  <2>1. image'.writes = image.writes
    BY <1>1, <1>5, LoadedWrites DEF ToggleWritable, InStep, TypeOK
  <2> QED
    BY <1>1, <1>5, <2>1
       DEF ToggleWritable, NoFlush, Ahead, DistinctPaths, CacheNotBehind, DriveNotBehind
<1>6. CASE \E list \in Selections : OpenSelection(list)
  <2>1. PICK list \in Selections :
          /\ parted' = Range(list) \cap {image.host_path}
          /\ paths' = list /\ cache' = Contents(list)
          /\ image' = IF writable /\ host'[list[1]].exact THEN Bound(Loaded(cache'[1]), list[1])
                      ELSE Loaded(cache'[1])
    BY <1>6 DEF OpenSelection, Reopened
  <2>2. list \in Seq(Files) /\ 1 \in DOMAIN list /\ index' = 1 /\ FlushIfWritable
    BY <1>6, ListsAreSequences DEF OpenSelection
  <2>3. DistinctPaths'
    BY <2>1, SelectionAssumption DEF DistinctPaths
  <2>4. ASSUME NEW k \in DOMAIN list, list[k] \notin parted'
        PROVE  cache'[k].writes >= host'[list[k]].writes
    <3>1. list[k] \in Files /\ cache'[k] = host[list[k]]
      BY <1>1, <2>1, <2>2, ContentsInStep
    <3>2. host'[list[k]].writes <= host[list[k]].writes
      <4>1. list[k] # image.host_path
        BY <2>1, <2>4 DEF Range
      <4> QED BY <1>1, <2>2, <3>1, <4>1, FlushBehind
    <3>3. host'[list[k]].writes \in Nat /\ host[list[k]].writes \in Nat
      BY <1>1, <3>1, ZeroWrites DEF InStep, TypeOK, Content
    <3> QED BY <3>1, <3>2, <3>3
  <2>5. cache'[1] \in Content
    BY <1>1, <2>1, <2>2 DEF InStep, TypeOK
  <2>6. image'.writes = cache'[1].writes
    BY <2>1, <2>5, LoadedWrites, LoadedInStep
  <2> QED BY <1>1, <2>1, <2>2, <2>3, <2>4, <2>6 DEF Ahead, CacheNotBehind, DriveNotBehind
<1>7. CASE EjectDisk
  BY <1>1, <1>7, EmptyInStep DEF EjectDisk, Ahead, DistinctPaths, CacheNotBehind, DriveNotBehind
<1>8. CASE Remount
  <2>1. attached' => image' = image /\ attached
    <3>1. cache # << >> <=> attached
      BY <1>1 DEF InStep, TypeOK, DriveInStep
    <3> QED BY <1>8, <3>1 DEF Remount
  <2> QED
    BY <1>1, <1>8, <2>1
       DEF Remount, NoFlush, Ahead, DistinctPaths, CacheNotBehind, DriveNotBehind
<1>9. CASE Shutdown \/ Crash
  BY <1>1, <1>9, EmptyInStep
     DEF Shutdown, Crash, NoSession, Ahead, DistinctPaths, CacheNotBehind, DriveNotBehind
<1>10. CASE \E f \in Files : WriteBlank(f)
  <2>1. ASSUME NEW k \in DOMAIN paths
        PROVE  host'[paths[k]] = host[paths[k]] \/ paths[k] \in parted'
    BY <1>1, <1>10, CountsAreNumbers DEF WriteBlank, InStep, TypeOK, Range
  <2>2. attached => index \in DOMAIN paths
    BY <1>1 DEF InStep, DriveInStep
  <2>3. parted \subseteq parted' /\ paths' = paths /\ cache' = cache /\ image' = image
        /\ index' = index /\ attached' = attached
    BY <1>10 DEF WriteBlank
  <2> QED
    BY <1>1, <2>1, <2>2, <2>3
       DEF Ahead, DistinctPaths, CacheNotBehind, DriveNotBehind
<1>11. CASE UNCHANGED vars
  BY <1>1, <1>11 DEF vars, Ahead, DistinctPaths, CacheNotBehind, DriveNotBehind
<1> QED
  BY <1>2, <1>3, <1>4, <1>5, <1>6, <1>7, <1>8, <1>9, <1>10, <1>11 DEF MediaNext

\* They are not behind at the start.
LEMMA InitAhead == Init => Ahead
BY InitInStep, EmptyInStep DEF Init, Ahead, DistinctPaths, CacheNotBehind, DriveNotBehind

\* A disk swapped out and back is never older than what was flushed of it,
\* through any order of swaps, selections, ejects, resets and failing writes.
THEOREM NeverBehind == Spec => []NotBehindFile
<1>1. Ahead => NotBehindFile
  BY DEF Ahead, NotBehindFile, MountedHere, CacheNotBehind, DriveNotBehind
<1> QED BY <1>1, InitAhead, NextAhead, NextIsMedia, PTL DEF Spec

\* Both together: no disk is mixed with another or falls behind its file.
THEOREM DisksAreKept == Spec => []DisksKept
BY OwnFileOnly, NeverBehind, PTL DEF DisksKept

-----------------------------------------------------------------------------
(***************************************************************************)
(* What leaves the drive is saved.  The flush goes to whatever the image   *)
(* is bound to, so the theorem is about the binding: with write-back on,   *)
(* the disk in the drive is bound to its file, unless the file had another *)
(* size when it was opened.  Only the user can give such a file the right  *)
(* size behind the session's back (parted).                                *)
(***************************************************************************)
BoundToItsFile == attached /\ WriteBack => image.host_path = paths[index]

Saving == InStep /\ DistinctPaths /\ BoundToItsFile

\* A flush changes no file but the one the image is bound to.
LEMMA FlushedElsewhere ==
  ASSUME InStep, NEW outcome \in Outcomes, NEW f \in Files, f # image.host_path
  PROVE  Flushed(image, outcome)[f] = host[f]
BY DEF Flushed, InStep, TypeOK

\* A swap binds the disk it mounts.
LEMMA SwapBinds ==
  ASSUME Saving, SwapDisk
  PROVE  BoundToItsFile'
<1>1. cache'[index'] \in Content /\ paths[index'] \in Files
  <2>1. InStep' /\ index' \in DOMAIN paths' /\ paths' = paths
    BY NextInStep DEF MediaNext, Saving, SwapDisk, InStep, TypeOK, DriveInStep
  <2> QED BY <2>1 DEF InStep, TypeOK
<1>2. CASE writable
  BY <1>1, <1>2, LoadedInStep, BoundInStep DEF SwapDisk, BoundToItsFile
<1>3. CASE ~writable
  BY <1>3 DEF SwapDisk, BoundToItsFile, WriteBack
<1> QED BY <1>2, <1>3

\* So does the opening of a list.
LEMMA OpenBinds ==
  ASSUME Saving, NEW list \in Selections, OpenSelection(list)
  PROVE  BoundToItsFile'
<1>1. list \in Seq(Files) /\ 1 \in DOMAIN list /\ list[1] \in Files
  BY ListsAreSequences
<1>2. cache'[1] \in Content /\ paths' = list /\ index' = 1
  BY <1>1, ContentsInStep DEF OpenSelection, Saving, InStep, TypeOK
<1>3. CASE writable /\ host'[list[1]].exact
  BY <1>1, <1>2, <1>3, LoadedInStep, BoundInStep DEF OpenSelection, BoundToItsFile
<1>4. CASE ~(writable /\ host'[list[1]].exact)
  <2>1. image'.host_path = NoFile
    BY <1>2, <1>4, LoadedInStep DEF OpenSelection
  <2> QED
    BY <1>2, <1>4, <2>1 DEF OpenSelection, BoundToItsFile, WriteBack
<1> QED BY <1>3, <1>4

\* Every step keeps the drive bound.
LEMMA NextSaving == Saving /\ [MediaNext]_vars => Saving'
<1> SUFFICES ASSUME Saving, [MediaNext]_vars PROVE Saving'
  OBVIOUS
<1>1. InStep' /\ InStep /\ DistinctPaths /\ BoundToItsFile
  BY NextInStep DEF Saving
<1>2. CASE Start
  <2>1. PICK list \in CommandLines :
          /\ paths' = list /\ attached' = (list # << >>)
          /\ image' = IF list = << >> THEN Synthesized
                      ELSE IF writable' THEN Bound(Loaded(host[list[1]]), list[1])
                      ELSE Loaded(host[list[1]])
    BY <1>2 DEF Start
  <2>2. list \in Seq(Files) /\ index' = 1
    BY <1>2, ListsAreSequences DEF Start
  <2>3. BoundToItsFile'
    <3>1. CASE list # << >> /\ writable'
      <4>1. list[1] \in Files /\ host[list[1]] \in Content
        BY <1>1, <2>2, <3>1 DEF InStep, TypeOK
      <4> QED BY <2>1, <2>2, <3>1, <4>1, LoadedInStep, BoundInStep DEF BoundToItsFile
    <3> QED BY <2>1, <3>1 DEF BoundToItsFile, WriteBack
  <2> QED BY <1>1, <2>1, <2>3, SelectionAssumption DEF Saving, DistinctPaths
<1>3. CASE GuestWrite
  <2>1. image'.host_path = image.host_path
    BY <1>1, <1>3 DEF GuestWrite, InStep, TypeOK, DiskImage
  <2> QED
    BY <1>1, <1>3, <2>1 DEF GuestWrite, NoFlush, Saving, DistinctPaths, BoundToItsFile, WriteBack
<1>4. CASE SwapDisk
  BY <1>1, <1>4, SwapBinds DEF SwapDisk, Saving, DistinctPaths
<1>5. CASE ToggleWritable
  <2>1. attached => index <= Len(paths) /\ paths[index] \in Files
    BY <1>1 DEF InStep, TypeOK, DriveInStep
  <2>2. BoundToItsFile'
    BY <1>1, <1>5, <2>1, BoundInStep
       DEF ToggleWritable, BoundToItsFile, WriteBack, InStep, TypeOK
  <2> QED BY <1>1, <1>5, <2>2 DEF ToggleWritable, Saving, DistinctPaths
<1>6. CASE \E list \in Selections : OpenSelection(list)
  <2>1. PICK list \in Selections : OpenSelection(list)
    BY <1>6
  <2> QED
    BY <1>1, <2>1, OpenBinds, SelectionAssumption DEF OpenSelection, Saving, DistinctPaths
<1>7. CASE EjectDisk \/ Shutdown \/ Crash
  BY <1>1, <1>7, EmptyInStep
     DEF EjectDisk, Shutdown, Crash, NoSession, Saving, DistinctPaths, BoundToItsFile
<1>8. CASE Remount
  <2>1. attached' => image' = image /\ attached
    <3>1. cache # << >> <=> attached
      BY <1>1 DEF InStep, TypeOK, DriveInStep
    <3> QED BY <1>8, <3>1 DEF Remount
  <2> QED
    BY <1>1, <1>8, <2>1
       DEF Remount, NoFlush, Saving, DistinctPaths, BoundToItsFile, WriteBack
<1>9. CASE \E f \in Files : WriteBlank(f)
  <2>1. PICK f \in Files : WriteBlank(f)
    BY <1>9
  <2>2. attached => index \in DOMAIN paths /\ paths[index] \in Files
    BY <1>1 DEF InStep, TypeOK, DriveInStep
  <2>3. attached /\ WriteBack' => WriteBack
    BY <1>1, <2>1, <2>2 DEF WriteBlank, WriteBack, Range, InStep, TypeOK
  <2> QED
    BY <1>1, <2>1, <2>3 DEF WriteBlank, Saving, DistinctPaths, BoundToItsFile
<1>10. CASE UNCHANGED vars
  BY <1>1, <1>10 DEF vars, Saving, DistinctPaths, BoundToItsFile, WriteBack
<1> QED
  BY <1>2, <1>3, <1>4, <1>5, <1>6, <1>7, <1>8, <1>9, <1>10 DEF MediaNext

\* It is bound at the start.
LEMMA InitSaving == Init => Saving
BY InitInStep, EmptyInStep DEF Init, Saving, DistinctPaths, BoundToItsFile

Saved == Leaves /\ WriteBack /\ io' = "written" => host'[paths[index]] = Data(image)

\* A disk that leaves takes its changes to its file.
LEMMA StepSaves == Saving /\ [MediaNext]_vars => [Saved]_vars
<1> SUFFICES ASSUME Saving, MediaNext, Leaves, WriteBack, io' = "written"
             PROVE  host'[paths[index]] = Data(image)
  BY DEF Saved
<1>1. image.host_path = paths[index] /\ paths[index] \in Files
  BY DEF Saving, Leaves, BoundToItsFile, InStep, TypeOK, DriveInStep
<1>2. host' = Flushed(image, "written")
  <2>1. CASE SwapDisk \/ EjectDisk \/ \E list \in Selections : OpenSelection(list)
    BY <2>1 DEF SwapDisk, OpenSelection, EjectDisk, FlushIfWritable, WriteBack
  <2>2. CASE Shutdown
    <3>1. cache # << >>
      BY DEF Saving, Leaves, InStep, TypeOK, DriveInStep
    <3> QED BY <2>2, <3>1 DEF Shutdown
  <2>3. CASE Start \/ Crash
    BY <2>3 DEF Start, Crash, Leaves
  <2>4. CASE GuestWrite \/ ToggleWritable \/ \E f \in Files : WriteBlank(f)
    BY <2>4 DEF GuestWrite, ToggleWritable, WriteBlank, Leaves
  <2>5. CASE Remount
    <3>1. cache # << >>
      BY DEF Saving, Leaves, InStep, TypeOK, DriveInStep
    <3> QED BY <2>5, <3>1 DEF Remount, Leaves
  <2> QED BY <2>1, <2>2, <2>3, <2>4, <2>5 DEF MediaNext
<1> QED BY <1>1, <1>2, FilesAssumption DEF Flushed, Saving, InStep, TypeOK

\* A disk with write-back that leaves the drive is in its file as it was in
\* the drive, if the file system did not fail in this very step.
THEOREM SavedOnLeaving == Spec => TakenOutIsSaved
<1>1. Saving /\ [Next]_vars => [Saved]_vars  BY StepSaves, NextIsMedia
<1>2. Spec => [][Saved]_vars
  BY <1>1, InitSaving, NextSaving, NextIsMedia, PTL DEF Spec
<1> QED BY <1>2 DEF TakenOutIsSaved, Saved

-----------------------------------------------------------------------------
(***************************************************************************)
(* The session with its dialogs.  The mailbox is free, about to show a     *)
(* dialog, showing it, or holding its answer; the callback thread moves it *)
(* from the third to the fourth at any moment, and kind is what the user   *)
(* was asked for in all but the first.                                     *)
(***************************************************************************)
Opened == opening # NoKind
Shown == dialog # NoDialog

MailboxInStep ==
  /\ opening \in Kinds \cup {NoKind}
  /\ Opened => ~Shown /\ in_flight /\ kind = opening
  /\ Shown => /\ in_flight /\ dialog.kind \in Kinds /\ kind = dialog.kind
              /\ default_dir = dialog.dir
  /\ in_flight => ~pending
  /\ pending => ~Opened /\ ~Shown /\ kind = answered /\ answered \in Kinds
                /\ paths_chosen \in Answers(answered)

\* The mailbox is empty at the start.
LEMMA InitMailbox == DInit => MailboxInStep
  BY DEF DInit, MailboxInStep, Opened, Shown

\* Every step keeps request, answer and directory in step.
LEMMA NextMailbox == MailboxInStep /\ [DNext]_dialogVars => MailboxInStep'
<1> SUFFICES ASSUME MailboxInStep, [DNext]_dialogVars PROVE MailboxInStep'
  OBVIOUS
<1>1. NoKind \notin Kinds  BY DEF NoKind, Kinds
<1>2. ASSUME NEW k \in Kinds, AskFor(k) PROVE MailboxInStep'
  BY <1>1, <1>2 DEF AskFor, MainThreadFree, MailboxInStep, Opened, Shown
<1>3. CASE ShowDialog
  <2> DEFINE d == [kind |-> opening, dir |-> DirOf[opening]]
  <2>1. opening \in Kinds /\ opening # NoKind /\ ~Shown /\ in_flight /\ ~pending /\ kind = opening
    BY <1>3 DEF ShowDialog, MailboxInStep, Opened
  <2>2. dialog' = d /\ default_dir' = d.dir /\ d.kind = opening  BY <1>3 DEF ShowDialog
  <2> QED BY <1>3, <2>1, <2>2 DEF ShowDialog, MailboxInStep, Opened, Shown
<1>4. CASE DialogCallback
  <2>1. /\ Shown /\ ~Opened /\ dialog.kind \in Kinds /\ kind = dialog.kind
        /\ opening \in Kinds \cup {NoKind}
    BY <1>4 DEF DialogCallback, MailboxInStep, Opened, Shown
  <2>2. paths_chosen' \in Answers(dialog.kind)  BY <1>4 DEF DialogCallback
  <2> QED BY <1>4, <2>1, <2>2 DEF DialogCallback, MailboxInStep, Opened, Shown, Answers
<1>5. CASE DrainMailbox
  BY <1>5 DEF DrainMailbox, MailboxInStep, Opened, Shown
<1>6. CASE SessionStep
  BY <1>6 DEF SessionStep, mailbox, MailboxInStep, Opened, Shown, Answers
<1>7. CASE EndSession
  BY <1>7 DEF EndSession, MailboxInStep, Opened, Shown
<1>8. CASE UNCHANGED dialogVars
  BY <1>8 DEF dialogVars, mailbox, MailboxInStep, Opened, Shown, Answers
<1> QED BY <1>2, <1>3, <1>4, <1>5, <1>6, <1>7, <1>8 DEF DNext

\* The dialogs' invariant holds.
LEMMA MailboxSound == DSpec => []MailboxInStep
  BY InitMailbox, NextMailbox, PTL DEF DSpec

\* What the callback thread leaves is applied as what the user was asked for,
\* and the directory an open dialog refers to stands, for any interleaving of
\* the thread with the main loop (dialog_callback, drain_dialog_mailbox).
THEOREM DialogsStand == DSpec => []DialogStands
<1>1. MailboxInStep => DialogStands
  BY DEF MailboxInStep, DialogStands, AppliedAsAsked, DirectoryStands, Opened, Shown
<1> QED BY <1>1, MailboxSound, PTL

\* An answer does to the session what the user could have done at once.
LEMMA DialogStepIsMedia == MailboxInStep /\ [DNext]_dialogVars => [MediaNext]_vars
<1> SUFFICES ASSUME MailboxInStep, [DNext]_dialogVars PROVE [MediaNext]_vars
  OBVIOUS
<1>1. CASE DrainMailbox
  <2>1. Apply(kind, paths_chosen) /\ kind \in Kinds /\ paths_chosen \in Answers(kind)
    BY <1>1 DEF DrainMailbox, MailboxInStep
  <2>2. CASE paths_chosen = NoAnswer  BY <2>1, <2>2 DEF Apply
  <2>3. CASE paths_chosen # NoAnswer /\ kind = "OpenDisks"
    <3>1. paths_chosen \in Selections  BY <2>1, <2>3 DEF Answers
    <3>2. OpenSelection(paths_chosen)  BY <2>1, <2>3 DEF Apply
    <3> QED BY <3>1, <3>2 DEF MediaNext
  <2>4. CASE paths_chosen # NoAnswer /\ kind = "SaveBlankDisk"
    <3>1. PICK f \in Files : paths_chosen = <<f>>  BY <2>1, <2>4 DEF Answers
    <3>2. WriteBlank(f)  BY <2>1, <2>4, <3>1 DEF Apply
    <3> QED BY <3>2 DEF MediaNext
  <2>5. CASE paths_chosen # NoAnswer /\ kind \notin {"OpenDisks", "SaveBlankDisk"}
    BY <2>1, <2>5 DEF Apply, Refused, MediaNext
  <2> QED BY <2>2, <2>3, <2>4, <2>5
<1>2. CASE SessionStep
  BY <1>2 DEF SessionStep, MediaNext, ResetMachine, PowerCycle
<1>3. CASE EndSession
  BY <1>3 DEF EndSession, MediaNext
<1>4. CASE ShowDialog \/ DialogCallback \/ (\E k \in Kinds : AskFor(k)) \/ UNCHANGED dialogVars
  BY <1>4 DEF ShowDialog, DialogCallback, AskFor, dialogVars
<1> QED BY <1>1, <1>2, <1>3, <1>4 DEF DNext

\* So the disks are kept whatever moment an answer comes at: the selection,
\* the blank disk and the resets of the mailbox included.
THEOREM DialogsKeepDisks == DSpec => []DisksKept
<1>1. Ahead => DisksKept
  BY DEF Ahead, InStep, DisksKept, NotBehindFile, MountedHere, CacheNotBehind, DriveNotBehind
<1>2. DInit => Ahead  BY InitAhead DEF DInit
<1>3. MailboxInStep /\ Ahead /\ [DNext]_dialogVars => Ahead'
  BY DialogStepIsMedia, NextAhead
<1> QED BY <1>1, <1>2, <1>3, MailboxSound, PTL DEF DSpec

\* And a disk that leaves the drive for one the dialog opened is saved.
THEOREM DialogsSaveOnLeaving == DSpec => TakenOutIsSaved
<1>1. DInit => Saving  BY InitSaving DEF DInit
<1>2. MailboxInStep /\ Saving /\ [DNext]_dialogVars => Saving' /\ [Saved]_vars
  BY DialogStepIsMedia, NextSaving, StepSaves
<1>3. DSpec => [][Saved]_vars  BY <1>1, <1>2, MailboxSound, PTL DEF DSpec
<1> QED BY <1>3 DEF TakenOutIsSaved, Saved

-----------------------------------------------------------------------------
(***************************************************************************)
(* The battery files.                                                      *)
(***************************************************************************)
Cart == [rom : Images \cup {"none"}, data : Nat]
HostFile == [kind : {"absent", "new", "legacy", "torn"}, data : Nat]
SaveSteps == {"write", "flush", "rename", "remove", "again"}

BatRecord ==
          [cart : [Slots -> Cart], bound : FmPacs \cup {Unbound}, disabled : BOOLEAN,
           shared : BOOLEAN, user : Users,
           pc : {"off", "run"} \cup SaveSteps,
           then : [op : {"none", "eject", "cycle", "quit"}, slot : Slots],
           files : [FmPacs -> HostFile], temp : [FmPacs -> HostFile], refused : BOOLEAN,
           writes : Nat, expected : [FmPacs -> Nat]]

BatTypeOK == bat \in BatRecord

\* b and c differ in what is in the slots, the path and the progress only.
Kept(b, c) ==
  /\ c.disabled = b.disabled /\ c.shared = b.shared /\ c.user = b.user /\ c.files = b.files /\ c.temp = b.temp
  /\ c.refused = b.refused /\ c.writes = b.writes /\ c.expected = b.expected

\* A save is made for an FM-PAC that is in, to a path that is bound, and what
\* is about to be renamed is a complete image.
SaveUnderWay ==
  /\ bat.pc \in SaveSteps => CanFlush(bat)
  /\ bat.pc \in {"rename", "remove", "again"} => bat.temp[bat.bound].kind = "new"
  /\ bat.pc \in {"remove", "again"} => bat.refused

\* The copies agree: the FM-PAC that is in is the only one, is bound and
\* holds what the games wrote; every other one is in its file.
Agree(b) ==
  /\ ~(IsFmPac(b.cart[1]) /\ IsFmPac(b.cart[2]))
  /\ \A s \in Slots : IsFmPac(b.cart[s]) =>
       b.bound = SaveOf(b, b.cart[s].rom) /\ b.cart[s].data = b.expected[b.bound]
  /\ \A f \in FmPacs : (\A s \in Slots : ~IsSavedIn(b, s, f)) =>
       SaveLoaded(b.files[f]) = b.expected[f]

\* So is the image that is about to be renamed.
CopiesAgree(b) ==
  /\ Agree(b)
  /\ b.pc = "off" => \A s \in Slots : b.cart[s] = Empty
  /\ b.pc = "rename" => b.temp[b.bound] = File("new", b.expected[b.bound])

CopiesInStep == bat.user = "careful" /\ ~bat.disabled /\ ~bat.refused => CopiesAgree(bat)

IInv == BatTypeOK /\ SaveUnderWay /\ CopiesInStep

-----------------------------------------------------------------------------
(***************************************************************************)
(* What the operators of the machine return.                               *)
(***************************************************************************)
LEMMA LoadedIsNat == ASSUME NEW file \in HostFile PROVE SaveLoaded(file) \in Nat
BY DEF SaveLoaded, HostFile

\* The file of an image is the file of an FM-PAC.
LEMMA SaveOfIsFile == \A b : \A rom \in FmPacs : SaveOf(b, rom) \in FmPacs
BY AutoloadAssumption DEF SaveOf

\* Only the cartridge and the path change when a cartridge goes in.
LEMMA InsertedIs ==
  ASSUME NEW b \in BatRecord, NEW slot \in Slots, NEW rom \in Images
  PROVE  LET c == Inserted(b, slot, rom)
         IN  /\ c \in BatRecord
             /\ Kept(b, c) /\ c.pc = b.pc /\ c.then = b.then
             /\ c.bound = IF rom \in FmPacs /\ ~b.disabled THEN SaveOf(b, rom) ELSE b.bound
             /\ \A s \in Slots : s # slot => c.cart[s] = b.cart[s]
             /\ c.cart[slot].rom = rom
             /\ rom \in FmPacs /\ c.bound # Unbound =>
                  c.cart[slot].data = SaveLoaded(b.files[c.bound])
<1> DEFINE bound == IF rom \in FmPacs /\ ~b.disabled THEN SaveOf(b, rom) ELSE b.bound
           data == IF rom \in FmPacs /\ bound # Unbound THEN SaveLoaded(b.files[bound]) ELSE 0
           c == [b EXCEPT !.bound = bound, !.cart[slot] = [rom |-> rom, data |-> data]]
<1>1. Inserted(b, slot, rom) = c
  BY DEF Inserted
<1>2. bound \in FmPacs \cup {Unbound}
  BY SaveOfIsFile DEF BatRecord
<1>3. data \in Nat
  <2>1. bound # Unbound => b.files[bound] \in HostFile
    BY <1>2 DEF BatRecord
  <2> QED BY <2>1, LoadedIsNat
<1>4. [rom |-> rom, data |-> data] \in Cart
  BY <1>3 DEF Cart
<1> HIDE DEF data, bound
<1>5. c \in BatRecord
  BY <1>2, <1>4 DEF BatRecord
<1>6. /\ c.bound = bound /\ \A s \in Slots : s # slot => c.cart[s] = b.cart[s]
      /\ c.cart[slot] = [rom |-> rom, data |-> data]
      /\ Kept(b, c) /\ c.pc = b.pc /\ c.then = b.then
  BY DEF BatRecord, Kept
<1> QED BY <1>1, <1>5, <1>6 DEF data, bound

\* What a cartridge put in a slot changes.
LEMMA PutIs ==
  ASSUME NEW b \in BatRecord, NEW slot \in Slots, NEW rom \in Images \cup {"none"}
  PROVE  LET c == Put(b, slot, rom)
         IN  c \in BatRecord /\ Kept(b, c) /\ c.pc = b.pc /\ c.then = b.then
<1>1. CASE rom = "none"
  BY <1>1 DEF Put, Kept
<1>2. CASE rom # "none"
  BY <1>2, InsertedIs DEF Put
<1> QED BY <1>1, <1>2

\* An operation that is done left the files as they were.
LEMMA DoneIs ==
  ASSUME NEW b \in BatRecord
  PROVE  Done(b) \in BatRecord /\ Kept(b, Done(b)) /\ Done(b).pc \in {"run", "off"}
<1> DEFINE ended == [b EXCEPT !.pc = "run", !.then = NoThen]
           fresh == [ended EXCEPT !.cart = [s \in Slots |-> Empty], !.bound = Unbound]
<1>1. ended \in BatRecord /\ Kept(b, ended) /\ ended.pc = "run" /\ ended.cart = b.cart
  BY DEF BatRecord, Kept, NoThen, Slots
<1>2. Empty \in Cart
  BY DEF Empty, Cart
<1>3. fresh \in BatRecord /\ Kept(b, fresh) /\ fresh.pc = "run"
  <2>1. fresh = [b EXCEPT !.pc = "run", !.then = NoThen, !.cart = [s \in Slots |-> Empty],
                          !.bound = Unbound]
    BY DEF BatRecord
  <2> HIDE DEF fresh
  <2> QED BY <1>2, <2>1 DEF BatRecord, Kept, NoThen, Slots
<1>4. b.then.slot \in Slots /\ \A s \in Slots : b.cart[s].rom \in Images \cup {"none"}
  BY DEF BatRecord, Cart
<1> HIDE DEF ended, fresh
<1>5. CASE b.then.op = "eject"
  <2> DEFINE cart == [ended.cart EXCEPT ![b.then.slot] = Empty]
  <2>1. Done(b) = [ended EXCEPT !.cart = cart]
    BY <1>5 DEF Done, ended
  <2>2. cart \in [Slots -> Cart]
    BY <1>1, <1>2, <1>4 DEF BatRecord
  <2> HIDE DEF cart
  <2> QED BY <1>1, <2>1, <2>2 DEF BatRecord, Kept
<1>6. CASE b.then.op = "cycle"
  <2> DEFINE one == Put(fresh, 1, b.cart[1].rom)
             two == Put(one, 2, b.cart[2].rom)
  <2>1. Done(b) = two
    BY <1>6 DEF Done, ended, fresh
  <2>2. one \in BatRecord /\ Kept(fresh, one) /\ one.pc = fresh.pc
    BY <1>3, <1>4, PutIs DEF Slots
  <2> HIDE DEF one
  <2>3. two \in BatRecord /\ Kept(one, two) /\ two.pc = one.pc
    BY <1>4, <2>2, PutIs DEF Slots
  <2> QED BY <1>3, <2>1, <2>2, <2>3 DEF Kept
<1>7. CASE b.then.op \notin {"eject", "cycle"}
  <2>1. Done(b) = [fresh EXCEPT !.pc = "off"]
    BY <1>7 DEF Done, ended, fresh
  <2> QED BY <1>3, <2>1 DEF BatRecord, Kept
<1> QED BY <1>5, <1>6, <1>7

\* An operation that saves first waits for the save; one that does not goes
\* on.
LEMMA SaveThenIs ==
  ASSUME NEW b \in BatRecord, NEW then \in [op : {"eject", "cycle", "quit"}, slot : Slots],
         NEW wanted \in BOOLEAN
  PROVE  LET c == SaveThen(b, then, wanted)
             next == [b EXCEPT !.then = then]
         IN  /\ c \in BatRecord /\ Kept(b, c)
             /\ next \in BatRecord /\ Kept(b, next)
             /\ IF wanted /\ CanFlush(b)
                THEN /\ c.pc = "write" /\ c.then = then /\ c.cart = b.cart /\ c.bound = b.bound
                     /\ CanFlush(c)
                ELSE c = Done(next) /\ c.pc \in {"run", "off"}
<1> DEFINE next == [b EXCEPT !.then = then]
           c == SaveThen(b, then, wanted)
<1>1. next \in BatRecord /\ Kept(b, next) /\ next.cart = b.cart /\ next.bound = b.bound
  BY DEF BatRecord, Kept
<1>2. CASE wanted /\ CanFlush(b)
  <2>1. c = [b EXCEPT !.then = then, !.pc = "write"]
    BY <1>2 DEF SaveThen, BatRecord
  <2> QED BY <1>1, <1>2, <2>1 DEF BatRecord, Kept, CanFlush, SaveSteps
<1>3. CASE ~(wanted /\ CanFlush(b))
  <2>1. c = Done(next)
    BY <1>3 DEF SaveThen
  <2> HIDE DEF next, c
  <2> QED BY <1>1, <1>3, <2>1, DoneIs DEF Kept, next, c
<1> QED BY <1>2, <1>3

\* A start puts cartridges into empty slots and leaves the files alone.
LEMMA StartedIs ==
  ASSUME NEW b \in BatRecord, NEW rom1 \in Images \cup {"none"}, NEW rom2 \in Images \cup {"none"}
  PROVE  LET empty == [b EXCEPT !.cart = [s \in Slots |-> Empty], !.bound = Unbound, !.pc = "run"]
             one == Put(empty, 1, rom1)
             given == Put(one, 2, rom2)
         IN  /\ empty \in BatRecord /\ Kept(b, empty) /\ empty.pc = "run"
             /\ empty.cart = [s \in Slots |-> Empty] /\ empty.bound = Unbound
             /\ one \in BatRecord /\ Kept(b, one) /\ one.pc = "run"
             /\ given \in BatRecord /\ Kept(b, given) /\ given.pc = "run"
             /\ Started(b, rom1, rom2) = IF rom2 = "none" /\ ~IsFmPac(given.cart[1])
                                         THEN Inserted(given, 2, Autoload) ELSE given
             /\ Started(b, rom1, rom2) \in BatRecord
             /\ Kept(b, Started(b, rom1, rom2)) /\ Started(b, rom1, rom2).pc = "run"
<1> DEFINE empty == [b EXCEPT !.cart = [s \in Slots |-> Empty], !.bound = Unbound, !.pc = "run"]
           one == Put(empty, 1, rom1)
           given == Put(one, 2, rom2)
           start == Started(b, rom1, rom2)
<1>1. /\ empty \in BatRecord /\ Kept(b, empty) /\ empty.pc = "run"
      /\ empty.cart = [s \in Slots |-> Empty] /\ empty.bound = Unbound
  <2>1. Empty \in Cart
    BY DEF Empty, Cart
  <2> QED BY <2>1 DEF BatRecord, Kept
<1> HIDE DEF empty
<1>2. one \in BatRecord /\ Kept(b, one) /\ one.pc = "run"
  BY <1>1, PutIs DEF Slots, Kept
<1> HIDE DEF one
<1>3. given \in BatRecord /\ Kept(b, given) /\ given.pc = "run"
  BY <1>2, PutIs DEF Slots, Kept
<1>4. start = IF rom2 = "none" /\ ~IsFmPac(given.cart[1])
              THEN Inserted(given, 2, Autoload) ELSE given
  BY DEF Started, empty, one
<1> HIDE DEF given, start
<1>5. Autoload \in Images /\ 2 \in Slots
  BY AutoloadAssumption DEF Images, Slots
<1>6. start \in BatRecord /\ Kept(b, start) /\ start.pc = "run"
  BY <1>3, <1>4, <1>5, InsertedIs DEF Kept
<1> QED BY <1>1, <1>2, <1>3, <1>4, <1>6 DEF empty, one, given, start

-----------------------------------------------------------------------------
(***************************************************************************)
(* Types, and the course of a save.                                        *)
(***************************************************************************)
Safe == BatTypeOK /\ SaveUnderWay

\* Every file is whole at the start.
LEMMA SafeInit == BatInit => Safe
<1> SUFFICES ASSUME BatInit PROVE Safe
  OBVIOUS
<1> USE DEF BatInit, NoThen
<1>1. BatTypeOK
  <2>1. Empty \in Cart /\ Absent \in HostFile /\ File("legacy", 1) \in HostFile
    BY DEF Empty, Cart, Absent, HostFile, File
  <2> QED BY <2>1 DEF BatTypeOK, BatRecord, Slots
<1>2. SaveUnderWay
  BY DEF SaveUnderWay, SaveSteps
<1> QED BY <1>1, <1>2 DEF Safe

\* Which FM-PAC is flushed, and where to.
LEMMA FlushTarget ==
  ASSUME NEW b \in BatRecord, CanFlush(b)
  PROVE  b.bound \in FmPacs /\ FlushedSlot(b) \in Slots /\ IsFmPac(b.cart[FlushedSlot(b)])
         /\ Image(b) \in HostFile /\ Image(b).kind = "new"
         /\ Image(b).data = b.cart[FlushedSlot(b)].data
BY DEF BatRecord, CanFlush, FlushedSlot, Slots, Image, File, HostFile, Cart

\* Every step keeps a whole file whole.
LEMMA SafeStep == Safe /\ [BatNext]_bat_vars => Safe'
<1> SUFFICES ASSUME Safe, [BatNext]_bat_vars PROVE Safe'
  OBVIOUS
<1> USE DEF Safe
<1>1. bat \in BatRecord
  BY DEF BatTypeOK
<1>2. ASSUME bat' \in BatRecord, bat'.pc \in {"run", "off"} PROVE Safe'
  BY <1>2 DEF BatTypeOK, SaveUnderWay, SaveSteps
<1>3. CASE StartProgram
  <2>1. PICK rom1, rom2 \in Images \cup {"none"} : bat' = Started(bat, rom1, rom2)
    BY <1>3 DEF StartProgram
  <2> QED BY <1>1, <1>2, <2>1, StartedIs
<1>4. CASE Play
  <2>1. PICK s \in Slots :
          /\ IsFmPac(bat.cart[s])
          /\ bat' = [bat EXCEPT !.cart[s].data = bat.writes + 1, !.writes = @ + 1,
                                !.expected[SaveOf(bat, bat.cart[s].rom)] = bat.writes + 1]
    BY <1>4 DEF Play
  <2> DEFINE cart == [bat.cart EXCEPT ![s] = [bat.cart[s] EXCEPT !.data = bat.writes + 1]]
             expected == [bat.expected EXCEPT ![SaveOf(bat, bat.cart[s].rom)] = bat.writes + 1]
  <2>2. bat' = [bat EXCEPT !.cart = cart, !.writes = bat.writes + 1, !.expected = expected]
    BY <1>1, <2>1 DEF BatRecord
  <2>3. bat.cart \in [Slots -> Cart] /\ bat.expected \in [FmPacs -> Nat] /\ bat.writes + 1 \in Nat
    BY <1>1 DEF BatRecord
  <2>4. [bat.cart[s] EXCEPT !.data = bat.writes + 1] \in Cart
    BY <2>3 DEF Cart
  <2>5. cart \in [Slots -> Cart] /\ expected \in [FmPacs -> Nat]
    BY <2>3, <2>4
  <2>6. bat.pc = "run"
    BY <1>4 DEF Play
  <2> HIDE DEF cart, expected
  <2>7. bat' \in BatRecord /\ bat'.pc = "run"
    BY <1>1, <2>2, <2>3, <2>5, <2>6 DEF BatRecord
  <2> QED BY <1>2, <2>7
<1>5. CASE OpenCartridge
  <2>1. PICK s \in Slots, rom \in Images : bat' = Inserted(bat, s, rom)
    BY <1>5 DEF OpenCartridge
  <2>2. bat.pc = "run"
    BY <1>5 DEF OpenCartridge
  <2> QED BY <1>1, <1>2, <2>1, <2>2, InsertedIs
<1>6. ASSUME NEW then \in [op : {"eject", "cycle", "quit"}, slot : Slots], NEW wanted \in BOOLEAN,
             bat' = SaveThen(bat, then, wanted)
      PROVE  Safe'
  <2>1. bat' \in BatRecord /\ (bat'.pc \in {"run", "off"} \/ (bat'.pc = "write" /\ CanFlush(bat')))
    BY <1>1, <1>6, SaveThenIs
  <2> QED BY <2>1 DEF BatTypeOK, SaveUnderWay, SaveSteps
<1>7. CASE EjectCartridge
  <2>1. PICK s \in Slots : bat' = SaveThen(bat, [op |-> "eject", slot |-> s], IsFmPac(bat.cart[s]))
    BY <1>7 DEF EjectCartridge
  <2>2. /\ [op |-> "eject", slot |-> s] \in [op : {"eject", "cycle", "quit"}, slot : Slots]
        /\ IsFmPac(bat.cart[s]) \in BOOLEAN
    BY DEF IsFmPac
  <2> QED BY <1>6, <2>1, <2>2
<1>8. CASE CyclePower
  BY <1>6, <1>8 DEF CyclePower, Slots
<1>9. CASE Quit
  BY <1>6, <1>9 DEF Quit, Slots
<1>10. bat.pc \in SaveSteps => bat.bound \in FmPacs /\ Image(bat) \in HostFile /\ Image(bat).kind = "new"
  BY <1>1, FlushTarget DEF SaveUnderWay
<1>11. ASSUME NEW files \in [FmPacs -> HostFile], NEW temp \in [FmPacs -> HostFile],
              NEW refused \in BOOLEAN
       PROVE  LET b == [bat EXCEPT !.files = files, !.temp = temp, !.refused = refused]
              IN  b \in BatRecord /\ Done(b) \in BatRecord /\ Done(b).pc \in {"run", "off"}
  <2> DEFINE b == [bat EXCEPT !.files = files, !.temp = temp, !.refused = refused]
  <2>1. b \in BatRecord
    BY <1>1 DEF BatRecord
  <2> HIDE DEF b
  <2> QED BY <2>1, DoneIs DEF b
<1>12. CASE OpenTemp
  <2> DEFINE temp == [bat.temp EXCEPT ![bat.bound] = File("torn", 0)]
  <2>1. bat' = [bat EXCEPT !.temp = temp, !.pc = "flush"] /\ bat.pc = "write"
    BY <1>1, <1>12 DEF OpenTemp, WrittenHalf, BatRecord
  <2>2. temp \in [FmPacs -> HostFile]
    BY <1>1 DEF BatRecord, File, HostFile
  <2> HIDE DEF temp
  <2> QED BY <1>1, <2>1, <2>2 DEF BatRecord, BatTypeOK, SaveUnderWay, CanFlush, SaveSteps
<1>13. CASE WriteTemp
  <2> DEFINE temp == [bat.temp EXCEPT ![bat.bound] = Image(bat)]
  <2>1. bat' = [bat EXCEPT !.temp = temp, !.pc = "rename"] /\ bat.pc = "flush"
    BY <1>1, <1>13 DEF WriteTemp, BatRecord
  <2>2. temp \in [FmPacs -> HostFile] /\ temp[bat.bound].kind = "new"
    BY <1>1, <1>10, <2>1 DEF BatRecord, SaveSteps
  <2> HIDE DEF temp
  <2> QED BY <1>1, <2>1, <2>2 DEF BatRecord, BatTypeOK, SaveUnderWay, CanFlush, SaveSteps
<1>14. CASE WriteRefused
  <2> DEFINE temp == [bat.temp EXCEPT ![bat.bound] = Absent]
  <2>1. bat' = Done([bat EXCEPT !.files = bat.files, !.temp = temp, !.refused = TRUE])
    <3>1. [bat EXCEPT !.temp[bat.bound] = Absent, !.refused = TRUE]
            = [bat EXCEPT !.files = bat.files, !.temp = temp, !.refused = TRUE]
      BY <1>1 DEF BatRecord
    <3> QED BY <1>14, <3>1 DEF WriteRefused
  <2>2. temp \in [FmPacs -> HostFile] /\ bat.files \in [FmPacs -> HostFile]
    BY <1>1 DEF BatRecord, Absent, HostFile
  <2> HIDE DEF temp
  <2> QED BY <1>2, <1>11, <2>1, <2>2
<1>15. CASE RenameTemp
  <2> DEFINE files == [bat.files EXCEPT ![bat.bound] = bat.temp[bat.bound]]
             temp == [bat.temp EXCEPT ![bat.bound] = Absent]
  <2>1. bat' = Done([bat EXCEPT !.files = files, !.temp = temp, !.refused = bat.refused])
    <3>1. Renamed(bat) = [bat EXCEPT !.files = files, !.temp = temp, !.refused = bat.refused]
      BY <1>1 DEF BatRecord, Renamed
    <3> QED BY <1>15, <3>1 DEF RenameTemp
  <2>2. bat.bound \in FmPacs
    BY <1>10, <1>15 DEF RenameTemp, SaveSteps
  <2>3. files \in [FmPacs -> HostFile] /\ temp \in [FmPacs -> HostFile] /\ bat.refused \in BOOLEAN
    BY <1>1, <2>2 DEF BatRecord, Absent, HostFile
  <2> HIDE DEF files, temp
  <2> QED BY <1>2, <1>11, <2>1, <2>3
<1>16. CASE RenameRefused
  <2>1. bat' = [bat EXCEPT !.pc = "remove", !.refused = TRUE] /\ bat.pc = "rename"
    BY <1>16 DEF RenameRefused
  <2>2. bat' \in BatRecord /\ bat'.pc = "remove" /\ bat'.refused
    BY <1>1, <2>1 DEF BatRecord, SaveSteps
  <2>3. bat'.cart = bat.cart /\ bat'.bound = bat.bound /\ bat'.temp = bat.temp
    BY <1>1, <2>1 DEF BatRecord
  <2>4. CanFlush(bat') /\ bat'.temp[bat'.bound].kind = "new"
    BY <2>1, <2>3 DEF SaveUnderWay, CanFlush, SaveSteps
  <2> QED BY <2>1, <2>2, <2>4 DEF BatTypeOK, SaveUnderWay, SaveSteps
<1>17. CASE RemoveOld
  <2> DEFINE files == [bat.files EXCEPT ![bat.bound] = Absent]
  <2>1. bat' = [bat EXCEPT !.files = files, !.pc = "again"] /\ bat.pc = "remove"
    BY <1>1, <1>17 DEF RemoveOld, BatRecord
  <2>2. files \in [FmPacs -> HostFile]
    BY <1>1 DEF BatRecord, Absent, HostFile
  <2> HIDE DEF files
  <2>3. bat' \in BatRecord /\ bat'.pc = "again" /\ bat'.refused /\ bat'.temp = bat.temp
        /\ bat'.cart = bat.cart /\ bat'.bound = bat.bound
    BY <1>1, <2>1, <2>2 DEF BatRecord, SaveUnderWay, SaveSteps
  <2>4. bat.temp[bat.bound].kind = "new" /\ CanFlush(bat')
    BY <2>1, <2>3 DEF SaveUnderWay, CanFlush, SaveSteps
  <2> QED BY <2>3, <2>4 DEF BatTypeOK, SaveUnderWay, SaveSteps
<1>18. CASE RenameRefusedAgain
  <2> DEFINE temp == [bat.temp EXCEPT ![bat.bound] = Absent]
  <2>1. bat' = Done([bat EXCEPT !.files = bat.files, !.temp = temp, !.refused = bat.refused])
    <3>1. [bat EXCEPT !.temp[bat.bound] = Absent]
            = [bat EXCEPT !.files = bat.files, !.temp = temp, !.refused = bat.refused]
      BY <1>1 DEF BatRecord
    <3> QED BY <1>18, <3>1 DEF RenameRefusedAgain
  <2>2. temp \in [FmPacs -> HostFile] /\ bat.files \in [FmPacs -> HostFile] /\ bat.refused \in BOOLEAN
    BY <1>1 DEF BatRecord, Absent, HostFile
  <2> HIDE DEF temp
  <2> QED BY <1>2, <1>11, <2>1, <2>2
<1>19. CASE HostCrash
  <2> DEFINE expected == [f \in FmPacs |-> IF \E s \in Slots : IsSavedIn(bat, s, f)
                                           THEN SaveLoaded(bat.files[f]) ELSE bat.expected[f]]
             cart == [s \in Slots |-> Empty]
  <2>1. bat' = [bat EXCEPT !.cart = cart, !.bound = Unbound, !.pc = "off",
                           !.then = NoThen, !.expected = expected]
    BY <1>1, <1>19 DEF HostCrash, BatRecord
  <2>2. expected \in [FmPacs -> Nat]
    BY <1>1, LoadedIsNat DEF BatRecord
  <2>3. cart \in [Slots -> Cart]
    BY DEF Empty, Cart
  <2> HIDE DEF expected, cart
  <2> QED BY <1>1, <1>2, <2>1, <2>2, <2>3 DEF BatRecord, NoThen, Slots
<1>20. CASE UNCHANGED bat_vars
  BY <1>20 DEF bat_vars, BatTypeOK, SaveUnderWay, CanFlush
<1> QED
  BY <1>3, <1>4, <1>5, <1>7, <1>8, <1>9, <1>12, <1>13, <1>14, <1>15, <1>16, <1>17, <1>18, <1>19, <1>20
     DEF BatNext

-----------------------------------------------------------------------------
(***************************************************************************)
(* Whatever the user and the host do.                                      *)
(***************************************************************************)
\* Every state of the cartridges and their files is of its type, and what is
\* about to be renamed to the file of an FM-PAC is a complete image
\* (save_sram writes it whole before it renames it).
THEOREM SavesAreTyped == BatSpec => []Safe
BY SafeInit, SafeStep, PTL DEF BatSpec

\* A step changes a file in two places only.
LEMMA FilesStep ==
  ASSUME Safe, BatNext, bat.pc # "remove"
  PROVE  \A f \in FmPacs :
           bat'.files[f] = bat.files[f] \/ bat'.files[f].kind = "new"
<1> USE DEF Safe
<1>1. bat \in BatRecord
  BY DEF BatTypeOK
<1>2. ASSUME bat'.files = bat.files
      PROVE  \A f \in FmPacs :
               bat'.files[f] = bat.files[f] \/ bat'.files[f].kind = "new"
  BY <1>2
<1>3. CASE StartProgram
  <2>1. PICK rom1, rom2 \in Images \cup {"none"} : bat' = Started(bat, rom1, rom2)
    BY <1>3 DEF StartProgram
  <2>2. Kept(bat, Started(bat, rom1, rom2))
    BY <1>1, StartedIs
  <2> QED BY <1>2, <2>1, <2>2 DEF Kept
<1>4. CASE Play
  <2>1. PICK s \in Slots :
          bat' = [bat EXCEPT !.cart[s].data = bat.writes + 1, !.writes = @ + 1,
                             !.expected[SaveOf(bat, bat.cart[s].rom)] = bat.writes + 1]
    BY <1>4 DEF Play
  <2> QED BY <1>1, <1>2, <2>1 DEF BatRecord
<1>5. CASE OpenCartridge
  <2>1. PICK s \in Slots, rom \in Images : bat' = Inserted(bat, s, rom)
    BY <1>5 DEF OpenCartridge
  <2>2. Kept(bat, Inserted(bat, s, rom))
    BY <1>1, InsertedIs
  <2> QED BY <1>2, <2>1, <2>2 DEF Kept
<1>6. ASSUME NEW then \in [op : {"eject", "cycle", "quit"}, slot : Slots], NEW wanted \in BOOLEAN,
             bat' = SaveThen(bat, then, wanted)
      PROVE  bat'.files = bat.files
  BY <1>1, <1>6, SaveThenIs DEF Kept
<1>7. CASE EjectCartridge
  <2>1. PICK s \in Slots : bat' = SaveThen(bat, [op |-> "eject", slot |-> s], IsFmPac(bat.cart[s]))
    BY <1>7 DEF EjectCartridge
  <2>2. /\ [op |-> "eject", slot |-> s] \in [op : {"eject", "cycle", "quit"}, slot : Slots]
        /\ IsFmPac(bat.cart[s]) \in BOOLEAN
    BY DEF IsFmPac
  <2> QED BY <1>2, <1>6, <2>1, <2>2
<1>8. CASE CyclePower
  BY <1>2, <1>6, <1>8 DEF CyclePower, Slots
<1>9. CASE Quit
  BY <1>2, <1>6, <1>9 DEF Quit, Slots
<1>10. ASSUME NEW files \in [FmPacs -> HostFile], NEW temp \in [FmPacs -> HostFile],
              NEW refused \in BOOLEAN
       PROVE  Done([bat EXCEPT !.files = files, !.temp = temp, !.refused = refused]).files = files
  <2> DEFINE b == [bat EXCEPT !.files = files, !.temp = temp, !.refused = refused]
  <2>1. b \in BatRecord /\ b.files = files
    BY <1>1 DEF BatRecord
  <2> HIDE DEF b
  <2>2. Done(b).files = files
    BY <2>1, DoneIs DEF Kept
  <2> QED BY <2>2 DEF b
<1>11. CASE OpenTemp \/ WriteTemp \/ RenameRefused \/ HostCrash
  BY <1>1, <1>2, <1>11 DEF OpenTemp, WriteTemp, RenameRefused, HostCrash, WrittenHalf, BatRecord
<1>12. \A f \in FmPacs : [bat.temp EXCEPT ![f] = Absent] \in [FmPacs -> HostFile]
  BY <1>1 DEF BatRecord, Absent, HostFile
<1>13. bat.pc \in SaveSteps => bat.bound \in FmPacs
  BY <1>1, FlushTarget DEF SaveUnderWay
<1>14. CASE WriteRefused \/ RenameRefusedAgain
  <2> DEFINE temp == [bat.temp EXCEPT ![bat.bound] = Absent]
  <2>1. PICK refused \in BOOLEAN :
          bat' = Done([bat EXCEPT !.files = bat.files, !.temp = temp, !.refused = refused])
    <3>1. /\ [bat EXCEPT !.temp[bat.bound] = Absent]
               = [bat EXCEPT !.files = bat.files, !.temp = temp, !.refused = bat.refused]
          /\ [bat EXCEPT !.temp[bat.bound] = Absent, !.refused = TRUE]
               = [bat EXCEPT !.files = bat.files, !.temp = temp, !.refused = TRUE]
          /\ bat.refused \in BOOLEAN
      BY <1>1 DEF BatRecord
    <3> QED BY <1>14, <3>1 DEF WriteRefused, RenameRefusedAgain
  <2>2. temp \in [FmPacs -> HostFile] /\ bat.files \in [FmPacs -> HostFile]
    BY <1>1, <1>12, <1>13, <1>14 DEF BatRecord, WriteRefused, RenameRefusedAgain, SaveSteps
  <2> HIDE DEF temp
  <2>3. Done([bat EXCEPT !.files = bat.files, !.temp = temp, !.refused = refused]).files = bat.files
    BY <1>10, <2>2
  <2> QED BY <1>2, <2>1, <2>3
<1>15. CASE RenameTemp
  <2> DEFINE files == [bat.files EXCEPT ![bat.bound] = bat.temp[bat.bound]]
             temp == [bat.temp EXCEPT ![bat.bound] = Absent]
  <2>1. bat' = Done([bat EXCEPT !.files = files, !.temp = temp, !.refused = bat.refused])
    <3>1. Renamed(bat) = [bat EXCEPT !.files = files, !.temp = temp, !.refused = bat.refused]
      BY <1>1 DEF BatRecord, Renamed
    <3> QED BY <1>15, <3>1 DEF RenameTemp
  <2>2. bat.bound \in FmPacs /\ bat.temp[bat.bound].kind = "new"
    BY <1>13, <1>15 DEF RenameTemp, SaveSteps, SaveUnderWay
  <2>3. files \in [FmPacs -> HostFile] /\ temp \in [FmPacs -> HostFile] /\ bat.refused \in BOOLEAN
    BY <1>1, <1>12, <2>2 DEF BatRecord
  <2> HIDE DEF temp
  <2>4. bat'.files = files
    BY <1>10, <2>1, <2>3
  <2>5. \A f \in FmPacs : files[f] = bat.files[f] \/ files[f].kind = "new"
    BY <1>1, <2>2 DEF BatRecord
  <2> QED BY <2>4, <2>5
<1>16. ~RemoveOld
  BY DEF RemoveOld
<1> QED
  BY <1>3, <1>4, <1>5, <1>7, <1>8, <1>9, <1>11, <1>14, <1>15, <1>16 DEF BatNext

\* A file that was whole stays whole over every step, a crash, a write that
\* is refused and a rename that is refused among them, but for the removal on
\* a host that does not rename onto a file (save_sram).
THEOREM SavesStayWhole == BatSpec => SaveStaysWhole
<1>1. ASSUME Safe, [BatNext]_bat_vars
      PROVE  [\A f \in FmPacs :
                WholeSave(bat.files[f]) /\ bat.pc # "remove" => WholeSave(bat'.files[f])]_bat_vars
  BY <1>1, FilesStep DEF WholeSave, bat_vars
<1> QED BY <1>1, SavesAreTyped, PTL DEF BatSpec, SaveStaysWhole

-----------------------------------------------------------------------------
(***************************************************************************)
(* For a careful user.                                                     *)
(***************************************************************************)
AllSaved(b) == \A f \in FmPacs : SaveLoaded(b.files[f]) = b.expected[f]

\* A cartridge that is put in comes with what its file holds.
LEMMA InsertedAgrees ==
  ASSUME NEW b \in BatRecord, NEW slot \in Slots, NEW rom \in Images,
         Agree(b), ~b.disabled, b.cart[slot] = Empty,
         rom \notin FmPacs \/ ~IsFmPac(b.cart[3 - slot])
  PROVE  Agree(Inserted(b, slot, rom))
<1> DEFINE c == Inserted(b, slot, rom)
<1>1. /\ c \in BatRecord /\ Kept(b, c)
      /\ c.bound = IF rom \in FmPacs THEN SaveOf(b, rom) ELSE b.bound
      /\ \A s \in Slots : s # slot => c.cart[s] = b.cart[s]
      /\ c.cart[slot].rom = rom
      /\ rom \in FmPacs => c.cart[slot].data = SaveLoaded(b.files[SaveOf(b, rom)])
  BY InsertedIs, SaveOfIsFile, AutoloadAssumption DEF Unbound
<1> HIDE DEF c
<1>2. b.cart[slot].rom = "none" /\ ~IsFmPac(b.cart[slot])
  BY AutoloadAssumption DEF Empty, IsFmPac
<1>3. \A s \in Slots : s # slot => s = 3 - slot
  BY DEF Slots
<1>4. rom \in FmPacs => \A s \in Slots : ~IsFmPac(b.cart[s])
  BY <1>2, <1>3
<1>5. rom \in FmPacs => SaveLoaded(b.files[SaveOf(b, rom)]) = b.expected[SaveOf(b, rom)]
  BY <1>4, SaveOfIsFile DEF Agree, IsSavedIn
<1>6. ~(IsFmPac(c.cart[1]) /\ IsFmPac(c.cart[2]))
  <2>1. \A s \in Slots : s # slot /\ IsFmPac(c.cart[s]) => ~IsFmPac(c.cart[slot])
    BY <1>1, <1>3 DEF IsFmPac
  <2> QED BY <2>1 DEF Slots
<1>7. ASSUME NEW s \in Slots, IsFmPac(c.cart[s])
      PROVE  c.bound = SaveOf(c, c.cart[s].rom) /\ c.cart[s].data = c.expected[c.bound]
  <2>1. CASE s = slot
    BY <1>1, <1>5, <1>7, <2>1 DEF IsFmPac, Kept, SaveOf
  <2>2. CASE s # slot
    <3>1. c.cart[s] = b.cart[s] /\ rom \notin FmPacs
      BY <1>1, <1>4, <1>7, <2>2
    <3> QED BY <1>1, <1>7, <3>1 DEF Agree, Kept, SaveOf
  <2> QED BY <2>1, <2>2
<1>8. ASSUME NEW f \in FmPacs, \A s \in Slots : ~IsSavedIn(c, s, f)
      PROVE  SaveLoaded(c.files[f]) = c.expected[f]
  <2>1. \A s \in Slots : ~IsSavedIn(b, s, f)
    BY <1>1, <1>2, <1>8 DEF IsSavedIn, SaveOf, Kept
  <2> QED BY <1>1, <2>1 DEF Agree, Kept
<1> QED BY <1>6, <1>7, <1>8 DEF Agree, c

\* Two empty slots are filled.
LEMMA FilledAgrees ==
  ASSUME NEW b \in BatRecord, NEW rom1 \in Images \cup {"none"}, NEW rom2 \in Images \cup {"none"},
         Agree(b), ~b.disabled, \A s \in Slots : b.cart[s] = Empty,
         rom1 \notin FmPacs \/ rom2 \notin FmPacs
  PROVE  LET given == Put(Put(b, 1, rom1), 2, rom2)
         IN  /\ given \in BatRecord /\ Agree(given) /\ Kept(b, given) /\ given.pc = b.pc
             /\ rom2 = "none" => given.cart[2] = Empty
<1> DEFINE one == Put(b, 1, rom1)
           given == Put(one, 2, rom2)
<1>1. 1 \in Slots /\ 2 \in Slots /\ 3 - 1 = 2 /\ 3 - 2 = 1
  BY DEF Slots
<1>2. ~IsFmPac(Empty)
  BY AutoloadAssumption DEF IsFmPac, Empty
<1>3. one \in BatRecord /\ Kept(b, one) /\ one.pc = b.pc
  BY <1>1, PutIs
<1>4. Agree(one) /\ one.cart[2] = Empty /\ (IsFmPac(one.cart[1]) => rom1 \in FmPacs)
  <2>1. CASE rom1 = "none"
    BY <1>1, <1>2, <2>1 DEF Put
  <2>2. CASE rom1 # "none"
    <3>1. one = Inserted(b, 1, rom1) /\ rom1 \in Images
      BY <2>2 DEF Put
    <3>2. Agree(one)
      BY <1>1, <1>2, <3>1, InsertedAgrees
    <3> HIDE DEF one
    <3>3. one.cart[2] = Empty /\ one.cart[1].rom = rom1
      BY <1>1, <3>1, InsertedIs
    <3> QED BY <3>2, <3>3 DEF IsFmPac
  <2> QED BY <2>1, <2>2
<1> HIDE DEF one
<1>5. given \in BatRecord /\ Kept(b, given) /\ given.pc = b.pc
  BY <1>1, <1>3, PutIs DEF Kept
<1>6. Agree(given) /\ (rom2 = "none" => given.cart[2] = Empty)
  <2>1. CASE rom2 = "none"
    BY <1>4, <2>1 DEF Put
  <2>2. CASE rom2 # "none"
    <3>1. given = Inserted(one, 2, rom2) /\ rom2 \in Images
      BY <2>2 DEF Put
    <3> QED BY <1>1, <1>3, <1>4, <2>2, <3>1, InsertedAgrees DEF Kept
  <2> QED BY <2>1, <2>2
<1> QED BY <1>5, <1>6 DEF one

\* All the cartridges come out, when every battery RAM is in its file.
LEMMA EmptiedAgrees ==
  ASSUME NEW b \in BatRecord, AllSaved(b),
         NEW pc \in {"run", "off"}, NEW then \in [op : {"none"}, slot : Slots]
  PROVE  LET c == [b EXCEPT !.cart = [s \in Slots |-> Empty], !.bound = Unbound, !.pc = pc, !.then = then]
         IN  c \in BatRecord /\ Agree(c) /\ Kept(b, c) /\ c.pc = pc /\ \A s \in Slots : c.cart[s] = Empty
<1> DEFINE c == [b EXCEPT !.cart = [s \in Slots |-> Empty], !.bound = Unbound, !.pc = pc, !.then = then]
<1>1. c \in BatRecord
  <2>1. Empty \in Cart
    BY DEF Empty, Cart
  <2> QED BY <2>1 DEF BatRecord
<1>2. /\ c.cart = [s \in Slots |-> Empty] /\ c.pc = pc /\ c.files = b.files /\ c.expected = b.expected
      /\ Kept(b, c)
  BY DEF BatRecord, Kept
<1> HIDE DEF c
<1>3. \A s \in Slots : c.cart[s] = Empty
  BY <1>2
<1>4. Agree(c)
  <2>1. ~IsFmPac(Empty)
    BY AutoloadAssumption DEF IsFmPac, Empty
  <2> QED BY <1>2, <1>3, <2>1 DEF Agree, AllSaved, Slots
<1> QED BY <1>1, <1>2, <1>3, <1>4 DEF c

\* An operation is done: what it takes out is in its file.
LEMMA DoneAgrees ==
  ASSUME NEW b \in BatRecord, Agree(b), ~b.disabled,
         AllSaved(b) \/ (b.then.op = "eject" /\ ~IsFmPac(b.cart[b.then.slot]))
  PROVE  CopiesAgree(Done(b))
<1> DEFINE fresh == [b EXCEPT !.cart = [s \in Slots |-> Empty], !.bound = Unbound, !.pc = "run",
                              !.then = NoThen]
<1>1. b.then.slot \in Slots /\ \A s \in Slots : b.cart[s] \in Cart
  BY DEF BatRecord
<1>2. NoThen \in [op : {"none"}, slot : Slots]
  BY DEF NoThen, Slots
<1>3. CASE b.then.op = "eject"
  <2> DEFINE cart == [b.cart EXCEPT ![b.then.slot] = Empty]
             c == [b EXCEPT !.pc = "run", !.then = NoThen, !.cart = cart]
  <2>1. Done(b) = c
    BY <1>3 DEF Done, BatRecord
  <2>2. /\ c.cart = cart /\ c.pc = "run" /\ c.bound = b.bound /\ c.files = b.files
        /\ c.expected = b.expected /\ c.shared = b.shared
    BY DEF BatRecord
  <2>3. \A s \in Slots : cart[s] = IF s = b.then.slot THEN Empty ELSE b.cart[s]
    BY <1>1 DEF BatRecord
  <2> HIDE DEF cart, c
  <2>4. ~IsFmPac(Empty)
    BY AutoloadAssumption DEF IsFmPac, Empty
  <2>5. \A s \in Slots : IsFmPac(c.cart[s]) => IsFmPac(b.cart[s]) /\ c.cart[s] = b.cart[s]
    BY <2>2, <2>3, <2>4
  <2>6. ASSUME NEW f \in FmPacs, \A s \in Slots : ~IsSavedIn(c, s, f)
        PROVE  SaveLoaded(c.files[f]) = c.expected[f]
    <3>1. CASE AllSaved(b)
      BY <2>2, <3>1 DEF AllSaved
    <3>2. CASE ~IsFmPac(b.cart[b.then.slot])
      <4>1. \A s \in Slots : ~IsSavedIn(b, s, f)
        BY <2>2, <2>3, <2>6, <3>2 DEF IsSavedIn, SaveOf
      <4> QED BY <2>2, <4>1 DEF Agree
    <3> QED BY <3>1, <3>2
  <2>7. Agree(c)
    BY <2>2, <2>5, <2>6 DEF Agree, SaveOf, Slots
  <2> QED BY <2>1, <2>2, <2>7 DEF CopiesAgree
<1>4. CASE b.then.op = "cycle"
  <2> DEFINE two == Put(Put(fresh, 1, b.cart[1].rom), 2, b.cart[2].rom)
  <2>1. Done(b) = two
    <3>1. [[b EXCEPT !.pc = "run", !.then = NoThen]
             EXCEPT !.cart = [s \in Slots |-> Empty], !.bound = Unbound] = fresh
      BY DEF BatRecord
    <3> HIDE DEF fresh
    <3> QED BY <1>4, <3>1 DEF Done
  <2>2. /\ fresh \in BatRecord /\ Agree(fresh) /\ Kept(b, fresh) /\ fresh.pc = "run"
        /\ \A s \in Slots : fresh.cart[s] = Empty
    BY <1>2, <1>4, EmptiedAgrees
  <2> HIDE DEF fresh
  <2>3. b.cart[1].rom \in Images \cup {"none"} /\ b.cart[2].rom \in Images \cup {"none"}
    BY <1>1 DEF Cart, Slots
  <2>4. b.cart[1].rom \notin FmPacs \/ b.cart[2].rom \notin FmPacs
    BY DEF Agree, IsFmPac
  <2>5. Agree(two) /\ two.pc = "run"
    BY <2>2, <2>3, <2>4, FilledAgrees DEF Kept
  <2> QED BY <2>1, <2>5 DEF CopiesAgree
<1>5. CASE b.then.op \notin {"eject", "cycle"}
  <2> DEFINE c == [b EXCEPT !.cart = [s \in Slots |-> Empty], !.bound = Unbound, !.pc = "off",
                            !.then = NoThen]
  <2>1. Done(b) = c
    BY <1>5 DEF Done, BatRecord
  <2>2. Agree(c) /\ c.pc = "off" /\ \A s \in Slots : c.cart[s] = Empty
    BY <1>2, <1>5, EmptiedAgrees
  <2> QED BY <2>1, <2>2 DEF CopiesAgree
<1> QED BY <1>3, <1>4, <1>5

\* Without an FM-PAC in, everything is in the files.
LEMMA NothingToSave ==
  ASSUME NEW b \in BatRecord, Agree(b), ~CanFlush(b)
  PROVE  AllSaved(b) /\ \A s \in Slots : ~IsFmPac(b.cart[s])
<1>1. ASSUME NEW s \in Slots, IsFmPac(b.cart[s]) PROVE FALSE
  BY <1>1, SaveOfIsFile, AutoloadAssumption DEF Agree, CanFlush, Unbound, IsFmPac
<1> QED BY <1>1 DEF Agree, AllSaved, IsSavedIn

\* RAM and files agree at the start.
LEMMA CopiesInit == BatInit => CopiesInStep
<1> SUFFICES ASSUME BatInit PROVE CopiesAgree(bat)
  BY DEF CopiesInStep
<1>1. ~IsFmPac(Empty)
  BY AutoloadAssumption DEF IsFmPac, Empty
<1>2. bat.pc = "off" /\ \A s \in Slots : bat.cart[s] = Empty
  BY DEF BatInit
<1>3. \A f \in FmPacs : SaveLoaded(bat.files[f]) = bat.expected[f]
  <2>1. PICK legacy \in BOOLEAN :
          /\ bat.files = [f \in FmPacs |-> IF legacy /\ f = Autoload THEN File("legacy", 1) ELSE Absent]
          /\ bat.expected = [f \in FmPacs |-> IF legacy /\ f = Autoload THEN 1 ELSE 0]
    BY DEF BatInit
  <2>2. SaveLoaded(File("legacy", 1)) = 1 /\ SaveLoaded(Absent) = 0
    BY DEF SaveLoaded, File, Absent
  <2> QED BY <2>1, <2>2
<1> QED BY <1>1, <1>2, <1>3 DEF CopiesAgree, Agree, Slots

\* Every step keeps them in step.
LEMMA CopiesStep == IInv /\ [BatNext]_bat_vars => CopiesInStep'
<1> SUFFICES ASSUME IInv, [BatNext]_bat_vars, bat'.user = "careful", ~bat'.disabled, ~bat'.refused
             PROVE  CopiesAgree(bat')
  BY DEF CopiesInStep, CopiesAgree, Agree, IsFmPac
<1>1. bat \in BatRecord /\ SaveUnderWay
  BY DEF IInv, BatTypeOK
<1>2. ASSUME bat.user = "careful", ~bat.disabled, ~bat.refused PROVE CopiesAgree(bat) /\ Agree(bat)
  BY <1>2 DEF IInv, CopiesInStep, CopiesAgree
<1>3. CASE StartProgram
  <2>1. PICK rom1, rom2 \in Images \cup {"none"} :
          bat' = Started(bat, rom1, rom2) /\ MayStart(bat, rom1, rom2) /\ bat.pc = "off"
    BY <1>3 DEF StartProgram
  <2> DEFINE empty == [bat EXCEPT !.cart = [s \in Slots |-> Empty], !.bound = Unbound, !.pc = "run"]
             given == Put(Put(empty, 1, rom1), 2, rom2)
  <2>2. /\ Kept(bat, bat') /\ bat'.pc = "run"
        /\ bat' = IF rom2 = "none" /\ ~IsFmPac(given.cart[1]) THEN Inserted(given, 2, Autoload) ELSE given
        /\ empty \in BatRecord /\ Kept(bat, empty) /\ empty.cart = [s \in Slots |-> Empty]
    BY <1>1, <2>1, StartedIs
  <2>3. CopiesAgree(bat) /\ bat.user = "careful"
    BY <1>2, <2>2 DEF Kept
  <2> HIDE DEF empty
  <2>4. /\ Agree(empty) /\ ~empty.disabled /\ \A s \in Slots : empty.cart[s] = Empty
    <3>1. ~IsFmPac(Empty)
      BY AutoloadAssumption DEF IsFmPac, Empty
    <3> QED BY <2>1, <2>2, <2>3, <3>1 DEF CopiesAgree, Agree, IsSavedIn, Kept, Slots
  <2>5. rom1 \notin FmPacs \/ rom2 \notin FmPacs
    BY <2>1, <2>3 DEF MayStart
  <2>6. given \in BatRecord /\ Agree(given) /\ Kept(empty, given) /\ (rom2 = "none" => given.cart[2] = Empty)
    BY <2>2, <2>4, <2>5, FilledAgrees
  <2> HIDE DEF given
  <2>7. Autoload \in Images /\ 2 \in Slots /\ 3 - 2 = 1 /\ ~given.disabled
    BY <2>2, <2>6, AutoloadAssumption DEF Images, Slots, Kept
  <2>8. Agree(bat')
    BY <2>2, <2>6, <2>7, InsertedAgrees
  <2> QED BY <2>2, <2>8 DEF CopiesAgree
<1>4. CASE Play
  <2>1. PICK t \in Slots :
          /\ IsFmPac(bat.cart[t])
          /\ bat' = [bat EXCEPT !.cart[t].data = bat.writes + 1, !.writes = @ + 1,
                                !.expected[SaveOf(bat, bat.cart[t].rom)] = bat.writes + 1]
    BY <1>4 DEF Play
  <2>2. bat.pc = "run"
    BY <1>4 DEF Play
  <2> DEFINE rom == bat.cart[t].rom
             file == SaveOf(bat, rom)
             cart == [bat.cart EXCEPT ![t] = [bat.cart[t] EXCEPT !.data = bat.writes + 1]]
             expected == [bat.expected EXCEPT ![file] = bat.writes + 1]
  <2>3. bat' = [bat EXCEPT !.cart = cart, !.writes = bat.writes + 1, !.expected = expected]
    BY <1>1, <2>1 DEF BatRecord
  <2>4. /\ \A s \in Slots : s # t => cart[s] = bat.cart[s]
        /\ cart[t].rom = rom /\ cart[t].data = bat.writes + 1
    <3>1. bat.cart \in [Slots -> Cart]
      BY <1>1 DEF BatRecord
    <3>2. bat.cart[t] \in Cart
      BY <3>1
    <3> QED BY <3>1, <3>2 DEF Cart
  <2>5. \A f \in FmPacs : expected[f] = IF f = file THEN bat.writes + 1 ELSE bat.expected[f]
    BY <1>1, <2>1 DEF BatRecord
  <2> HIDE DEF cart, expected
  <2>6. /\ bat'.cart = cart /\ bat'.expected = expected /\ bat'.files = bat.files
        /\ bat'.bound = bat.bound /\ bat'.pc = "run" /\ Agree(bat)
    <3>1. /\ bat'.cart = cart /\ bat'.expected = expected /\ bat'.files = bat.files
          /\ bat'.bound = bat.bound /\ bat'.pc = "run" /\ bat'.user = bat.user
          /\ bat'.disabled = bat.disabled /\ bat'.refused = bat.refused
      BY <1>1, <2>2, <2>3 DEF BatRecord
    <3> QED BY <1>2, <3>1
  <2>7. \A s \in Slots : bat'.cart[s].rom = bat.cart[s].rom /\ SaveOf(bat', rom) = file
    BY <1>1, <2>3, <2>4, <2>6 DEF BatRecord, SaveOf
  <2>8. \A s \in Slots : s # t => ~IsFmPac(bat.cart[s])
    BY <2>1, <2>6 DEF Agree, Slots
  <2>9. \A s \in Slots : IsFmPac(bat'.cart[s]) => s = t
    BY <2>7, <2>8 DEF IsFmPac
  <2>10. bat'.bound = file /\ bat'.cart[t].data = bat'.expected[file] /\ file \in FmPacs
    BY <2>1, <2>4, <2>5, <2>6, SaveOfIsFile DEF Agree, IsFmPac
  <2>11. \A f \in FmPacs : (\A s \in Slots : ~IsSavedIn(bat', s, f)) =>
           SaveLoaded(bat'.files[f]) = bat'.expected[f]
    <3>1. IsSavedIn(bat', t, file)
      BY <2>1, <2>7 DEF IsSavedIn, IsFmPac
    <3>2. ASSUME NEW f \in FmPacs, \A s \in Slots : ~IsSavedIn(bat', s, f)
          PROVE  f # file /\ \A s \in Slots : ~IsSavedIn(bat, s, f)
      BY <2>7, <2>8, <3>1, <3>2 DEF IsSavedIn
    <3> QED BY <2>5, <2>6, <3>2 DEF Agree
  <2>12. Agree(bat')
    BY <2>4, <2>6, <2>7, <2>9, <2>10, <2>11 DEF Agree, Slots
  <2> QED BY <2>6, <2>12 DEF CopiesAgree
<1>5. CASE OpenCartridge
  <2>1. PICK s \in Slots, rom \in Images : bat' = Inserted(bat, s, rom) /\ MayInsert(bat, s, rom)
    BY <1>5 DEF OpenCartridge
  <2>2. Kept(bat, bat') /\ bat'.pc = bat.pc
    BY <1>1, <2>1, InsertedIs
  <2>3. Agree(bat) /\ bat.user = "careful" /\ ~bat.disabled
    BY <1>2, <2>2 DEF Kept
  <2>4. Agree(bat')
    BY <1>1, <2>1, <2>3, InsertedAgrees DEF MayInsert
  <2>5. bat.pc = "run"
    BY <1>5 DEF OpenCartridge
  <2> QED BY <2>2, <2>4, <2>5 DEF CopiesAgree
<1>6. ASSUME NEW then \in [op : {"eject", "cycle", "quit"}, slot : Slots], NEW wanted \in BOOLEAN,
             bat' = SaveThen(bat, then, wanted),
             wanted \/ (then.op = "eject" /\ ~IsFmPac(bat.cart[then.slot]))
      PROVE  CopiesAgree(bat')
  <2> DEFINE next == [bat EXCEPT !.then = then]
  <2>1. /\ Kept(bat, bat') /\ next \in BatRecord /\ Kept(bat, next)
        /\ IF wanted /\ CanFlush(bat)
           THEN bat'.pc = "write" /\ bat'.cart = bat.cart /\ bat'.bound = bat.bound
           ELSE bat' = Done(next)
    BY <1>1, <1>6, SaveThenIs
  <2>2. Agree(bat) /\ ~bat.disabled
    BY <1>2, <2>1 DEF Kept
  <2>3. CASE wanted /\ CanFlush(bat)
    BY <2>1, <2>2, <2>3 DEF CopiesAgree, Agree, IsSavedIn, SaveOf, Kept
  <2>4. CASE ~(wanted /\ CanFlush(bat))
    <3>1. next.cart = bat.cart /\ next.bound = bat.bound /\ next.then = then
      BY <1>1 DEF BatRecord
    <3> HIDE DEF next
    <3>2. Agree(next) /\ ~next.disabled
      BY <2>1, <2>2, <3>1 DEF Agree, IsSavedIn, SaveOf, Kept
    <3>3. AllSaved(next) \/ (next.then.op = "eject" /\ ~IsFmPac(next.cart[next.then.slot]))
      BY <1>1, <1>6, <2>1, <2>2, <2>4, <3>1, NothingToSave DEF AllSaved, Kept
    <3> QED BY <2>1, <2>4, <3>2, <3>3, DoneAgrees
  <2> QED BY <2>3, <2>4
<1>7. CASE EjectCartridge
  <2>1. PICK s \in Slots : bat' = SaveThen(bat, [op |-> "eject", slot |-> s], IsFmPac(bat.cart[s]))
    BY <1>7 DEF EjectCartridge
  <2> DEFINE then == [op |-> "eject", slot |-> s]
  <2>2. then \in [op : {"eject", "cycle", "quit"}, slot : Slots] /\ then.op = "eject" /\ then.slot = s
    OBVIOUS
  <2>3. IsFmPac(bat.cart[s]) \in BOOLEAN
    BY DEF IsFmPac
  <2> HIDE DEF then
  <2>4. bat' = SaveThen(bat, then, IsFmPac(bat.cart[s]))
    BY <2>1 DEF then
  <2> QED BY <1>6, <2>2, <2>3, <2>4
<1>8. CASE CyclePower
  BY <1>6, <1>8 DEF CyclePower, Slots
<1>9. CASE Quit
  BY <1>6, <1>9 DEF Quit, Slots
<1>10. CASE OpenTemp
  <2>1. bat' = [bat EXCEPT !.temp[bat.bound] = File("torn", 0), !.pc = "flush"]
    BY <1>10 DEF OpenTemp, WrittenHalf
  <2>2. /\ bat'.cart = bat.cart /\ bat'.bound = bat.bound /\ bat'.files = bat.files /\ bat'.pc = "flush"
        /\ bat'.expected = bat.expected /\ bat'.user = bat.user /\ bat'.disabled = bat.disabled
        /\ bat'.refused = bat.refused /\ bat'.shared = bat.shared
    BY <1>1, <2>1 DEF BatRecord
  <2> QED BY <1>2, <2>2 DEF CopiesAgree, Agree, IsSavedIn, SaveOf
<1>11. CASE WriteTemp
  <2>1. bat' = [bat EXCEPT !.temp[bat.bound] = Image(bat), !.pc = "rename"] /\ bat.pc = "flush"
    BY <1>11 DEF WriteTemp
  <2>2. /\ bat'.cart = bat.cart /\ bat'.bound = bat.bound /\ bat'.files = bat.files /\ bat'.pc = "rename"
        /\ bat'.expected = bat.expected /\ bat'.user = bat.user /\ bat'.disabled = bat.disabled
        /\ bat'.refused = bat.refused /\ bat'.shared = bat.shared
    BY <1>1, <2>1 DEF BatRecord
  <2>3. Agree(bat)
    BY <1>2, <2>2
  <2>4. /\ CanFlush(bat) /\ bat.bound \in FmPacs /\ FlushedSlot(bat) \in Slots
        /\ IsFmPac(bat.cart[FlushedSlot(bat)])
    BY <1>1, <2>1, FlushTarget DEF SaveUnderWay, SaveSteps
  <2>5. Image(bat) = File("new", bat.expected[bat.bound])
    BY <2>3, <2>4 DEF Agree, Image
  <2>6. bat'.temp[bat'.bound] = Image(bat)
    BY <1>1, <2>1, <2>2, <2>4 DEF BatRecord
  <2> QED BY <2>2, <2>3, <2>5, <2>6 DEF CopiesAgree, Agree, IsSavedIn, SaveOf
<1>12. CASE RenameTemp
  <2> DEFINE files == [bat.files EXCEPT ![bat.bound] = bat.temp[bat.bound]]
             temp == [bat.temp EXCEPT ![bat.bound] = Absent]
             b == [bat EXCEPT !.files = files, !.temp = temp]
  <2>1. bat' = Done(b) /\ bat.pc \in {"rename", "again"}
    <3>1. Renamed(bat) = b
      BY <1>1 DEF BatRecord, Renamed
    <3> QED BY <1>12, <3>1 DEF RenameTemp
  <2>2. /\ CanFlush(bat) /\ bat.bound \in FmPacs /\ FlushedSlot(bat) \in Slots
        /\ IsFmPac(bat.cart[FlushedSlot(bat)])
    BY <1>1, <2>1, FlushTarget DEF SaveUnderWay, SaveSteps
  <2>3. /\ files \in [FmPacs -> HostFile] /\ temp \in [FmPacs -> HostFile]
        /\ \A f \in FmPacs : files[f] = IF f = bat.bound THEN bat.temp[bat.bound] ELSE bat.files[f]
    BY <1>1, <2>2 DEF BatRecord, Absent, HostFile
  <2> HIDE DEF files, temp
  <2>4. b \in BatRecord
    BY <1>1, <2>3 DEF BatRecord
  <2>5. /\ b.cart = bat.cart /\ b.bound = bat.bound /\ b.files = files /\ b.expected = bat.expected
        /\ b.user = bat.user /\ b.disabled = bat.disabled /\ b.refused = bat.refused
        /\ b.then = bat.then /\ b.shared = bat.shared
    BY <1>1 DEF BatRecord
  <2> HIDE DEF b
  <2>6. bat.user = "careful" /\ ~bat.disabled /\ ~bat.refused
    BY <2>1, <2>4, <2>5, DoneIs DEF Kept
  <2>7. CopiesAgree(bat) /\ bat.pc = "rename"
    BY <1>1, <1>2, <2>1, <2>6 DEF SaveUnderWay
  <2>8. AllSaved(b)
    <3>1. files[bat.bound] = File("new", bat.expected[bat.bound])
      BY <2>2, <2>3, <2>7 DEF CopiesAgree
    <3>2. SaveLoaded(files[bat.bound]) = bat.expected[bat.bound]
      BY <3>1 DEF SaveLoaded, File
    <3>3. ASSUME NEW f \in FmPacs, f # bat.bound PROVE \A s \in Slots : ~IsSavedIn(bat, s, f)
      BY <2>7, <3>3 DEF CopiesAgree, Agree, IsSavedIn
    <3> QED BY <2>3, <2>5, <2>7, <3>2, <3>3 DEF AllSaved, CopiesAgree, Agree
  <2>9. Agree(b)
    BY <2>5, <2>7, <2>8 DEF AllSaved, CopiesAgree, Agree, SaveOf
  <2> QED BY <2>1, <2>4, <2>5, <2>6, <2>8, <2>9, DoneAgrees
<1>13. CASE WriteRefused \/ RenameRefused \/ RemoveOld \/ RenameRefusedAgain
  <2> DEFINE given == [bat EXCEPT !.temp[bat.bound] = Absent, !.refused = TRUE]
             again == [bat EXCEPT !.temp[bat.bound] = Absent]
  <2>1. bat.pc \in {"remove", "again"} => bat.refused
    BY <1>1 DEF SaveUnderWay
  <2>2. given.refused /\ again.refused = bat.refused
    BY <1>1 DEF BatRecord
  <2>3. (bat.pc \in SaveSteps) => given \in BatRecord /\ again \in BatRecord
    <3>1. bat.pc \in SaveSteps => [bat.temp EXCEPT ![bat.bound] = Absent] \in [FmPacs -> HostFile]
      BY <1>1, FlushTarget DEF SaveUnderWay, BatRecord, Absent, HostFile
    <3> QED BY <1>1, <3>1 DEF BatRecord
  <2>4. CASE WriteRefused
    <3>1. bat' = Done(given) /\ bat.pc \in SaveSteps
      BY <2>4 DEF WriteRefused, SaveSteps
    <3> HIDE DEF given
    <3> QED BY <2>2, <2>3, <3>1, DoneIs DEF Kept
  <2>5. CASE RenameRefusedAgain
    <3>1. bat' = Done(again) /\ bat.pc = "again"
      BY <2>5 DEF RenameRefusedAgain
    <3> HIDE DEF again
    <3> QED BY <2>1, <2>2, <2>3, <3>1, DoneIs DEF Kept, SaveSteps
  <2>6. CASE RenameRefused
    BY <1>1, <2>6 DEF RenameRefused, BatRecord
  <2>7. CASE RemoveOld
    <3>1. bat'.refused = bat.refused
      BY <1>1, <2>7 DEF RemoveOld, BatRecord
    <3> QED BY <2>1, <2>7, <3>1 DEF RemoveOld
  <2> QED BY <1>13, <2>4, <2>5, <2>6, <2>7
<1>14. CASE HostCrash
  <2> DEFINE expected == [f \in FmPacs |-> IF \E s \in Slots : IsSavedIn(bat, s, f)
                                           THEN SaveLoaded(bat.files[f]) ELSE bat.expected[f]]
             cart == [s \in Slots |-> Empty]
  <2>1. bat' = [bat EXCEPT !.cart = cart, !.bound = Unbound, !.pc = "off",
                           !.then = NoThen, !.expected = expected]
    BY <1>1, <1>14 DEF HostCrash, BatRecord
  <2> HIDE DEF cart, expected
  <2>2. /\ bat'.cart = cart /\ bat'.expected = expected /\ bat'.files = bat.files /\ bat'.pc = "off"
        /\ bat'.user = bat.user /\ bat'.disabled = bat.disabled /\ bat'.refused = bat.refused
    BY <1>1, <2>1 DEF BatRecord
  <2>3. Agree(bat)
    BY <1>2, <2>2
  <2>4. \A s \in Slots : bat'.cart[s] = Empty
    BY <2>2 DEF cart
  <2>5. \A f \in FmPacs : SaveLoaded(bat'.files[f]) = bat'.expected[f]
    BY <2>2, <2>3 DEF expected, Agree
  <2>6. ~IsFmPac(Empty)
    BY AutoloadAssumption DEF IsFmPac, Empty
  <2> QED BY <2>2, <2>4, <2>5, <2>6 DEF CopiesAgree, Agree, Slots
<1>15. CASE UNCHANGED bat_vars
  BY <1>2, <1>15 DEF bat_vars
<1> QED
  BY <1>3, <1>4, <1>5, <1>7, <1>8, <1>9, <1>10, <1>11, <1>12, <1>13, <1>14, <1>15 DEF BatNext

\* What a careful user's games saved comes back, whatever the images, through
\* any number of ejects, power cycles, restarts and crashes: the path that is
\* bound is that of the one FM-PAC that is in (Inserted), and what is taken
\* out is in its file first (eject_cartridge, power_cycle, run).
THEOREM CarefulSavesComeBack == BatSpec => []CarefulSavesSurvive
<1>1. BatInit => IInv
  BY SafeInit, CopiesInit DEF Safe, IInv
<1>2. IInv /\ [BatNext]_bat_vars => IInv'
  BY SafeStep, CopiesStep DEF Safe, IInv
<1>3. IInv => CarefulSavesSurvive
  BY DEF IInv, CopiesInStep, CopiesAgree, Agree, CarefulSavesSurvive, ComesBack
<1> QED BY <1>1, <1>2, <1>3, PTL DEF BatSpec

=============================================================================
