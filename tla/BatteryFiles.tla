----------------------------- MODULE BatteryFiles ----------------------------
(***************************************************************************)
(* The battery RAM of FM-PAC cartridges and the host files it is kept in:  *)
(* CartridgeFmPacRom::load_sram and save_sram, the one path the machine    *)
(* binds (set_fmpac_sram_path, load_cartridge, flush_fmpac_sram), and the  *)
(* operations of Sdl3App that put cartridges in and take them out.  The    *)
(* host may refuse a write or a rename, and the program may die between    *)
(* two steps of a save.  The contents of a battery RAM are a number: how   *)
(* often the games have written to it.                                     *)
(***************************************************************************)
EXTENDS Naturals

CONSTANTS
  FmPacs,      \* FM-PAC images of the host
  Games,       \* other cartridge images
  Autoload,    \* the FM-PAC image that is loaded into slot 2 by default
  Users,       \* see MayInsert
  MaxSaves     \* writes of the games that are followed

ASSUME AutoloadAssumption ==
  Autoload \in FmPacs /\ FmPacs \cap Games = {} /\ "none" \notin FmPacs \cup Games

VARIABLE bat
bat_vars == <<bat>>

Slots == {1, 2}
Empty == [rom |-> "none", data |-> 0]
Absent == [kind |-> "absent", data |-> 0]
File(kind, data) == [kind |-> kind, data |-> data]
Unbound == "none"

-----------------------------------------------------------------------------
(***************************************************************************)
(* The machine: a cartridge that goes in reads the file of the path bound  *)
(* at that moment.                                                         *)
(***************************************************************************)
IsFmPac(cart) == cart.rom \in FmPacs

\* The file of an image: the one beside it or, where a path is given, that one
\* for every image.  The window program gives the one beside the FM-PAC it
\* loads by default, unless the command line names another.
SaveOf(b, rom) == IF b.shared THEN Autoload ELSE rom
IsSavedIn(b, slot, file) == IsFmPac(b.cart[slot]) /\ SaveOf(b, b.cart[slot].rom) = file

\* (a plausible bug: the files of the old format are not read)
LoadedNew(file) == IF file.kind = "new" THEN file.data ELSE 0
\* load_sram: a file of the right size and header, or a headerless one of
\* the old format; anything else leaves the RAM blank.
SaveLoaded(file) == IF file.kind \in {"new", "legacy"} THEN file.data ELSE 0
Inserted(b, slot, rom) ==
  LET bound == IF rom \in FmPacs /\ ~b.disabled THEN SaveOf(b, rom) ELSE b.bound
      data  == IF rom \in FmPacs /\ bound # Unbound THEN SaveLoaded(b.files[bound]) ELSE 0
  IN  [b EXCEPT !.bound = bound, !.cart[slot] = [rom |-> rom, data |-> data]]

\* flush_fmpac_sram saves the first FM-PAC it finds to the path bound last.
FlushedSlot(b) == IF IsFmPac(b.cart[1]) THEN 1 ELSE 2
CanFlush(b) == b.bound # Unbound /\ \E s \in Slots : IsFmPac(b.cart[s])

\* The frontend at a start: the slots of the command line, then the FM-PAC
\* that is there by default, unless slot 2 is taken or one is in already.
Put(b, slot, rom) == IF rom = "none" THEN b ELSE Inserted(b, slot, rom)
Started(b, rom1, rom2) ==
  LET empty == [b EXCEPT !.cart = [s \in Slots |-> Empty], !.bound = Unbound, !.pc = "run"]
      given == Put(Put(empty, 1, rom1), 2, rom2)
  IN  IF rom2 = "none" /\ ~IsFmPac(given.cart[1]) THEN Inserted(given, 2, Autoload) ELSE given

-----------------------------------------------------------------------------
Images == FmPacs \cup Games

\* Users: "any" may have several FM-PACs in, "one" has one in at a time, and
\* "careful" also takes a cartridge out before another goes into its slot.
MayInsert(b, slot, rom) ==
  /\ b.user # "any" => rom \notin FmPacs \/ ~IsFmPac(b.cart[3 - slot])
  /\ b.user = "careful" => b.cart[slot] = Empty
MayStart(b, rom1, rom2) == b.user # "any" => rom1 \notin FmPacs \/ rom2 \notin FmPacs

NoThen == [op |-> "none", slot |-> 1]

\* expected: what the games wrote last to a battery RAM that is kept in a file,
\* as far as it was not lost in a crash.
BatInit ==
  \E disabled, shared, legacy \in BOOLEAN, user \in Users :
    bat = [cart |-> [s \in Slots |-> Empty], bound |-> Unbound, disabled |-> disabled,
           shared |-> shared, user |-> user, pc |-> "off", then |-> NoThen,
           files |-> [f \in FmPacs |-> IF legacy /\ f = Autoload THEN File("legacy", 1) ELSE Absent],
           temp |-> [f \in FmPacs |-> Absent], refused |-> FALSE, writes |-> 1,
           expected |-> [f \in FmPacs |-> IF legacy /\ f = Autoload THEN 1 ELSE 0]]

StartProgram ==
  /\ bat.pc = "off"
  /\ \E rom1, rom2 \in Images \cup {"none"} :
       MayStart(bat, rom1, rom2) /\ bat' = Started(bat, rom1, rom2)

\* A game writes to the RAM of an FM-PAC.
Play ==
  /\ bat.pc = "run" /\ bat.writes < MaxSaves
  /\ \E s \in Slots :
       /\ IsFmPac(bat.cart[s])
       /\ bat' = [bat EXCEPT !.cart[s].data = bat.writes + 1, !.writes = @ + 1,
                             !.expected[SaveOf(bat, bat.cart[s].rom)] = bat.writes + 1]

\* Every operation that saves does it in steps, and goes on afterwards.
Done(b) ==
  LET ended == [b EXCEPT !.pc = "run", !.then = NoThen]
      fresh == [ended EXCEPT !.cart = [s \in Slots |-> Empty], !.bound = Unbound]
  IN  CASE b.then.op = "eject" -> [ended EXCEPT !.cart[b.then.slot] = Empty]
        [] b.then.op = "cycle" -> Put(Put(fresh, 1, b.cart[1].rom), 2, b.cart[2].rom)
        [] OTHER -> [fresh EXCEPT !.pc = "off"]
SaveThen(b, then, wanted) ==
  LET next == [b EXCEPT !.then = then]
  IN  IF wanted /\ CanFlush(b) THEN [next EXCEPT !.pc = "write"] ELSE Done(next)

\* apply_open_cartridge: binds, loads and resets; a file that is refused
\* leaves everything alone.
OpenCartridge ==
  /\ bat.pc = "run"
  /\ \E s \in Slots, rom \in Images :
       MayInsert(bat, s, rom) /\ bat' = Inserted(bat, s, rom)
EjectCartridge ==
  /\ bat.pc = "run"
  /\ \E s \in Slots :
       bat.cart[s] # Empty /\ bat' = SaveThen(bat, [op |-> "eject", slot |-> s], IsFmPac(bat.cart[s]))
\* power_cycle, when the images can still be read.
CyclePower == bat.pc = "run" /\ bat' = SaveThen(bat, [op |-> "cycle", slot |-> 1], TRUE)
Quit == bat.pc = "run" /\ bat' = SaveThen(bat, [op |-> "quit", slot |-> 1], TRUE)

-----------------------------------------------------------------------------
(***************************************************************************)
(* save_sram.                                                              *)
(***************************************************************************)
Image(b) == File("new", b.cart[FlushedSlot(b)].data)

\* (a plausible bug: the image is written over the file itself)
WrittenInPlace(b) == [b EXCEPT !.files[b.bound] = File("torn", 0), !.pc = "flush"]
WrittenHalf(b) == [b EXCEPT !.temp[b.bound] = File("torn", 0), !.pc = "flush"]
OpenTemp == bat.pc = "write" /\ bat' = WrittenHalf(bat)
WriteTemp == bat.pc = "flush" /\ bat' = [bat EXCEPT !.temp[bat.bound] = Image(bat), !.pc = "rename"]
WriteRefused ==
  /\ bat.pc \in {"write", "flush"}
  /\ bat' = Done([bat EXCEPT !.temp[bat.bound] = Absent, !.refused = TRUE])

Renamed(b) == [b EXCEPT !.files[b.bound] = b.temp[b.bound], !.temp[b.bound] = Absent]
RenameTemp == bat.pc \in {"rename", "again"} /\ bat' = Done(Renamed(bat))
\* Some hosts do not rename onto a file: it is removed, and the rename tried again.
RenameRefused == bat.pc = "rename" /\ bat' = [bat EXCEPT !.pc = "remove", !.refused = TRUE]
RemoveOld == bat.pc = "remove" /\ bat' = [bat EXCEPT !.files[bat.bound] = Absent, !.pc = "again"]
RenameRefusedAgain == bat.pc = "again" /\ bat' = Done([bat EXCEPT !.temp[bat.bound] = Absent])

\* The program dies.  Nothing reads a temporary file that is left behind.
HostCrash ==
  /\ bat.pc # "off"
  /\ bat' = [bat EXCEPT !.cart = [s \in Slots |-> Empty], !.bound = Unbound, !.pc = "off", !.then = NoThen,
                        !.expected = [f \in FmPacs |-> IF \E s \in Slots : IsSavedIn(bat, s, f)
                                                       THEN SaveLoaded(bat.files[f]) ELSE @[f]]]

BatNext ==
  \/ StartProgram \/ Play \/ OpenCartridge \/ EjectCartridge \/ CyclePower \/ Quit \/ OpenTemp \/ WriteTemp
  \/ WriteRefused \/ RenameTemp \/ RenameRefused \/ RemoveOld \/ RenameRefusedAgain \/ HostCrash

BatSpec == BatInit /\ [][BatNext]_bat_vars

-----------------------------------------------------------------------------
(***************************************************************************)
(* Properties.                                                             *)
(***************************************************************************)
\* WholeSave: a file a later session can read.
WholeSave(file) == file.kind \in {"new", "legacy"}

\* A crash at any step of a save, a write that is refused and a rename that is
\* refused leave the old save or the new one: a file that was whole stays
\* whole, but where the host does not rename onto a file and it is removed
\* first (save_sram).
SaveStaysWhole ==
  [][\A f \in FmPacs :
       WholeSave(bat.files[f]) /\ bat.pc # "remove" => WholeSave(bat'.files[f])]_bat_vars

\* A battery RAM comes back as the games left it, through ejects, power
\* cycles, restarts and the files of older versions, if one FM-PAC is in at a
\* time.
ComesBack(b) ==
  ~b.disabled /\ ~b.refused =>
    \A s \in Slots : IsFmPac(b.cart[s]) => b.cart[s].data = b.expected[SaveOf(b, b.cart[s].rom)]
SavesSurvive == bat.user # "any" => ComesBack(bat)

\* So it does for a user who takes a cartridge out first.
CarefulSavesSurvive == bat.user = "careful" => ComesBack(bat)
=============================================================================
