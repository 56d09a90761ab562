------------------------------ MODULE MemoryMap ------------------------------
(***************************************************************************)
(* What the CPU sees at an address: SlotBus with the sub-slot registers,   *)
(* the memory mapper, the ROMs, the Halnote firmware, and the cartridges,  *)
(* wired as Hbf1xvMachine::wire_bus wires them.  A place names the byte an *)
(* address shows: the offset in a ROM, a cell of RAM, a register.          *)
(***************************************************************************)
EXTENDS SccWave, Opll

(***************************************************************************)
(* The cartridges: CartridgeSlot, the ROM window of eight 8 KB banks, and  *)
(* the mappers that switch it (src/src/devices/cartridge/*.cpp).  A ROM    *)
(* byte is known by its offset in the image; the FM-PAC's battery RAM and  *)
(* the wavetable chip of the Konami SCC cartridge hold bytes.              *)
(***************************************************************************)
CONSTANT SramOffsets  \* the bytes of a battery RAM that are looked at

BankSize == 8192
Page(a) == a \div BankSize
MapPage(a) == a \div 16384
Unmapped == -1
Open == <<"open">>

-----------------------------------------------------------------------------
(***************************************************************************)
(* The window.                                                             *)
(***************************************************************************)

\* A block past the end of the image is folded with the mask, and is no
\* block at all when it is past the end even then.
BlockFor(win, requested) ==
  LET folded == IF requested < win.blocks THEN requested ELSE AndWord(requested, win.mask)
  IN  IF folded < win.blocks THEN folded ELSE Unmapped
SetBank(win, slot, requested) == [win EXCEPT !.bank[slot] = BlockFor(win, requested)]
SetBanks(win, requests) ==
  [win EXCEPT !.bank = [s \in 0 .. 7 |-> IF s \in DOMAIN requests THEN BlockFor(win, requests[s]) ELSE @[s]]]

NewWindow(blocks, mask) == [blocks |-> blocks, mask |-> mask, bank |-> [s \in 0 .. 7 |-> Unmapped]]
WindowPlace(win, a) ==
  LET bank == win.bank[a \div BankSize]
  IN  IF bank = Unmapped THEN Open ELSE <<"rom", bank * BankSize + (a % BankSize)>>

\* A 16 KB bank fills two slots.
SetPair16(win, bank, block) ==
  SetBank(SetBank(win, 2 * bank, 2 * block), 2 * bank + 1, 2 * block + 1)

-----------------------------------------------------------------------------
(***************************************************************************)
(* Sizes an image may have, in 8 KB blocks.  A size that is no multiple of *)
(* 8 KB is never valid.                                                    *)
(***************************************************************************)
ValidSize(type, blocks) ==
  CASE type = "Mirrored" -> blocks \in 1 .. 8
    [] type \in {"Generic16kB", "Ascii16kB"} -> blocks > 0 /\ blocks % 2 = 0
    [] type = "FmPac" -> blocks \in {2, 4, 6, 8}
    [] OTHER -> blocks > 0

\* Konami's mappers show each page a second time.
Mirror(type, page) ==
  IF type = "Konami" THEN IF page \in {2, 3} THEN page - 2 ELSE page + 2
                     ELSE IF page \in {2, 3} THEN page + 4 ELSE page - 4
BankSwitch(type, win, page, block) ==
  LET own == SetBank(win, page, block)
  IN  IF page \in 2 .. 5 THEN SetBank(own, Mirror(type, page), block) ELSE own

ResetWindow(type, win) ==
  LET clear == [win EXCEPT !.bank = [s \in 0 .. 7 |-> IF s \in 2 .. 5 THEN @[s] ELSE Unmapped]]
      Boot(w, page) == BankSwitch(type, w, page, page - 2)
  IN  CASE type = "Mirrored"   -> SetBanks(win, [s \in 0 .. 7 |-> s])
        [] type = "Generic8kB" -> SetBanks(clear, [s \in 2 .. 5 |-> s - 2])
        [] type = "Ascii8kB"   -> SetBanks(clear, [s \in 2 .. 5 |-> 0])
        [] type = "Generic16kB" -> SetPair16(SetPair16(clear, 1, 0), 2, 1)
        [] type = "Ascii16kB"  -> SetPair16(SetPair16(clear, 1, 0), 2, 0)
        [] type \in {"Konami", "KonamiSCC"} -> Boot(Boot(Boot(Boot(win, 2), 3), 4), 5)
        [] OTHER -> win

\* A reset keeps the image and the battery RAM.
ResetCart(cart) ==
  [cart EXCEPT !.win = ResetWindow(cart.type, @), !.scc_on = FALSE, !.scc = ResetScc,
               !.enable = 0, !.bank = 0, !.key1 = 0, !.key2 = 0, !.sram_on = FALSE,
               !.opll = ResetOpll(FALSE)]

NoCart == [type |-> "none"]
NewCart(type, blocks) ==
  ResetCart([type |-> type,
             win |-> NewWindow(blocks, IF type = "Konami" THEN 31 ELSE blocks - 1),
             scc_on |-> FALSE, scc |-> ResetScc, enable |-> 0, bank |-> 0, key1 |-> 0, key2 |-> 0,
             sram_on |-> FALSE, sram |-> [o \in SramOffsets |-> 0], opll |-> ResetOpll(FALSE)])

\* CartridgeSlot::load: an image that does not fit leaves what is there.
Load(cart, type, blocks) == IF ValidSize(type, blocks) THEN NewCart(type, blocks) ELSE cart
ResetSlot(cart) == IF cart = NoCart THEN cart ELSE ResetCart(cart)

-----------------------------------------------------------------------------
(***************************************************************************)
(* Writes.                                                                 *)
(***************************************************************************)
Switched(cart, page, v) == [cart EXCEPT !.win = BankSwitch(cart.type, @, page, v)]

Ascii16Write(cart, a, v) ==
  IF a \div 2048 \in {12, 14}
  THEN [cart EXCEPT !.win = SetPair16(@, ((a \div 4096) % 2) + 1, v)]
  ELSE cart
Ascii8Write(cart, a, v) ==
  IF Page(a) = 3 THEN [cart EXCEPT !.win = SetBank(@, ((a \div 2048) % 4) + 2, v)] ELSE cart

\* #9800-#9FFF is the chip while it is enabled, by #3F in #9000-#97FF.
SccWindow(cart, a) == cart.scc_on /\ a \div 2048 = 19
KonamiSccWrite(cart, a, v) ==
  LET enabled == IF a \div 2048 = 18 THEN [cart EXCEPT !.scc_on = v % 64 = 63] ELSE cart
  IN  CASE a \div 4096 \notin 5 .. 11 -> cart
        [] a \div 4096 \in 5 .. 11 /\ SccWindow(cart, a) -> [cart EXCEPT !.scc = SccWrite(@, a % 256, v)]
        [] OTHER -> IF (a \div 2048) % 4 = 2 THEN Switched(enabled, Page(a), v) ELSE enabled

\* The FM-PAC: two keys unlock the battery RAM, and bit 4 of the enable
\* register takes them away and keeps them out.
SramWindow == 8190
\* (a plausible bug: a wrong key does not lock it again)
KeyedForGood(cart) == [cart EXCEPT !.sram_on = @ \/ (cart.key1 = 77 /\ cart.key2 = 105)]
Keyed(cart) == [cart EXCEPT !.sram_on = cart.key1 = 77 /\ cart.key2 = 105]
TakesKeys(cart) == 4 \notin Bits[cart.enable]
FmPacWrite(cart, a, v) ==
  LET rel == a % 16384
  IN  CASE MapPage(a) # 1 -> cart
        [] MapPage(a) = 1 /\ rel = 8190 ->
             IF TakesKeys(cart) THEN Keyed([cart EXCEPT !.key1 = v]) ELSE cart
        [] MapPage(a) = 1 /\ rel = 8191 ->
             IF TakesKeys(cart) THEN Keyed([cart EXCEPT !.key2 = v]) ELSE cart
        [] MapPage(a) = 1 /\ rel = 16372 -> [cart EXCEPT !.opll = OpllWriteAddress(@, v, 0)]
        [] MapPage(a) = 1 /\ rel = 16373 -> [cart EXCEPT !.opll = OpllWriteData(@, v, 0)]
        [] MapPage(a) = 1 /\ rel = 16374 ->
             LET set == [cart EXCEPT !.enable = And(v, 17)]
             IN  IF TakesKeys(set) THEN set ELSE Keyed([set EXCEPT !.key1 = 0, !.key2 = 0])
        [] MapPage(a) = 1 /\ rel = 16375 -> [cart EXCEPT !.bank = v % 4]
        [] OTHER -> IF cart.sram_on /\ rel < SramWindow /\ rel \in DOMAIN cart.sram
                    THEN [cart EXCEPT !.sram[rel] = v] ELSE cart

CartWrite(cart, a, v) ==
  CASE cart.type \in {"none", "Mirrored"} -> cart
    [] cart.type = "Generic8kB"  -> [cart EXCEPT !.win = SetBank(@, Page(a), v)]
    [] cart.type = "Generic16kB" -> [cart EXCEPT !.win = SetPair16(@, a \div 16384, v)]
    [] cart.type = "Ascii8kB"    -> Ascii8Write(cart, a, v)
    [] cart.type = "Ascii16kB"   -> Ascii16Write(cart, a, v)
    [] cart.type = "Konami"      -> IF Page(a) \in 3 .. 5 THEN Switched(cart, Page(a), v) ELSE cart
    [] cart.type = "KonamiSCC"   -> KonamiSccWrite(cart, a, v)
    [] OTHER                     -> FmPacWrite(cart, a, v)

-----------------------------------------------------------------------------
(***************************************************************************)
(* Reads: which byte an address shows.                                     *)
(***************************************************************************)
FmPacPlace(cart, a) ==
  LET rel  == a % 16384
      last == cart.win.blocks * BankSize
      at   == 16384 * (cart.bank % (cart.win.blocks \div 2)) + rel
  IN  CASE MapPage(a) # 1 -> Open
        [] MapPage(a) = 1 /\ rel = 16374 -> <<"enable">>
        [] MapPage(a) = 1 /\ rel = 16375 -> <<"bank">>
        [] MapPage(a) = 1 /\ rel \notin {16374, 16375} /\ ~cart.sram_on ->
             IF at >= last THEN Open ELSE <<"rom", at>>
        [] OTHER -> CASE rel < SramWindow -> <<"sram", rel>>
                      [] rel = 8190 -> <<"key1">>
                      [] rel = 8191 -> <<"key2">>
                      [] OTHER -> Open
CartPlace(cart, a) ==
  CASE cart.type = "none" -> Open
    [] cart.type = "FmPac" -> FmPacPlace(cart, a)
    [] cart.type = "KonamiSCC" /\ SccWindow(cart, a) -> <<"scc", a % 256>>
    [] OTHER -> WindowPlace(cart.win, a)

\* Reading the chip may set its deform register.
AfterCartRead(cart, a) ==
  IF cart.type = "KonamiSCC" /\ SccWindow(cart, a)
  THEN [cart EXCEPT !.scc = AfterSccRead(@, a % 256)] ELSE cart

-----------------------------------------------------------------------------
CONSTANTS
  RamSegments,  \* 16 KB segments of RAM, a power of two
  Scenes        \* records [slots, cart, selects, writes, segments]: what a guest does

CartTypes ==
  {"Mirrored", "Generic8kB", "Generic16kB", "Ascii8kB", "Ascii16kB", "Konami", "KonamiSCC", "FmPac"}

ASSUME SegmentsAssumption == RamSegments \in 1 .. 256 /\ \E k \in 0 .. 8 : RamSegments = 2^k
\* A guest writes bytes to 16-bit addresses; images are up to 512 MB long.
ASSUME ScenesAssumption ==
  \A s \in Scenes :
    /\ s.slots \subseteq {"cart1", "cart2"}
    /\ s.cart[1] \in CartTypes /\ s.cart[2] \subseteq Word
    /\ s.writes \subseteq Word \X Byte
    /\ s.selects \subseteq Byte /\ s.segments \subseteq Byte

VARIABLES
  map,    \* primary select, sub-slot registers, mapper segments, and the devices
  scene,  \* the scene that is played
  wrote   \* history: the last write to memory, or NoWriteYet

map_vars == <<map, scene, wrote>>

NoWriteYet == [at |-> -1]
Addresses(s) == {w[1] : w \in s.writes}
CellOffsets(s) == {a % 16384 : a \in Addresses(s)}

-----------------------------------------------------------------------------
(***************************************************************************)
(* Slots.  Primaries 0 and 3 are expanded.                                 *)
(***************************************************************************)
Expanded == {0, 3}
Field(v, page) == (v \div 4^page) % 4
PrimaryFor(m, page) == Field(m.primary, page)
SubFor(m, primary, page) == IF primary \in Expanded THEN Field(m.sub[primary], page) ELSE 0

Attached(primary, sub, page) ==
  CASE primary = 0 /\ sub = 0 /\ page \in {0, 1} -> "bios"
    [] primary = 0 /\ sub = 3                    -> "halnote"
    [] primary = 3 /\ sub = 0                    -> "ram"
    [] primary = 3 /\ sub = 1 /\ page = 0        -> "subrom"
    [] primary = 3 /\ sub = 1 /\ page \in {1, 2} -> "kanji"
    [] primary = 3 /\ sub = 2 /\ page = 1        -> "fdc"
    [] primary = 3 /\ sub = 3 /\ page = 1        -> "fmmusic"
    [] primary = 1 /\ sub = 0                    -> "cart1"
    [] primary = 2 /\ sub = 0                    -> "cart2"
    [] OTHER                                     -> "none"
Device(m, a) ==
  LET primary == PrimaryFor(m, MapPage(a))
  IN  Attached(primary, SubFor(m, primary, MapPage(a)), MapPage(a))

\* #FFFF is the sub-slot register of the primary slot of page 3.
IsSubSlotRegister(m, a) == a = 65535 /\ PrimaryFor(m, 3) \in Expanded

-----------------------------------------------------------------------------
(***************************************************************************)
(* The devices.                                                            *)
(***************************************************************************)
RomBase == [bios |-> 0, subrom |-> 0, kanji |-> 16384, fmmusic |-> 16384]
RomSize == [bios |-> 32768, subrom |-> 16384, kanji |-> 32768, fmmusic |-> 16384]
RomPlace(rom, a) ==
  IF a >= RomBase[rom] /\ a < RomBase[rom] + RomSize[rom] THEN <<"rom", a - RomBase[rom]>> ELSE Open

\* The mapper folds a segment number it has no memory for.
Folded(segment) == segment % RamSegments
RamPlace(m, a) == <<"ram", Folded(m.segment[MapPage(a)]), a % 16384>>

\* Halnote: 128 banks of 8 KB, 16 KB of battery RAM below #4000, and two
\* windows of 2 KB over #7000-#7FFF.
HalnoteBlocks == 128
ResetHalnote(hal) ==
  [win |-> SetBanks(NewWindow(HalnoteBlocks, HalnoteBlocks - 1), [s \in 2 .. 5 |-> 0]),
   sub |-> <<0, 0>>, sram_on |-> FALSE, sub_on |-> FALSE, sram |-> [o \in DOMAIN hal.sram |-> 0]]
HalnotePlace(hal, a) ==
  CASE a < 16384 -> IF hal.sram_on THEN <<"sram", a>> ELSE Open
    [] hal.sub_on /\ a \div 4096 = 7 ->
         <<"rom", 524288 + 2048 * hal.sub[IF a < 30720 THEN 1 ELSE 2] + (a % 2048)>>
    [] OTHER -> WindowPlace(hal.win, a)
HalnoteBank(hal, bank, v) ==
  LET switched == [hal EXCEPT !.win = SetBank(@, bank, v)]
  IN  CASE bank = 2 -> [switched EXCEPT !.sram_on = v >= 128]
        [] bank = 3 -> [switched EXCEPT !.sub_on = v >= 128]
        [] OTHER -> switched
HalnoteWrite(hal, a, v) ==
  CASE a < 16384 -> IF hal.sram_on /\ a \in DOMAIN hal.sram THEN [hal EXCEPT !.sram[a] = v] ELSE hal
    [] a = 30719 -> [hal EXCEPT !.sub[1] = v]
    [] a = 32767 -> [hal EXCEPT !.sub[2] = v]
    [] MapPage(a) \in {1, 2} /\ a % 8192 = 4095 -> HalnoteBank(hal, Page(a), v)
    [] OTHER -> hal

-----------------------------------------------------------------------------
(***************************************************************************)
(* Reads and writes of the CPU.                                            *)
(***************************************************************************)
Place(m, a) ==
  LET dev == Device(m, a)
  IN  CASE IsSubSlotRegister(m, a) -> <<"subslot", <<"register", PrimaryFor(m, 3)>>>>
        [] ~IsSubSlotRegister(m, a) /\ dev = "none" -> <<dev, Open>>
        [] ~IsSubSlotRegister(m, a) /\ dev = "ram" -> <<dev, RamPlace(m, a)>>
        [] ~IsSubSlotRegister(m, a) /\ dev = "halnote" -> <<dev, HalnotePlace(m.halnote, a)>>
        [] ~IsSubSlotRegister(m, a) /\ dev \in {"cart1", "cart2"} -> <<dev, CartPlace(m[dev], a)>>
        [] ~IsSubSlotRegister(m, a) /\ dev = "fdc" -> <<dev, <<"register", a>>>>
        [] OTHER -> <<dev, RomPlace(dev, a)>>

\* The byte at a place that can hold one: RAM, battery RAM, the chip's waves.
Holds(m, p) ==
  CASE p[1] = "ram" -> m.ram[<<p[2][2], p[2][3]>>]
    [] p[1] = "subslot" -> 255 - m.sub[p[2][2]]
    [] OTHER -> m[p[1]].sram[p[2][2]]

Written(m, a, v) ==
  LET dev == Device(m, a)
  IN  CASE IsSubSlotRegister(m, a) -> [m EXCEPT !.sub[PrimaryFor(m, 3)] = v]
        [] ~IsSubSlotRegister(m, a) /\ dev = "ram" ->
             [m EXCEPT !.ram[<<Folded(m.segment[MapPage(a)]), a % 16384>>] = v]
        [] ~IsSubSlotRegister(m, a) /\ dev = "halnote" -> [m EXCEPT !.halnote = HalnoteWrite(@, a, v)]
        [] ~IsSubSlotRegister(m, a) /\ dev \in {"cart1", "cart2"} ->
             [m EXCEPT ![dev] = CartWrite(@, a, v)]
        [] OTHER -> m

-----------------------------------------------------------------------------
BlankMap(s) ==
  [primary |-> 0, sub |-> [p \in 0 .. 3 |-> 0], segment |-> [p \in 0 .. 3 |-> 0],
   ram |-> [c \in (0 .. RamSegments - 1) \X CellOffsets(s) |-> 0],
   halnote |-> ResetHalnote([sram |-> [o \in {a \in Addresses(s) : a < 16384} |-> 0]]),
   cart1 |-> NoCart, cart2 |-> NoCart]

MapInit == \E s \in Scenes : scene = s /\ map = BlankMap(s) /\ wrote = NoWriteYet

\* OUT (#A8): port A of the PPI.
SelectPrimary ==
  /\ \E v \in scene.selects : map' = [map EXCEPT !.primary = v]
  /\ wrote' = NoWriteYet /\ UNCHANGED scene
\* OUT (#FC)-(#FF)
SelectSegment ==
  /\ \E page \in 0 .. 3, v \in scene.segments : map' = [map EXCEPT !.segment[page] = v]
  /\ wrote' = NoWriteYet /\ UNCHANGED scene
WriteMemory ==
  /\ \E w \in scene.writes :
       /\ map' = Written(map, w[1], w[2])
       /\ wrote' = [at |-> w[1], value |-> w[2], place |-> Place(map, w[1])]
  /\ UNCHANGED scene
ReadMemory ==
  /\ \E w \in scene.writes, dev \in {"cart1", "cart2"} :
       /\ Device(map, w[1]) = dev /\ ~IsSubSlotRegister(map, w[1])
       /\ map' = [map EXCEPT ![dev] = AfterCartRead(@, w[1])]
  /\ wrote' = NoWriteYet /\ UNCHANGED scene
InsertCartridge ==
  /\ \E dev \in scene.slots, blocks \in scene.cart[2] :
       map' = [map EXCEPT ![dev] = Load(@, scene.cart[1], blocks)]
  /\ wrote' = NoWriteYet /\ UNCHANGED scene
RemoveCartridge ==
  /\ \E dev \in scene.slots : map' = [map EXCEPT ![dev] = NoCart]
  /\ wrote' = NoWriteYet /\ UNCHANGED scene
\* cold_boot keeps the cartridges; the mapper's segments are not reset, and
\* RAM gets its pattern again.
BootMap ==
  /\ map' = [BlankMap(scene) EXCEPT !.cart1 = ResetSlot(map.cart1), !.cart2 = ResetSlot(map.cart2),
                                    !.segment = map.segment]
  /\ wrote' = NoWriteYet /\ UNCHANGED scene

MapNext ==
  \/ SelectPrimary \/ SelectSegment \/ WriteMemory \/ ReadMemory \/ InsertCartridge
  \/ RemoveCartridge \/ BootMap

MapSpec == MapInit /\ [][MapNext]_map_vars

-----------------------------------------------------------------------------
RomSpace(dev) ==
  CASE dev = "halnote" -> HalnoteBlocks * BankSize
    [] dev \in {"cart1", "cart2"} -> map[dev].win.blocks * BankSize
    [] OTHER -> RomSize[dev]

\* Whatever is written to the bank registers, and whatever the size of the
\* image, no address shows a byte past the end of a ROM or of the RAM, and
\* the pages a Konami mapper shows twice show the same.
ReadsInside ==
  /\ \A w \in scene.writes :
       LET p == Place(map, w[1])
       IN  /\ p[2][1] = "rom" => p[2][2] \in 0 .. RomSpace(p[1]) - 1
           /\ p[2][1] = "ram" => p[2][2] \in 0 .. RamSegments - 1
  /\ \A dev \in {"cart1", "cart2"} :
       map[dev].type \in {"Konami", "KonamiSCC"} =>
         \A page \in 2 .. 5 : map[dev].win.bank[page] = map[dev].win.bank[Mirror(map[dev].type, page)]

\* A write changes the byte that a read at its address showed, when that
\* byte can be written, and no other byte; and no device it was not for.
Cells(m) ==
  {<<"ram", <<"ram", c[1], c[2]>>>> : c \in DOMAIN m.ram}
    \cup {<<"subslot", <<"register", p>>>> : p \in DOMAIN m.sub}
    \cup UNION {{<<d, <<"sram", o>>>> : o \in DOMAIN m[d].sram} :
                  d \in {c \in {"halnote", "cart1", "cart2"} : m[c] # NoCart}}
OnePlaceWritten ==
  [][wrote' # NoWriteYet =>
       LET p == wrote'.place
       IN  /\ \A c \in Cells(map) :
                Holds(map', c) = IF c # p THEN Holds(map, c)
                                 ELSE IF c[1] = "subslot" THEN 255 - wrote'.value ELSE wrote'.value
           /\ \A d \in {"halnote", "cart1", "cart2"} \ {p[1]} : map'[d] = map[d]]_map_vars

\* The battery RAM of an FM-PAC is open only while both keys are in.
SramNeedsKeys ==
  \A dev \in {"cart1", "cart2"} :
    map[dev].type = "FmPac" /\ map[dev].sram_on =>
      map[dev].key1 = 77 /\ map[dev].key2 = 105 /\ TakesKeys(map[dev])

\* Whatever the guest selects, no read leaves the image, the battery RAM or
\* the segments it is for; the battery RAM shows only while both keys stand;
\* and a write changes the one place it is for (slot_bus.cpp, cartridge/*.cpp).
MapExact == [](ReadsInside /\ SramNeedsKeys) /\ OnePlaceWritten
=============================================================================
