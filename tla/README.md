# A TLA+ model of the Sony HB-F1XV emulator

This directory holds TLA+ modules that model the emulator under `src/src`, TLC
configurations that check them on small instances, and proofs that TLAPS checks
for every value of the constants. `PROJECT.json` lists the components, runs,
mutants, hazards, findings and theorems, and maps every definition to the source
lines it stands for. Mutants are operators named after the definition they damage
(`StaleIndexBeginReadSector`, ...) or after the mistake (`NoRest`, `OnePage`);
the specification never uses them.

## 1. The system

One thread runs the whole machine. `Sdl3App::run_frame` (or `main.cpp`
headless) calls `Hbf1xvMachine::step_cpu_instruction` until a frame is over;
each instruction advances a cycle counter (`Scheduler`) and the devices that
need it. Most devices are lazy: they keep the cycle of their last access and
work out at the next one what happened in between. So the interleavings that
matter are not between threads but between the guest program's register
accesses, the passing of emulated time, and what the user does between two
frames (swap a disk, reset, toggle a mode, load a cartridge), all of which act
on the same device state.

| component | state | operations | what makes it correct |
|---|---|---|---|
| FDC chip (`devices/fdc/wd2793`) | registers, phase, sector buffer, deadlines, write-track parser | register reads and writes, `sync` | commands end, no byte lost or moved, result independent of polling |
| drive and image (`disk_drive`, `disk_image`) | head, side, motor, disk-changed latch; sectors, dirty, host path | step, motor, sector access, attach, flush | whole-sector changes at the latched place |
| Sony interface (`sony_fdc`) | side and drive latches | memory-mapped registers 0x3FF8-0x3FFF | a disk change is reported once and never lost |
| disk list of the frontend (`sdl3_app`) | list of images, cache, current index, write-back flag | open, F11 swap, writable toggle, eject, reset, shutdown | what a guest wrote reaches its own host file |
| VDP ports and interrupts (`v9958_vdp`, `irq_line`) | registers, port latches, status registers, IRQ line | ports 0x98-0x9B, line and frame events | no interrupt lost or invented, addresses not mixed up |
| VDP command engine | command registers, running command, busy window | start, per-unit step, TR handshake | ends with the right registers; CPU transfer not over- or underrun |
| VDP renderer, sprite engine, scanline accumulator, palette | beam watermark, frame under construction, collision latches | on-state-change commit, finalize at vsync | every line is drawn once, from the state of its time |
| machine (`hbf1xv_machine`) | cycle count, frame and line event caches, devices | step, vsync boundary, cold boot, power cycle | events fire once, at the right cycle, after a register change too |
| CPU (`devices/cpu`) | Z80 registers, IFF1/2, EI shadow, HALT | one instruction | instruction results, interrupt acceptance order |
| slot and I/O buses, PPI, mapper, S1985, switched I/O, system control, reset status, pause | slot registers, mapper segments, device id, pause counter | port and memory accesses | one responder per address, reads see the last write |
| memories and cartridges (`memory`, `cartridge`, `halnote`, `kanji`) | banks, SRAM, address counters | bank writes, SRAM load and save | an access stays inside its ROM, RAM or SRAM; what a game saved comes back |
| clock (`rtc/rp5c01`) | time registers, alarm, blocks, last sync | register access, lazy `sync_time` | time independent of how often it is read; fields in range |
| audio (`psg`, `scc`, `opll`, `click_dac`, mixer, pump, pacer) | generators, capture queues, pacing baseline | register writes, sample generation, frame pacing | no sample lost or produced twice; the pacer does not drift |
| peripherals (`keyboard_matrix`, `joystick`, `rensha_turbo`, `cassette`, `printer`) | rows, buttons, turbo divider | press, release, read | strobe and turbo edges |
| input scripts (`input_script`, recorder and players in `sdl3_app` and `main`) | lines recorded, cursor of the player | record, parse, play | a replay shows the machine what the session showed it |
| captures (`hbf1xv_machine`, `debug_*`, `cpu_trace_sink`) | trace ring, log, memory watch | arm, record, end | the trace is the tail of the execution, complete and in order |
| settings file (`emulator_config`, `config_runtime`, `sdl3_app`) | values in force, values read and written last | start, change, write at the end of a frame | what the user chose or wrote by hand is there at the next start |
| machine tools (`cartridge_cli`, `software_db`, `sha1`, `xml_tokenizer`) | none or per call | parse, format | pure text handling |
| frontend shell (`sdl3_*`, `menu_model`, `recent_files`) | menu, window | events, presentation | menu entries call the operation they name |

Where they meet: the CPU's accesses reach devices through `SystemBus` and
`IoBus`; the FDC holds a reference to the drive and the drive a pointer to the
machine's one `DiskImage`, which the frontend overwrites in place; the VDP
raises the `IrqLine` the CPU samples before every instruction and calls back
into the machine before a register or VRAM change so that lines already passed
by the beam are drawn first; `cold_boot` resets the devices and drops the
mounted disk, which `reset_machine` and `power_cycle` of the frontend put back.

## 2. The modules and the code

Every operator of a component is named after the function it stands for where
that gives a readable name (`StepHead`, `ReadStatus`, `poll_line_interrupt` as
`PollLine`), state keeps the member's name without its trailing underscore, and
`PROJECT.json` has the lines. Components without a clock of their own are
records with operators that return the record after a call, as the code calls
them; the module on top of a stack holds the variables and the actions.

| module | EXTENDS | models |
|---|---|---|
| `Words` | | bytes, words and their bits |
| **disks** | | |
| `DiskDrive` | | the sector image and the drive mechanism as records |
| `Wd2793` | `DiskDrive` | the controller: all commands, `sync`, the write-track parser |
| `SonyFdc` | `Wd2793` | the interface registers, and the three parties on it: CPU, time, user |
| `SectorStream` | | abstract: a disk changes by whole sectors, at the place the write began |
| `FdcHistory` | `SonyFdc` | a program's history (what it sent, what it got, which changes it saw), and the refinement mapping to `SectorStream` |
| `FdcPolling` | `SonyFdc` | a twin of the chip that is synchronised in every cycle |
| `DiskMedia` | | the frontend's disk list, cache, binding and write-back; host failures |
| `FileDialogs` | `DiskMedia` | SDL's dialog thread, its mailbox and the directory string |
| **processor and memory** | | |
| `Raster` | | where the beam is, from the cycle counter |
| `V9958` | `Words` | interrupt sources, enables and the /INT line of the VDP |
| `Hbf1xv` | `Raster`, `V9958` | `step_cpu_instruction`, `on_vsync_boundary`, pause, speed, reset; of the CPU acceptance, HALT and the shadow of EI |
| `Z80Cpu` | `Words` | the whole instruction set with flags, prefixes, the three interrupt modes and the NMI |
| `MemoryMap` | `SccWave`, `Opll` | slots, sub-slots, mapper, firmware, every cartridge mapper, the FM-PAC's keys |
| `IoPorts` | `Words` | I/O bus, 8255, keyboard, joysticks, turbo, tape, S1985, Kanji font, printer, clock chip |
| `BatteryFiles` | | FM-PAC battery RAM, its files and the operations that move cartridges |
| **picture** | | |
| `RenderSync` | `Raster` | scanline accumulator, sprite pass, and the adapter that commits rows |
| `VdpMode` | `Words` | display modes, palette and VRAM |
| `Sprites` | `VdpMode` | both sprite modes, collisions, the sprite status |
| `VdpPicture` | `Sprites` | a line of the picture in every mode, dot by dot |
| `VdpPorts` | `VdpPicture` | the four ports, their shared latch, the VRAM pointer, status reads |
| `VdpCommandEngine` | | the command engine and its VRAM as a record: ten commands that run at once, three transfers, the clipping of their rectangles |
| `VdpCommands` | `VdpCommandEngine` | the program's accesses to it, with the busy and transfer-ready windows of the VDP |
| **sound** | | |
| `Psg`, `SccWave`, `Opll` | `Words` | the PSG, the wavetable chip, and the FM chip's registers, keys and envelopes |
| `Sound` | the three above | the wavetable chip's catch-up; the lazy mixing of the frontend beside chips that run along with every cycle |
| `AudioPacing` | | samples due, made, queued and refilled, over resets |
| **tools** | | |
| `InputReplay` | | recorder, parser and the two players of input scripts |
| `StreamCapture` | | trace ring, event logs, snapshots, memory watch, over the sessions of both programs |
| `Settings` | | command line, settings file and built-in values; the file as a session writes it again |
| **proofs and instances** | | |
| `Wd2793Proofs`, `SonyFdcProofs`, `MediaProofs`, `Hbf1xvProofs`, `RenderSyncProofs`, `VdpCommandsProofs`, `HostProofs`, `InputProofs` | their modules, TLAPS | the proofs |
| `MCSonyFdc`, `MCFdcHistory`, `MCFdcPolling`, `MCFdcScenes` | the FDC modules | instances for TLC |
| `MCHost` | `FileDialogs`, `BatteryFiles`, `AudioPacing`, `InputReplay`, `StreamCapture`, `Settings` | what the host program keeps |
| `MCMachine` | `Hbf1xv`, `Z80Cpu`, `MemoryMap`, `IoPorts`, `Sound`, `VdpPorts` | the machine without its disks and commands |
| `MCVdpDrawing` | `VdpCommands`, `RenderSync` | how the VDP comes to its picture |

**Time.** `SonyFdc` keeps the absolute cycle `now`, because deadlines of the
chip are absolute; so do `IoPorts` and `Sound`, each for a run of limited length.
`Hbf1xv` and `RenderSync` keep the cycles since the last vertical sync: the code
compares its counter with `last_vsync_cycle_` only, so these two have finitely many
states without any bound on time, and TLC covers runs of any length. `VdpCommands`
keeps the time its windows have still to run.

**The step of the machine.** One action of `Hbf1xv` is one call of
`step_cpu_instruction`: the pause test, the refresh of the CPU's request from
the line, acceptance, idling or one instruction with at most one access to the
VDP or the interrupt flags, the advance of the counter, the poll of the line
interrupt, and the vertical sync when the frame is over. Nothing is split: no
other party can come between these in the code.

**Instructions.** `Z80Cpu` decodes as the code does, by the fields x, y, z, p and
q of an opcode, so that one operator stands for a family of handlers. A CPU is a
record, the flags a set of bit numbers; a step takes the CPU and what its inputs
show (interrupt lines, port, memory) to the CPU after it. The memory map and the
ports do not run instructions: they take any access at any moment.

**A command of the VDP.** The engine computes ten of its commands in no time,
inside the write to R#46, and `AfterCommand` does so too; the VDP lays a busy
window over them that only the status register shows. LMMC, HMMC and LMCM go
on one unit per access. The model has real pixels, packed into bytes, and all
logical operations, on a screen of a few bytes: what a command draws is compared
with a picture computed pixel by pixel, not with the loop that draws it.
The parameters are written as a block, the way programs write them through R#17.

**A line of the picture.** `VdpPicture` gives the colour of a dot as a function
of registers, VRAM, palette and sprites, where the code fills a row with a loop
per mode. `RenderSync` decides *when* a row is drawn and keeps of the picture only
which state it was drawn from; `VdpPicture` decides *what* the row shows.

**Places.** `MemoryMap` does not store bytes: an address shows a place (an offset
in a ROM, a cell of a RAM, a register of a chip), and the properties are about
places. A cartridge is its window of eight banks and the registers behind it.

**Sound.** The code lets a chip stand still and brings it up to the cycle of a
write or of a sample. `Sound` runs that code beside ideal chips that are stepped
cycle by cycle and hear each write at its cycle; `SamplesExact` compares the
samples. The ideal chips use the same step of the counters, a cycle at a time; when and how
far a chip is brought up to date is in the code's side alone.

**Files and disks.** The bytes of a disk are whose disk it is and how many
writes it holds, those of a battery RAM how often the games had written. `parted`
is history: the listed files whose bytes the user made differ from the session's
disk, by choosing the file while it was in the drive or by writing a blank disk
over it. The code has no such variable; two properties except these files, and
`SavesPersist` shows what happens to one.

**Composition.** `MCHost`, `MCMachine` and `MCVdpDrawing` hold several parts. What
connects these parts in the code is a call whose effects each part models from
its own side (the vertical sync that `Hbf1xv` makes is the one `RenderSync` and
`VdpPorts` receive; the write of a program is any write), so a behaviour follows one
part, named by `focus`, and the others rest. The interleavings that matter inside
a part are all there: CPU, time and user on the disk interface; main loop and
dialog thread on the disk list; guest, beam and capture on the frame assembly.

**What is left out of a modelled part.** Diagnostic counters, observers, trace
hooks and debug snapshots; the `data_reg_fresh_` flag nothing reads; the FM chip's
phases and wave tables; the cycle total and trace record of the CPU; in
`RenderSync` the blink phase and the sprite mode, which the code fixes per frame.

## 3. The runs

Bounds are constants in the cfg, named in the module that declares them. Every
run checks deadlock but `Machine`, whose programs and scenes come to their end.

| run | follows | shows |
|---|---|---|
| `FdcHistory` | multi-record reads and writes on two sectors of two bytes per side, disks swapped in mid-transfer | `WrittenAsSent`, `ReadAsStored`, `ChangeNeverMissed`; the interface implements `SectorStream` (`WritesWholeSectors`) |
| `FdcFormat` | Write Track with every order of mark, gap and CRC bytes on a track of ten bytes | a format lays whole sectors of the track it began on (`WritesWholeSectors`) |
| `FdcPolling` | single commands on a sector of three bytes, a twin that is polled in every cycle | polling more often changes nothing the program or the medium sees (`PollingInvisible`) |
| `FdcEnds` | two scenes: transfers on a protected disk with ejects, the fast mode and resets; commands a program waits for, with disks swapped | `ChipConsistent`; every command but Write Track ends (`CommandsComeToEnd`) |
| `Host` | disks and dialogs with failing writes and kills; battery files with refusals and kills; the sound queue; a session and its replay; captures; the settings file with hand edits, refused writes and kills | `DisksKept`, `TakenOutIsSaved`, `DialogStands`, `MailboxFreed`, `SaveStaysWhole`, `CarefulSavesSurvive`, `PacerFollowsClock`, `ReplayExact`, `CaptureComplete`, `EndsWithTail`, `SettingsKept` |
| `Machine` | interrupts, pause and speed on a frame of six lines; several thousand CPU programs; cartridges; ports and clock; sound; ports, sprites and picture | `InterruptLineExact`, `LineInterruptExact`, `HaltWakes`; `OpcodesExact`, `InterruptsExact`; `MapExact`; `ClockExact`, `PortsExact`; `SoundExact`; `StreamsExact`, `PictureExact`, `StatusExact`, `CollisionsAhead` |
| `VdpDrawing` | commands in two modes on a screen of eight bytes; rows of a frame of five lines under writes, commands, mode changes, resets | `CommandsExact`, `UnitsInPlace`, `EndsWithLastUnit`, `CommandsComplete`; `RowsAsScanned`, `SpritesMatchRow`, `SealedAtVsyncOnly`, `CommandSinkInert` |
| `DiskMediaReopen` | the disk list, the mounted file chosen again | violation of `SavesPersist` (finding 1) |
| `LineInterruptLost` | the frame loop, a program that writes R#9, R#19 and R#23 | violation of `FiresAtFirstBoundary` (finding 2) |
| `FrameCapture` | the rows, with captures | violation of `CaptureKeepsAccumulation` (finding 3) |
| `GamesSaved` | the battery files, a user who opens a cartridge over an FM-PAC | violation of `SavesSurvive` (finding 4) |
| `ClockSet` | the clock chip, a program that sets the month | violation of `YearsByClock` (finding 5) |

Some properties are the conjunction of parts that have a name of their own:
`ChipConsistent` (Busy exactly while a command runs, and its byte counters add
up), `DisksKept` (no file gets another disk's bytes, no disk of the list is behind
its file), `InterruptLineExact` (the level equals its sources, a request is backed
by the level), `OpcodesExact` (flags, DAA, the prefixes DD and FD), `InterruptsExact`
(block instructions resume, handlers do not nest, RETN), and so on; the module
that defines the conjunction lists them.

What a few of these say in the terms of the code:

- `OpcodesExact` does not repeat the flag formulas: C is whether the unsigned result
  fits, P/V whether the signed one does, H the same of the low digits; DAA leaves
  the decimal sum; an opcode under DD is the plain opcode with HL and IX exchanged.
- `InterruptsExact`: an interrupt in the middle of LDIR changes nothing of the copy,
  also of an overlapping one; a handler that ends in EI and RET never stacks up.
- `MapExact`: no access leaves its ROM, RAM or SRAM whatever the bank registers
  hold; the FM-PAC's RAM shows only while both key bytes stand; a write changes one place.
- `ClockExact`: the time shown is the time that ran while the timer was on,
  however rarely the chip was accessed and its mode and gate were switched.
- `SoundExact`: the samples made late are those of chips that run with every cycle;
  catching up in two parts gives what one part gives.
- `PictureExact`: every dot shows what the tables in memory hold for its place on the
  scrolled picture, and in front of it the sprite that is in front.
- `StatusExact`, `CollisionsAhead`: the status registers tell of the frame what its rows had (too many sprites on
  a line and which is the first of them, a collision and its place), and no collision before the beam has passed it.
  `SharedDots` finds the collisions in the tables in memory, apart from what the engine does; in mode 2 the uppermost
  overlap is one of sprites with CC set, which is none.
- `RowsAsScanned`: every row of a finished frame shows the state at the moment the
  beam reached it, in spite of being drawn later.
- `CaptureComplete`: at every moment of a capture the ring, read round from its head, is the tail
  of the instructions that ran; the event logs hold every place an armed observer saw, once and in
  order; rows of the memory watch that were dropped are counted.
- `SettingsKept`: what the user wrote into the file by hand and the program accepts is in force at the
  next start and still there after it, as long as no write was cut; what was changed in a session is in the file after its frame.
- `ReplayExact`: every instruction of a replay sees the keys and the disk it saw in the recorded
  session, in the window program and headless, unless something went past the recorder; and at any
  moment of a replay the keys and the joystick are what all the events so far make them.

**Bounds and why they are enough.**

- *FDC geometry.* The controller treats all cylinders alike but the first and the
  last, all sectors alike but the last, and the bytes of a sector alike but the
  first and the last. One or two of each has every boundary; the proofs cover
  the real 80 x 2 x 9 x 512.
- *FDC cadence.* A byte per cycle and a revolution of two cycles bring every
  deadline of the chip within reach of every access: accesses can be early, in
  the very cycle, or late by more than a sector. `MaxTime` stops the clock;
  `LastAccess` is the last cycle in which the program starts something, so that
  time is left for it to end. `FdcFormat` needs no time: a format advances by the
  bytes it is given.
- *Disk list.* `MaxWrites = 1`: a copy of a disk is either as new as another or older, which
  is all the properties of the disk list compare. `Selections` and `CommandLines`
  have none, one and two files; in `Host` one of the two has not the size of a disk.
- *Battery files.* Two FM-PACs and a game are enough for every pair of slots; two
  writes of the games tell an old save from a new one and from none. Every image has
  a file of its own, or all share the one of the image loaded by default
  (`SaveOf`). The theorems need none of these bounds.
- *Sound queue.* Seven cycles for two samples is a rate at which the sample boundaries are
  rounded by different amounts; `MaxElapsed` is ten frames, and a reset starts it again.
- *Replay.* One key and a hand-written joystick, sessions of three instructions of one or two cycles and
  two events over frames of two cycles: an event can fall on, before and behind a frame start, and a
  frame can overrun its target. Each file is replayed in the window, as `Budget` frames with and without
  `--input-frame-start` and `SONY_MSX_HALT_BREAK`, and as `Budget` steps; scripts written by hand, in order
  and out of it, also with a shift. `told` marks the sessions in which something goes past the recorder (a
  reset, a swap from the menu, a repeat of a key whose press the menu took): these are replayed, but need not
  look like the session. The theorem needs none of these bounds.
- *Captures.* A ring of two entries wraps after the third instruction. The code limits the memory watch
  by the bytes of its file; `HeaderBytes` and `RowBytes` are its own, and the limit is reached after two rows.
- *Settings.* Two sessions of one change each: what one session writes the next one reads. The model has
  22 knobs, the names of the BIOS ROMs as one. The documents of `HandEdits` and `Legacies` and the command lines of `Flags` have knobs with
  values accepted, refused and absent, paths spelled relative and absolute, and ROMs that may be missing; a
  write is cut (`CutPoints`) at the start of the file or near its end.
- *CPU.* Operands at the ends of every carry (0, 1, 15, 16, 127, ...), every opcode of
  every prefix at least once (`AnyPrograms`), interrupts and NMIs at every boundary
  of programs of up to eleven steps.
- *Memory.* Each scene has one cartridge type with images of odd sizes (5, 6, 9, 70
  blocks) and bank values inside, at the end of and beyond the image.
- *Ports.* Two ticks a second keep the carries of the clock and lose nothing else; a
  scene reaches over four years, a leap day among them. `MaxUnread` is 59 days: a longer gap
  that crosses a leap day is folded with one leap flag by the code, which no running machine meets.
  The code would look up the length of month -1 (finding 5) before its table if a day ended in it; the
  model gives that month no length, and no scene has such a day. The keyboard and the speaker
  are reached by the 8255's ports and by their mirrors #AC-#AF; a joystick is read whatever was written to the PSG.
- *Sound.* Clock and sample rate of 7 and 2, up to nine cycles; registers that start and stop
  tones, noise, envelopes, waves and keys.
- *Pictures.* Every mode, lines at both ends of the scrolled page, each scroll register with a small
  and a large value; bytes that differ between pages. The streams of port accesses are
  up to six long, from addresses before the ends of 16K and of the memory.
- *Raster.* Both display heights, so that LN can change in the middle of a
  frame, and lines of the border on one side, as the code's frame has.
- *Commands.* The screen has two bytes or four in a line, pixels of one or two
  bits, and both ways of laying out VRAM; the blocks include NX of zero, a start
  off the line, both directions and overlapping copies. `MaxUnits` bounds the
  area of a transfer, `MaxAccesses` the writes that are neither units nor idle.
  What a unit of a command and a stolen slot take follows from the tables of the code (`UnitTime`,
  `SlotCost`, with `LineCycles` the length of a line).
  `MaxBusy` is never reached, since an access takes longer than the slot it steals.
  The proofs need none of these.

**Fairness.** `CommandsComeToEnd` assumes that time goes by (`Tick`), and that the
program goes on reading the status and data registers, as every disk routine
that waits for the end of a command does; no fairness is put on the writes
of data, so the program may stop anywhere. `MailboxFreed` assumes that the main loop
runs (`ShowDialog`, `DrainMailbox`); that SDL answers is not assumed. `HaltWakes` assumes that `run_one_frame`
is called again and again, the application's main loop; the user's actions have
no fairness. `CommandsComplete` assumes that the program goes on
running and serves the units TR asks for, as a program does that polls TR; a
program that stops in the middle of a transfer leaves CE raised, on the real
chip too.

## 4. The proofs

TLAPS checks every theorem from nothing; `PROJECT.json` lists those a reader
should know of.

- **`SonyFdcProofs`** has four layers.
  *The chip*: `TypeCorrect`, `BusyMeansRunning`, `TransfersBalance`, and
  `ChipIsConsistent`, which joins the last two. Busy and the byte counts are not
  inductive by themselves. The inductive invariant `IInv` adds that a phase, its
  command and its counters fit together (which phases a command can be in, where the
  buffer position may stand, which deadline is armed); `Wd2793Proofs` shows per chip
  operator that it keeps the chip's part, and per drive and image operator that it
  keeps theirs, and `SonyFdcProofs` puts the actions together.
  *A program's history*: `SectorsWrittenAsSent`, `SectorsReadAsStored`, `ChangesAreReported`.
  `HInv` joins to `IInv` that the bytes sent since the write began are the ones in the buffer up to its
  position (`WriteRecorded`), and that what the program got is the beginning of what the sector held
  when the read began (`ReadRecorded`), as long as no Lost Data was raised.
  *The abstract stream*: `InterfaceImplementsStream`, the refinement of `SectorStream`. Each action is a
  step of it or a stutter: a write begins, takes a byte, lays a sector, is given up, a format lays its track, the
  user changes the disk. The catch-up of `sync` can do two of these at once, to fill a sector up and
  to lay it, which the abstract step for a laid sector allows with zeros.
  *The twin*: `PollsAreInvisible`. `InStep` relates the chip of the code and the twin polled in every
  cycle: synchronised to the same cycle they are equal but for the position of the head-load timer, which no register shows
  (`ShownButHead`). What makes this inductive is that synchronising twice is synchronising once, later
  (`SyncTwice` of `Wd2793Proofs`, `ImageTwice` for the medium). It has one hypothesis, `SingleWrites`: no command is a Write Sector with
  the m bit. Without it the claim is false, and TLC shows why: which sector a multi-record
  write goes on with depends on when the end of the one before is noticed.
  Assumptions: the geometry fits in a byte (`GeometryAssumption`), a track is long enough for its
  sectors, a Restore pulses at least as often as there are tracks.
- **`MediaProofs`** has the disks and the battery files. Of the disks, `OwnFileOnly`, `NeverBehind`, their conjunction `DisksAreKept`,
  and `SavedOnLeaving`, for every set of files, selections and failures. `InStep` says that path list,
  current index, cache and binding agree, which is what keeps one disk's bytes
  out of another's file; `Ahead` that neither the cache nor the mounted image is
  older than the file; `BoundToItsFile` that a disk with write-back in the drive
  is bound to its file, so that the flush of whatever is bound saves it.
  The steps are taken on `MediaNext`, every operation with arguments of any kind, of which
  both the session of `DiskMedia` and the one with dialogs are a part. `MailboxInStep` (a dialog that is open,
  its answer and the directory string belong together) gives `DialogsStand`, and that what is
  drained from the mailbox is an operation of `MediaNext`: so `DialogsKeepDisks` and
  `DialogsSaveOnLeaving` follow without a second proof of the disk list.
  Of the battery files, `SavesStayWhole`, for every user and host, and
  `CarefulSavesComeBack`, for every set of images and number of writes. The first
  needs `SaveUnderWay`: a save is made for an FM-PAC that is in, to a path that is
  bound, and what is about to be renamed is complete. The second needs
  `CopiesInStep`: as long as nothing was refused, the FM-PAC that is in is the only
  one, the path is that of its file, and its RAM holds what the games wrote; every other one is
  in its file. `DoneAgrees` is the heart: whatever operation the save was made for
  then takes out nothing that is not in its file. The assumption is that no image is
  named as the absence of one (`AutoloadAssumption`).
- **`Hbf1xvProofs`**: the /INT line equals its sources and a
  request in the CPU is backed by the line (`InterruptLineIsExact`), a crossing of the
  match line is delivered at the end of the instruction that made it, unless
  that instruction reprogrammed the match, and nothing
  but a crossing raises it (`LinesExact`). `CacheExact` carries the
  argument: while the fingerprint of the cache equals its inputs, the cached
  moment is the first match strictly after the last poll. It needs
  `MachineAssumption`: an instruction is at most a line long, true of the Z80,
  whose longest instruction takes about a ninth of the 228 cycles of a line.
  And `MemoryIsMapped`, for every guest: `MapExact`, with images of any number of blocks and every
  address, value and order of selections, writes, resets and changes of cartridge. The invariant
  `MapInv` says of each device what keeps its places inside: a window shows blocks of its image or nothing
  (`Inside`), since a block number that is too large is folded with the mask and compared once more
  (`BlockInside`); Konami's pages and their mirrors are switched together (`Mirrors`); whatever opens the
  FM-PAC's battery RAM looks at both keys and at the enable register (`Keys`, `KeyedFits`). That a
  write changes one place is `WriteKeeps`, device by device (`CartridgeFits`, `HalnoteFits`), over the
  cells a map has. `ScenesAssumption` is its hypothesis: bytes, 16-bit addresses, and a cartridge of one of
  the eight types; `SegmentsAssumption` that there is a RAM segment.
  And `StreamsAreExact`, for every program of port accesses. Its invariant `Accounted` compares the account
  that a program keeps with the chip. The bytes it knows of are in the memory, each at its place (`AsStored`), also in
  the banks of the planar modes, where no two addresses share a byte (`PlanarOnce`); the pointer and R#14 make the
  address it writes next, or the one after that of the byte held ahead (`Streaming`), across the carry into
  R#14 or the wrap within 16K (`StepInMemory`, `StepInPage`); and the flags of the chip say which pairs it is
  in, with the latch holding their first byte unless another port has spoilt it (`Together`). `PortWriteKeeps` and
  `PortReadKeeps` go through the ports one by one. `VdpPortsAssumption` says that programs write bytes to ports there are,
  and that their screens fit in the memory.
- **`RenderSyncProofs`**: no watermark, row or sprite line lies outside its
  buffer whatever LN does (`TypeCorrect`), and `SinkInert`: the commit a command
  announces before each destination row never commits anything, because the
  port write that started or fed it has committed everything up to the beam in
  the same instant (`CommandCommitted` is the strengthening). `RowsScanned`, `SpritesOfRow` and
  `SealedOnce` are the frame as a whole: the invariant `Scanned` says that the rows below the watermark show what was
  there when the beam entered them, that those from the watermark to the one after the beam
  have not been changed since it did, so that drawing them now is as good, and that the sprite plane
  is checked exactly as far as the rows are drawn. The lines of a frame are taken from the cycle counter by
  integer division; `LinesOrdered` and `NextLine` are the facts about it.
- **`HostProofs`** has the parts of the host program.
  `PacerIsInStep`, for every pair of rates: the next sample of the mixer is the first whose boundary lies
  ahead (`Ahead`), so the samples made are those due, over any refill and reset.
  `RingIsTail` and `CaptureEndsWithTail`: `RingHolds` gives each slot of the ring the instruction it
  holds, by its distance from the head; whatever ends the capture, the file is written from there, before the ring is emptied.
  `CapturesAreComplete`: logs are compared with what ran by the rank of a place among the places that count.
  `ObserversOn` is what makes it inductive: whenever a feature is armed its observer is installed,
  although the two features share one and each takes it off as it ends.
  `SettingsAreKept`: the document, what the session read and what it wrote last agree knob by knob.
  Its assumptions (`SettingsAssumption`) say of which kind the values of the constants are.
- **`InputProofs`**: `ReplaysAreExact`, for any keys, lengths of frames and instructions, scripts, options and
  number of disks. The two programs meet in the file, and so do the two halves of `SessionInv`.
  Of the live session (`LiveTold`): no edge is recorded inside a frame, so each step saw the
  keys that the script makes at *any* time from the start of its frame to the end of the step (`SeenKeys`); the
  steps are chained by clock and frame (`Chained`); the disk is told by the one recorded swap (`SeenDisks`).
  The interval is what is needed: the players of the window and of the frames apply an
  edge at different moments of it. Closed or cut off, the file says the same (`RecordingTells`).
  Of the replay (`Replaying`, `Following`): the player has passed exactly the events that are due
  (`Player`), although it stops at the first late one, because the parser lets no stamp decrease; its clock, frame and disk are
  those the session had after as many steps. `SettledTwice` is the fact about `apply_due` that makes this
  inductive: to apply some events and then later ones is to apply them together. That the first late
  event is a least one is taken from the well-foundedness of < (`LeastOf`), so no induction over
  the script is needed. `InputAssumption` has every instruction take time, and the script's lines their kind.
- **`VdpCommandsProofs`**: `UnitsGoToTheirPlace`, `TransfersEndOnTime` and
  `WorkForTheBusy`, for every mode, parameter block, picture and order of
  accesses. The invariant (`TransferBookkeeping`) ties the engine's
  counters to the history of the job: after k units the next place is column
  k mod nx and row k div nx of the rectangle, and what is left of the row and of the
  rows makes up the rest. The rectangle is defined by counting the units whose way
  from the start stays on the line; `WidthIsClip` and `HeightIsClip` show that the
  clipping functions compute this count. Assumptions: VRAM holds the rows of
  each mode exactly, and a byte a whole number of pixels (`EngineAssumption`).

**Only model-checked**, each for its reason:

- `CommandsComeToEnd`, `MailboxFreed`, `HaltWakes` and `CommandsComplete` are liveness under
  fairness, which the prover cannot treat.
- `SoundExact`, `ClockExact` and `PortsExact` are about modules that reach a RECURSIVE operator (the
  chips' catching up, the folding of days), with which the prover loses its arithmetic.
- `OpcodesExact`, `InterruptsExact`, `PictureExact`, `StatusExact` and
  `CommandsExact` compare what is computed with a reference, case by case over concrete
  programs, screens and blocks: arithmetic on bits and bytes, or induction over pixels.
- `CollisionsAhead` is about the collisions a frame found, which are made by folding over its lines and
  by selecting from a sequence: what these leave is induction over data.

The modules the proofs rest on declare no RECURSIVE operator.

## 5. Findings

1. `DiskMediaReopen` / `SavesPersist` (code bug). `apply_open_disks` reads the
   chosen files before it flushes the outgoing disk. Choosing the mounted,
   written disk again mounts its old bytes, and the next flush writes them over
   the saved ones.
2. `LineInterruptLost` / `FiresAtFirstBoundary` (comment and code differ).
   The poll rebuilds its cache when R#9, R#19 or R#23 changed in any bit, and
   the rebuilt moment is strictly in the future: a write to R#9 that leaves LN
   alone, retired by the very instruction during which the beam enters the match
   line, loses the interrupt of that frame.
3. `FrameCapture` / `CaptureKeepsAccumulation` (code bug). `render_frame` in
   the middle of a frame, on the line of the last VDP write, asks the
   accumulator for fewer rows than are committed; the accumulator takes this for
   a wrapped frame and seals it, and all rows are redrawn from the state of the
   capture.
4. `GamesSaved` / `SavesSurvive` (code bug). `apply_open_cartridge` replaces the
   cartridge of a slot without the flush that `eject_cartridge` makes first: opening a
   game over an FM-PAC drops what was saved since the last flush.
5. `ClockSet` / `YearsByClock` (code bug). While a program sets the month digit by
   digit the registers can hold 00; `months_` is then 2^32 - 1, and the next tick
   carries 357913941 years into the year registers, which the program need not
   have set again.

Smaller divergences met while reading, with no run of their own:

- `wd2793.cpp:593-596`: the comment says that the zeros the buffer is filled with
  can no longer reach the disk; a sector the program abandons half way is
  completed by `sync` and laid on the disk.
- A line interrupt that falls due while the CPU is paused across a vertical
  sync is lost, since a paused step returns before the poll
  (`hbf1xv_machine.cpp:808-813`).
- A flush on exit does not look at the dirty flag, though the comment at
  `sdl3_app.cpp:1117` has it so; the ejected image keeps its host path and is
  flushed once more at the next open (`1845`); a file of odd size is bound for
  write-back by the toggle and by F11, which the check at `1735` is to prevent.
- `z80a_nmos_interrupt_unit_test.cpp:199`: the comment on EI;EI does not
  describe what the code does; the test's expectations do.
- A capture before the first write of a frame commits rows with the sprites of
  the previous frame; LN going from 212 to 192 lines in the middle of a frame can
  end the accumulation early (`RowsAsScanned` says so with `steady`).
- The blink phase advances at the vertical sync before the rest of the frame is drawn.
- `cartridge_fmpac_rom.cpp:250-258`: when the rename of the new SRAM file fails,
  the fallback removes the old file, tries again and, failing again, removes
  the new one too; the comment at 229-233 promises that a failure leaves the
  previous save. `SaveStaysWhole` excepts this removal.
- `sdl3_app.cpp:1087-1090`: the samples the frame loop made can lead the pacer's count
  by one, since the boundary of a sample is rounded down; `PacerFollowsClock` allows for it.
- `sdl3_app.cpp:905` records stamps from the machine's cycle counter, which a cold boot
  starts again; such a recording has decreasing stamps and is refused by the check at
  `651-652`. `ReplayExact` is about files that can be read.
- `sdl3_app.cpp:893-896`: a key press the menu swallowed is followed by its
  repeats, which reach the recorder without a press before them.
- `config_runtime.cpp:146-150` takes the path of the battery file from the settings when it
  differs from the default, but `sdl3_main.cpp:431-432` has made it absolute by then: it
  always differs, so with a project root all FM-PACs share `roms/fmpac.rom.sram`, where
  `sdl3_app.h:161-163` and `config_runtime.h:128-131` have each keep `<cart>.sram`.
  `BatteryFiles` follows both (`SaveOf`): what comes back is what the games wrote last to that file.
- `sdl3_app.cpp:2304-2307`: the deadline of a frame counts frames of the nominal length, with
  "no drift over any session length"; a frame really ends with its last instruction
  (`959-998`) and the next starts there, so the machine and its sound run ahead of the
  deadlines by part of an instruction a frame. The queue's limit absorbs it.
- `sdl3_app.cpp:2214-2218`: settings that cannot be written are tried again, with the
  warning, at every frame, not once per change; a write that fails after the open is
  taken for saved.
- `README.md:403-405` has hand edits of the settings survive; a BIOS directory or an FM-PAC
  image that is missing at a start is replaced by the standard one
  (`sdl3_main.cpp:453-469`), and the first frame saves that.
- `main.cpp:1656`: the headless program finalizes a capture that is still armed when it ends; the
  windowed program does not, neither when it quits nor at a power cycle, and the ring is lost.
- `hbf1xv_machine.cpp:1960` counts the rows of the memory watch as 48 bytes each, but a row is longer: the
  watch ends well before the `kMemWatchMaxRows` of `hbf1xv_machine.h:581`.
- `sdl3_app.cpp:2126-2135`: in full screen the scale that is saved is that of the display, over the one the
  user had chosen (`README.md:442` has the presentation come back as it was left).
- A power cycle puts the fast-disk switch back to its value at launch, and the next frame saves
  that; a muted volume is saved as 0 and its level is lost; a volume or BIOS folder given once on the
  command line is saved too.
- A settings file cut by a failing write has lost the knobs behind the cut at the next start, the hand-written ones among them.
- `sdl3_main.cpp:178`: JOY lines of a script have no joystick to act on in the windowed program.

## 6. What is not modelled

`PROJECT.json` has one entry per component with its reason.

- *Tools without state*: parsers, hashes, the software database, command
  lines, the disk-format utility. Pure functions of their input: unit tests reach them, and
  a model would repeat their tables.
- *Library shell*: windows, menus, event translation, presentation of video.
- *Of the sound*: the FM chip's phases, wave tables and sums, and the volume; nothing in
  the machine reads them back.
- *Of the VDP*: the blink phase as it changes from frame to frame and within one.

## 7. Plan

What would add most next is a composition in which the vertical sync of `Hbf1xv` drives `RenderSync`
and `VdpPorts` together; today each takes it from its own side.
