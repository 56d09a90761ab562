------------------------------ MODULE MCMachine ------------------------------
(***************************************************************************)
(* The machine without its disk interface and its command engine: the      *)
(* frame loop with its interrupts, the CPU, the memory map with its        *)
(* cartridges, the I/O ports, the sound and the ports and picture of the   *)
(* VDP, in small instances.  What connects them is a call that the model   *)
(* of each makes from its own side, so a behaviour follows one of them and *)
(* the variables of the others are at rest.                                *)
(***************************************************************************)
EXTENDS Hbf1xv, Z80Cpu, MemoryMap, IoPorts, Sound, VdpPorts, TLC

CONSTANT Focuses   \* the parts that are followed

VARIABLE focus

-----------------------------------------------------------------------------
(***************************************************************************)
(* Interrupts: a display of two to three lines under a border of two to    *)
(* three, two cycles a line.  The bits written are the real ones: IE1 is   *)
(* 16, IE0 is 32, LN is 128; R#9 = 2 is another bit of the register.       *)
(***************************************************************************)
AllOps == {"EI", "DI", "HALT", "RETN", "Other", "ReadStatus0", "ReadStatus1"}
InterruptWrites == {<<0, 16>>, <<0, 0>>, <<1, 32>>, <<1, 0>>,
                    <<19, 1>>, <<19, 255>>, <<23, 1>>, <<9, 128>>, <<9, 0>>}
LineWrites == {<<0, 16>>, <<9, 2>>, <<19, 1>>}

-----------------------------------------------------------------------------
(***************************************************************************)
(* Programs of the CPU, in a memory of few bytes.                          *)
(***************************************************************************)
\* bytes from address a on
Code(a, bytes) == [x \in a .. a + Len(bytes) - 1 |-> bytes[x - a + 1]]
Filled(a, n) == [x \in a .. a + n - 1 |-> 16 * (x % 16) + 3]
From256(mem) == [ResetZ80(mem) EXCEPT !.pc = 256, !.sp = 518]
Prog(kind, start, steps, requests) ==
  [kind |-> kind, cpu |-> start, steps |-> steps, requests |-> requests]

Operands == {0, 1, 15, 16, 127, 128, 129, 240, 255}
AccumulatorCases == {<<o, a, b, f>> : o \in {128, 136, 144, 152, 184}, a \in Operands, b \in Operands, f \in {{}, {FC}}}
ArithmeticPrograms ==
  {Prog("arithmetic", [From256(Code(256, <<t[1]>>)) EXCEPT !.g.a = t[2], !.g.b = t[3], !.g.f = t[4]], 1, {}) : t \in AccumulatorCases}
  \cup {Prog("arithmetic", [From256(Code(256, o)) EXCEPT !.g.a = a, !.g.f = f], 1, {}) :
          o \in {<<60>>, <<61>>, <<237, 68>>}, a \in Operands, f \in {{}, {FC}, {FN, FC}}}
  \cup {Prog("arithmetic", [SetPair(SetPair(From256(Code(256, <<237, o>>)), "hl", a), "de", b) EXCEPT !.g.f = f], 1, {}) :
          o \in {82, 90}, a \in {0, 1, 4095, 4096, 32767, 32768, 65535},
          b \in {0, 1, 4095, 32767, 32768, 65535}, f \in {{}, {FC}}}
DecimalBytes == {16 * t[1] + t[2] : t \in {0, 1, 4, 5, 9} \X {0, 1, 5, 6, 9}}
DecimalPrograms ==
  {Prog("decimal", [From256(Code(256, <<o, 39>>)) EXCEPT !.g.a = a, !.g.b = b, !.g.f = f], 2, {}) :
     o \in {128, 136, 144, 152}, a \in DecimalBytes, b \in DecimalBytes, f \in {{}, {FC}}}

AllRegisters(c) ==
  [c EXCEPT !.g = [a |-> 154, f |-> {FC, FZ}, b |-> 2, c |-> 6, d |-> 2, e |-> 8, h |-> 2, l |-> 1],
            !.s = [Zeroed EXCEPT !.a = 5], !.ix = 516, !.iy = 770, !.i = 1, !.r = 255, !.wz = 2080]
Scratch == Filled(512, 12)
NotIndexed == {203, 221, 237, 253, 235, 52, 53, 54, 118} \cup {112 + i : i \in 0 .. 7}
  \cup {70 + 8 * i : i \in 0 .. 7} \cup {134 + 8 * i : i \in 0 .. 7} \cup {217}
IndexedPrograms ==
  {Prog("indexed", AllRegisters(From256(Code(256, <<p, o, 4, 2>>) @@ Scratch)), 1, {}) :
     p \in {221, 253}, o \in Byte \ NotIndexed}
AnyCodes == {<<o, 4, 2>> : o \in Byte} \cup {<<203, o>> : o \in Byte} \cup {<<237, o, 4, 2>> : o \in Byte}
  \cup {<<221, o, 253, 2>> : o \in Byte} \cup {<<253, 203, 2, o>> : o \in Byte} \cup {<<221, 221, 253, 52, 0>>}
AnyPrograms == {Prog("any", AllRegisters(From256(Code(256, o) @@ Scratch)), 1, {}) : o \in AnyCodes}
HandlerCode == Code(56, <<251, 201>>)
BlockPrograms ==
  {Prog("block", [From256(Code(256, <<237, t[1], 118>>) @@ HandlerCode @@ Scratch)
        EXCEPT !.g.b = 0, !.g.c = t[4], !.g.d = 2, !.g.e = t[2], !.g.h = 2, !.g.l = t[3],
               !.g.a = 35, !.iff1 = TRUE, !.iff2 = TRUE, !.sp = 524], 11, {"int"}) :
       t \in {176, 177} \X {1, 2, 5} \X {0, 2, 3} \X {1, 3}}
Vectors == Code(767, <<56, 0>>) @@ Code(520, <<56, 0>>) @@ Code(735, <<56, 0>>)
HandlerPrograms ==
  {Prog("handler", [From256(Code(256, code) @@ HandlerCode @@ Code(8, <<251, 201>>) @@ Code(24, <<251, 201>>) @@ Vectors @@ Scratch)
         EXCEPT !.im = im, !.i = 2], 9, r) :
     code \in {<<251, 118, 24, 253>>, <<251, 0, 243, 24, 251>>}, im \in {1, 0, 2}, r \in {{"int"}, {"vector"}}}
NmiPrograms ==
  {Prog("nmi", [From256(Code(256, code) @@ HandlerCode @@ Code(102, <<0, 237, 69>>) @@ Scratch) EXCEPT !.iff1 = b, !.iff2 = b],
        9, {"int", "nmi"}) : code \in {<<251, 0, 243, 0>>, <<243, 118>>}, b \in BOOLEAN}
MCPrograms == ArithmeticPrograms \cup DecimalPrograms \cup IndexedPrograms \cup AnyPrograms \cup BlockPrograms \cup HandlerPrograms \cup NmiPrograms

-----------------------------------------------------------------------------
(***************************************************************************)
(* Cartridges in their slots, the main memory, the Halnote firmware.       *)
(***************************************************************************)
MCScene(slots, type, blocks, selects, writes, segments) ==
  [slots |-> slots, cart |-> <<type, blocks>>, selects |-> selects, writes |-> writes,
   segments |-> segments]
MCScenes == {
  MCScene({}, "Mirrored", {}, {0, 255, 51}, {<<65535, 9>>, <<65535, 201>>, <<49152, 9>>, <<16384, 5>>}, {0, 1, 5}),
  MCScene({"cart1"}, "Konami", {0, 4, 6, 40}, {0, 20}, {24576, 32768, 16384} \X {0, 3, 6, 200}, {0}),
  MCScene({"cart1"}, "KonamiSCC", {6, 70}, {20}, {<<36864, 63>>, <<36864, 1>>, <<38912, 5>>, <<45056, 7>>, <<39136, 64>>, <<20480, 9>>}, {0}),
  MCScene({"cart1"}, "Ascii8kB", {6}, {20}, {24576, 26624, 30720, 16384} \X {1, 7}, {0}),
  MCScene({"cart1"}, "Ascii16kB", {5, 6}, {20}, {24576, 28672, 26624, 32768} \X {1, 2, 3}, {0}),
  MCScene({"cart1"}, "Generic8kB", {5}, {20}, {16384, 32768, 0} \X {1, 4, 6}, {0}),
  MCScene({"cart1"}, "Generic16kB", {6}, {20}, {16384, 32768, 0} \X {1, 4, 2}, {0}),
  MCScene({"cart1", "cart2"}, "Mirrored", {3, 9}, {20, 85, 40}, {16384, 32768, 0, 49152} \X {1}, {0}),
  MCScene({"cart2"}, "FmPac", {2, 3, 6}, {40}, {<<24574, 77>>, <<24574, 1>>, <<24575, 105>>, <<32758, 16>>, <<32758, 1>>, <<32759, 3>>, <<16384, 9>>}, {0}),
  MCScene({}, "Mirrored", {}, {0}, {<<65535, 255>>, <<65535, 0>>, <<20479, 128>>, <<20479, 1>>, <<28671, 131>>, <<30719, 255>>, <<32767, 2>>, <<0, 5>>, <<36863, 127>>}, {0})}

-----------------------------------------------------------------------------
(***************************************************************************)
(* Ports.  A day has 86400 seconds.                                        *)
(***************************************************************************)
PScene(ports, steps, end, keys) ==
  [ports |-> ports, steps |-> steps, end |-> end, keys |-> keys, sets |-> FALSE]
In == -1
Day == 86400 * TicksPerSecond
MCPortScenes == {
  \* the clock: mode, gate, alarm, memory
  PScene({180} \X {13, 4} \cup {181} \X {0, 9, In} \cup {245} \X {0, 128}, {61}, 183, {}),
  PScene({180} \X {0} \cup {181} \X {In}, {59 * Day - 1, 59 * Day}, 1500 * Day, {}),
  PScene({180} \X {13, 2, 15} \cup {181} \X {9, 10, In}, {3}, 3, {}),
  \* keyboard, joystick and speaker
  PScene({170} \X {8, 128, In} \cup {171} \X {14, 15, 153} \cup {<<174, 7>>, <<175, 15>>, <<169, In>>, <<173, In>>},
         {1}, 1, {<<8, 0>>, <<7, 3>>}),
  PScene({160} \X {14, 15, 7} \cup {161} \X {64, 0} \cup {<<162, In>>}, {1}, 2, {<<8, 4>>}),
  \* the font, the S1985, the printer, the rest
  PScene({<<217, 63>>, <<218, 1>>, <<219, 63>>, <<217, In>>, <<219, In>>}, {}, 0, {}),
  PScene({64} \X {254, 1, In} \cup {65, 66} \X {17, In} \cup {70} \X {5} \cup {71} \X {129, In}, {}, 0, {}),
  PScene({144, 149} \X {0, 1, In} \cup {244} \X {32, 128, In} \cup {<<255, 5>>, <<255, In>>, <<1, 1>>, <<245, In>>}, {}, 0, {})}
\* A program sets the month, one digit after the other.
SettingClock ==
  {[PScene({180} \X {9, 10} \cup {181} \X {0, 1}, {1}, 2, {}) EXCEPT !.sets = TRUE]}

-----------------------------------------------------------------------------
(***************************************************************************)
(* Sound.                                                                  *)
(***************************************************************************)
MCPsgWrites == {<<0, 2>>, <<8, 15>>, <<8, 16>>, <<11, 1>>, <<13, 10>>, <<7, 56>>, <<7, 63>>, <<6, 1>>}
MCSccWrites == {<<128, 9>>, <<138, 3>>, <<143, 31>>, <<96, 100>>, <<224, 64>>, <<224, 34>>}
MCFmWrites == {<<14, 48>>, <<14, 0>>, <<38, 16>>, <<48, 16>>}
Guest(psg, scc, fm, click) == [psg |-> psg, scc |-> scc, fm |-> fm, click |-> click]
MCGuests == {Guest(MCPsgWrites, {}, {}, FALSE), Guest({<<7, 56>>, <<8, 15>>}, {}, {}, TRUE),
             Guest({}, MCSccWrites, {}, FALSE), Guest({}, {}, MCFmWrites, FALSE)}

-----------------------------------------------------------------------------
(***************************************************************************)
(* Ports and picture of the VDP.                                           *)
(***************************************************************************)
PortWrites(port, S) == {<<"write", port, b>> : b \in S}
PortReads(S) == {<<"read", port>> : port \in S}

\* Streams across the end of 16K and of the memory.
Streams ==
  {[regs |-> (0 :> r0 @@ 1 :> 64),
    vram |-> (0 :> 10 @@ 1 :> 11 @@ 16383 :> 12 @@ 16384 :> 13 @@ 114688 :> 14
              @@ 131070 :> 15 @@ 131071 :> 16),
    steps |-> PortWrites(0, {5}) \cup PortWrites(1, {255, 127, 63, 142}) \cup PortReads({0}), length |-> 6] :
   r0 \in {0, 6, 10}}

\* The mode is switched between planar and not, in a stream.
Switches ==
  {[regs |-> (0 :> 6 @@ 1 :> 64), vram |-> (0 :> 10 @@ 1 :> 11),
    steps |-> PortWrites(0, {5}) \cup PortWrites(1, {10, 0, 64, 128}) \cup PortReads({0}), length |-> 6]}

\* Pairs of all kinds, with reads between them.
Pairs ==
  {[regs |-> (15 :> 0 @@ 17 :> r17), vram |-> <<>>,
    steps |-> PortWrites(0, {5}) \cup PortWrites(1, {3, 144}) \cup PortWrites(2, {0, 119}) \cup PortWrites(3, {1})
              \cup PortReads({0, 1}),
    length |-> 5] : r17 \in {15, 16, 144}}

\* Sprites: their attribute table is at 256 or, for mode 2, the colours are at
\* 0 and the rest at 512; the patterns are at 2048.
Entry(a, y, x, p, c) == a :> y @@ (a + 1) :> x @@ (a + 2) :> p @@ (a + 3) :> c
Patterns == [a \in 2048 .. 2095 |-> IF a % 3 = 0 THEN 129 ELSE 24]
Mode1Table ==
  Entry(256, 4, 10, 0, 1) @@ Entry(260, 6, 14, 1, 2) @@ Entry(264, 7, 30, 0, 128 + 3)
  @@ Entry(268, 9, 250, 1, 0) @@ Entry(272, 9, 12, 0, 4) @@ Entry(276, 8, 250, 1, 5)
  @@ Entry(280, 208, 0, 0, 0)
\* A line with too many is found after a lower one with too many.
CrowdedTable ==
  [a \in 256 .. 295 |-> <<IF a < 276 THEN 20 ELSE 13, 5 * (a % 40), 0, 1>>[(a % 4) + 1]]
  @@ Entry(296, 208, 0, 0, 0)
\* The uppermost overlap is one of sprites with CC set; the next one is not.
Mode2Table ==
  [a \in 0 .. 175 |-> <<1, 66, 4, 32 + 9, 128 + 2, 0, 67, 8, 6, 7, 69>>[(a \div 16) + 1]]
  @@ [a \in 512 .. 555 |-> <<3, 10, 0, 0, 4, 12, 4, 0, 5, 14, 0, 0>>[(a % 12) + 1]]
  @@ Entry(556, 216, 0, 0, 0)
SpriteScene(r0, r1, r8, table, r17, bytes) ==
  [regs |-> (0 :> r0 @@ 1 :> r1 @@ 5 :> (IF table = Mode2Table THEN 7 ELSE 2) @@ 6 :> 1
             @@ 8 :> r8 @@ 15 :> 0 @@ 17 :> r17),
   vram |-> table @@ Patterns,
   steps |-> PortWrites(3, bytes) \cup PortReads({1})
             \cup {<<"vsync">>, <<"beam", 9>>, <<"beam", 12>>, <<"beam", 20>>}, length |-> 5]
SpriteScenes ==
  {SpriteScene(0, r1, 0, Mode1Table, 143, {0, 5}) : r1 \in {64, 67}}
  \cup {SpriteScene(0, 64, 32, Mode1Table, 136, {2, 32}), SpriteScene(0, 64, 0, CrowdedTable, 143, {0})}
  \cup {SpriteScene(r0, 65, 0, Mode2Table, 143, {0, 3}) : r0 \in {6, 10}}

\* Pictures, of every mode and under every kind of scrolling.
SomeBytes(S) == [a \in S |-> (a * 7 + a \div 5) % 256]
DrawScene(r, table, lines, length) ==
  [regs |-> r, vram |-> table,
   steps |-> {<<"vsync">>} \cup {<<"draw", l, f>> : l \in lines, f \in {"Even", "Odd"}},
   length |-> length]
BitmapRows ==
  SomeBytes({p + a : p \in {0, 32768, 65536, 98304}, a \in {0, 1, 2, 3, 30, 63, 64, 66, 96, 97, 125, 127}})
  @@ SomeBytes({p + a : p \in {0, 65536}, a \in {129, 200, 253, 255}})
Bitmaps ==
  {DrawScene(0 :> m[1] @@ 1 :> 64 @@ 2 :> r2 @@ 5 :> 239 @@ 7 :> 7 @@ 8 :> 10 @@ 9 :> 4 @@ 11 :> 1
             @@ 23 :> 250 @@ 25 :> m[2] @@ 26 :> s[1] @@ 27 :> s[2], BitmapRows, {6}, 1) :
     m \in {<<6, 0>>, <<8, 1>>, <<10, 2>>, <<14, 3>>, <<14, 9>>, <<14, 25>>},
     r2 \in {31, 63, 127}, s \in {<<0, 0>>, <<3, 5>>, <<63, 1>>}}
Characters ==
  {DrawScene(0 :> m[1] @@ 1 :> m[2] @@ 2 :> 0 @@ 3 :> 255 @@ 4 :> 3 @@ 7 :> 30 @@ 12 :> 5
             @@ 13 :> 240 @@ 23 :> 3 @@ 26 :> 2, SomeBytes({23 * a : a \in 0 .. 100}), {0, 70}, 1) :
     m \in {<<0, 64>>, <<0, 80>>, <<4, 80>>, <<2, 64>>, <<4, 64>>, <<0, 72>>, <<2, 80>>, <<0, 0>>}}
SpritePictures ==
  {DrawScene(0 :> m @@ 1 :> 65 @@ 5 :> 7 @@ 6 :> 1 @@ 2 :> 31 @@ 7 :> 7 @@ 8 :> r8, Mode2Table @@ Patterns,
             {7, 10}, 2) : m \in {6, 8, 10, 14}, r8 \in {0, 32}}
  \cup {DrawScene(1 :> 65 @@ 2 :> 16 @@ 5 :> 2 @@ 6 :> 1 @@ 8 :> r8, Mode1Table @@ Patterns, {7, 10}, 2) :
          r8 \in {0, 32}}
MCScreens == Streams \cup Switches \cup Pairs \cup SpriteScenes \cup Bitmaps \cup Characters \cup SpritePictures

-----------------------------------------------------------------------------
machine_vars == <<vars, z80_vars, map_vars, io_vars, snd_vars, video_vars, focus>>

\* A part at rest has a value that is no state of it; there a guest does
\* nothing.
AtRest == <<"at rest">>
ScreenAtRest == [steps |-> {}, left |-> 0]
SceneAtRest == [writes |-> {}]
MapAtRest == BlankMap(SceneAtRest)
MachineInit ==
  /\ focus \in Focuses
  /\ Init
  /\ IF focus = "cpu" THEN Z80Init
     ELSE z80 = AtRest /\ z80_program = AtRest /\ z80_left = AtRest
  /\ IF focus = "memory" THEN MapInit
     ELSE map = MapAtRest /\ scene = SceneAtRest /\ wrote = NoWriteYet
  /\ IF focus = "ports" THEN IoInit ELSE io = AtRest
  /\ IF focus = "sound" THEN SoundInit ELSE snd = AtRest
  /\ IF focus = "screen" THEN VdpInit ELSE video = ScreenAtRest

MachineNext ==
  /\ \/ /\ focus = "interrupts" /\ Next
        /\ UNCHANGED <<z80_vars, map_vars, io_vars, snd_vars, video_vars>>
     \/ /\ focus = "cpu" /\ Z80Next
        /\ UNCHANGED <<vars, map_vars, io_vars, snd_vars, video_vars>>
     \/ /\ focus = "memory" /\ MapNext
        /\ UNCHANGED <<vars, z80_vars, io_vars, snd_vars, video_vars>>
     \/ /\ focus = "ports" /\ IoNext
        /\ UNCHANGED <<vars, z80_vars, map_vars, snd_vars, video_vars>>
     \/ /\ focus = "sound" /\ SoundNext
        /\ UNCHANGED <<vars, z80_vars, map_vars, io_vars, video_vars>>
     \/ /\ focus = "screen" /\ VdpNext
        /\ UNCHANGED <<vars, z80_vars, map_vars, io_vars, snd_vars>>
  /\ UNCHANGED focus

\* The fairness of Hbf1xv: the frame loop goes on.
MachineSpec ==
  MachineInit /\ [][MachineNext]_machine_vars /\ WF_vars(focus = "interrupts" /\ LoopStep)

-----------------------------------------------------------------------------
\* Instructions do what their opcodes say: the flags tell what happened to
\* the numbers, DAA leaves the decimal result, and DD and FD make every
\* opcode the same operation on IX or IY (z80a_cpu.cpp).
OpcodesExact == focus = "cpu" => FlagsTellResult /\ DecimalExact /\ IndexIsHL

\* Interrupts come at any boundary and change nothing of what they
\* interrupt: block instructions resume, handlers do not nest, RETN gives
\* back what the NMI found (z80a_cpu.cpp, Z80aCpu::step).
InterruptsExact == focus = "cpu" => BlocksResume /\ HandlersDoNotNest /\ EnablesAgree

\* The clock chip shows the time of its ticks however rarely it is read and
\* however mode and gate are switched in between (rp5c01.cpp).
ClockExact == focus = "ports" => RtcTellsTime

\* The ports keep what the user and the guest put in: the speaker follows
\* bit 7 through every way of writing it, the Kanji counter stays in its
\* glyph, the rows of the matrix show the keys as they are held and the PSG's
\* port A the joystick (ppi_8255.cpp with its mirrors, kanji_font_rom.cpp,
\* keyboard_matrix.cpp, psg_ym2149.cpp, joystick.cpp).
PortsExact == focus = "ports" => SpeakerIsBit7 /\ KanjiInGlyph /\ KeysAsHeld

\* The samples that are made lazily, a frame or an instruction late, are
\* those of chips that run along with every cycle, and the notes of the FM
\* chip sound while their keys are down (psg_ym2149.cpp, click_dac.cpp,
\* scc_wavetable.cpp, ym2413_opll.cpp).
SoundExact ==
  focus = "sound" => SoundTypeOK /\ SamplesExact /\ SplitInvisible /\ NotesFollowKeys

\* A row shows what the memory holds for it, under every kind of scrolling,
\* and the sprite in front (vdp_frame_renderer.cpp).
PictureExact == focus = "screen" => PictureAsStored /\ FrontSpriteShown

\* S#0 says of the frame what its rows had: the fifth or ninth sprite, a
\* collision since it was read (sprite_engine.cpp).
StatusExact == focus = "screen" => FrameStatusExact
=============================================================================
