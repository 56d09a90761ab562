---------------------------- MODULE Wd2793Proofs ----------------------------
(***************************************************************************)
(* The controller keeps its state sound: a chip record of the right type,  *)
(* Busy set exactly while a command runs, and the bytes done and left of a *)
(* transfer adding up to its length.  One lemma per operation of the chip. *)
(***************************************************************************)
EXTENDS Wd2793, FiniteSetTheorems, SequenceTheorems, TLAPS

(***************************************************************************)
(* Lemmas about the image and the drive: what their operators return for   *)
(* every geometry and every rotation speed.                                *)
(***************************************************************************)
\* synthesize and the zero fill of a sector buffer: a sector of zeros is a
\* sector and a byte sequence of its length.
LEMMA ZeroSectorType ==
  /\ ZeroSector \in Sector
  /\ ZeroSector \in Seq(Byte)
  /\ Len(ZeroSector) = SectorSize
  BY GeometryAssumption DEF ZeroSector, Sector, Byte

\* A sector is a byte sequence of SectorSize bytes, and the other way round
\* (the 512-byte buffers of read_sector and write_sector_at).
LEMMA SectorIsSequence ==
  ASSUME NEW s \in Sector
  PROVE  s \in Seq(Byte) /\ Len(s) = SectorSize
  BY GeometryAssumption DEF Sector

\* As many bytes as a sector has are a sector.
LEMMA SequenceIsSector ==
  ASSUME NEW s \in Seq(Byte), Len(s) = SectorSize
  PROVE  s \in Sector
  BY LenProperties DEF Sector

\* chs_to_lba maps a valid address to a sector of the image: no access of
\* read_chs or write_chs leaves it.
LEMMA ChsInRange ==
  ASSUME NEW track \in Track, NEW side \in Side, NEW sector \in 1 .. SectorsPerTrack
  PROVE  ChsToLba(track, side, sector) \in Lba
<1> DEFINE spt == SectorsPerTrack
           ts == track * 2 + side
<1>1. spt \in Nat /\ spt > 0 /\ Tracks \in Nat  BY GeometryAssumption
<1>2. ts \in 0 .. Tracks * 2 - 1  BY <1>1 DEF Track, Side
<1>3. ts * spt \in Nat /\ ts * spt <= (Tracks * 2 - 1) * spt
  <2> HIDE DEF ts, spt
  <2>1. \A a, b, c \in Nat : a <= b => a * c \in Nat /\ b * c \in Nat /\ a * c <= b * c
    OBVIOUS
  <2>2. Tracks * 2 - 1 \in Nat  BY <1>1, <1>2
  <2> QED BY <1>1, <1>2, <2>1, <2>2
<1>4. (Tracks * 2 - 1) * spt = Tracks * 2 * spt - spt
  <2> HIDE DEF spt
  <2> QED BY <1>1
<1>5. Tracks * 2 * spt \in Nat
  <2> HIDE DEF spt
  <2> QED BY <1>1
<1>6. ts * spt + (sector - 1) \in 0 .. Tracks * 2 * spt - 1
  <2> HIDE DEF ts
  <2> QED BY <1>1, <1>3, <1>4, <1>5
<1> QED BY <1>6 DEF ChsToLba, Lba, TotalSectors

\* The lemmas that follow give the type of each operator.
LEMMA SectorUnderHeadType ==
  ASSUME NEW d \in Drive, NEW i \in Image, NEW sector \in 1 .. SectorsPerTrack
  PROVE  SectorUnderHead(d, i, sector) \in Sector
<1>1. d.physical_track \in Track /\ d.side \in Side  BY DEF Drive
<1>2. ChsToLba(d.physical_track, d.side, sector) \in Lba  BY <1>1, ChsInRange
<1> QED BY <1>2 DEF SectorUnderHead, ReadChs, Image

\* A sector write leaves an image.
LEMMA WriteSectorAtType ==
  ASSUME NEW d \in Drive, NEW i \in Image, NEW track, NEW side, NEW sector,
         NEW bytes \in Sector
  PROVE  WriteSectorAt(d, i, track, side, sector, bytes) \in Image
<1>1. \A a : [i EXCEPT !.data[a] = bytes, !.dirty = TRUE] \in Image  BY DEF Image
<1> QED BY <1>1, Zenon DEF WriteSectorAt, WriteChs

\* Motor, head and change latch keep a drive a drive.
LEMMA MechanismType ==
  ASSUME NEW d \in Drive, NEW t \in Nat
  PROVE  /\ ResetDrive(d) \in Drive
         /\ \A on \in BOOLEAN : SetMotor(d, on, t) \in Drive
         /\ \A inward \in BOOLEAN : StepHead(d, inward) \in Drive
         /\ TakeDiskChanged(d) \in Drive
         /\ CyclesUntilIndexPulse(t) \in Nat
<1>1. ResetDrive(d) \in Drive
  <2>1. 0 \in Track /\ 0 \in Side  BY GeometryAssumption DEF Track, Side
  <2> QED BY <2>1 DEF ResetDrive, Drive
<1>2. ASSUME NEW on \in BOOLEAN  PROVE SetMotor(d, on, t) \in Drive
  <2>1. t + MotorOffCycles \in Nat  BY RotationAssumption
  <2> QED BY <2>1 DEF SetMotor, Drive
<1>3. ASSUME NEW inward \in BOOLEAN  PROVE StepHead(d, inward) \in Drive
  <2>1. d.physical_track \in Track  BY DEF Drive
  <2>2. \A n \in Track : [d EXCEPT !.physical_track = n] \in Drive  BY DEF Drive
  <2>3. (IF d.physical_track < Tracks - 1 THEN d.physical_track + 1 ELSE d.physical_track) \in Track
    BY <2>1, GeometryAssumption DEF Track
  <2>4. (IF d.physical_track > 0 THEN d.physical_track - 1 ELSE d.physical_track) \in Track
    BY <2>1, GeometryAssumption DEF Track
  <2> QED BY <2>2, <2>3, <2>4 DEF StepHead
<1>4. TakeDiskChanged(d) \in Drive  BY DEF TakeDiskChanged, Drive
<1>5. CyclesUntilIndexPulse(t) \in Nat
  BY RotationAssumption DEF CyclesUntilIndexPulse
<1> QED BY <1>1, <1>2, <1>3, <1>4, <1>5

\* The next sector comes round after a number of cycles.
LEMMA LatencyType ==
  ASSUME NEW d \in Drive, NEW k \in Int, NEW t \in Nat
  PROVE  CyclesUntilSectorId(d, k, t) \in Nat
<1>1. IndexPeriod \in Nat /\ IndexPeriod > 0 /\ SectorsPerTrack \in Nat /\ SectorsPerTrack > 0
  BY RotationAssumption, GeometryAssumption
<1>2. (k * IndexPeriod) \in Int  BY <1>1
<1>3. ((k * IndexPeriod) \div SectorsPerTrack) \in Int  BY <1>1, <1>2
<1>4. (t % IndexPeriod) \in Int  BY <1>1
<1>5. \A a, b \in Int : (a + IndexPeriod - b) % IndexPeriod \in Nat  BY <1>1
<1> QED BY <1>3, <1>4, <1>5 DEF CyclesUntilSectorId

-----------------------------------------------------------------------------
Balanced(f) ==
  /\ f.phase \in {"ReadSector", "WriteSector"} =>
       /\ f.data_available > 0
       /\ f.data_index + f.data_available = SectorSize
       /\ Len(f.buffer) = SectorSize
  /\ f.phase \in {"ReadAddress", "ReadTrack"} =>
       /\ f.data_available > 0
       /\ f.data_index + f.data_available = Len(f.buffer)
  /\ f.phase = "WriteTrack" => f.data_available > 0

Sound(f, fast) ==
  /\ f \in Chip
  /\ f.fast_disk = fast
  /\ "Busy" \in f.status <=> f.phase # "Idle"
  /\ Balanced(f)

(***************************************************************************)
(* Arithmetic of the chip's times and registers.                           *)
(***************************************************************************)
LEMMA WrapType == \A n \in Int : Wrap(n) \in Byte
  BY GeometryAssumption DEF Wrap, Byte

\* The numbers the registers are set to are bytes.
LEMMA ByteConstants ==
  /\ 0 \in Byte /\ 1 \in Byte /\ 2 \in Byte /\ ByteRange - 1 \in Byte
  /\ Track \subseteq Byte /\ Side \subseteq Byte
  /\ 1 .. SectorsPerTrack \subseteq Byte
  /\ 0 \in Track /\ 0 \in Side
  BY GeometryAssumption DEF Byte, Track, Side

\* All delays are numbers of cycles.
LEMMA CycleTypes ==
  ASSUME NEW f \in Chip
  PROVE  /\ ByteCycles(f) \in Nat /\ HeaderCycles(f) \in Nat
         /\ ReadStartCycles(f) \in Nat /\ Settle(f) \in Nat
         /\ FirstByteWindow \in Nat
         /\ \A cmd \in Command : StepRate(f, cmd) \in Nat
<1>1. ByteCycles(f) \in Nat  BY ChipAssumption DEF ByteCycles
<1>2. FastHeaderBytes * FastCyclesPerByte \in Nat /\ HeaderBytes * CyclesPerByte \in Nat
  BY ChipAssumption
<1>3. HeaderCycles(f) \in Nat  BY <1>2 DEF HeaderCycles
<1>4. ReadStartCycles(f) \in Nat  BY <1>1 DEF ReadStartCycles
<1>5. Settle(f) \in Nat /\ FirstByteWindow \in Nat
  BY ChipAssumption, RotationAssumption DEF Settle, FirstByteWindow
<1>6. ASSUME NEW cmd \in Command  PROVE StepRate(f, cmd) \in Nat
  <2>1. cmd.rate \in 0 .. 3  BY DEF Command
  <2> QED BY <2>1, ChipAssumption DEF StepRate
<1> QED BY <1>1, <1>3, <1>4, <1>5, <1>6

\* The first byte is asked for at some cycle.
LEMMA FirstDrqType ==
  ASSUME NEW f \in Chip, NEW d \in Drive, NEW t \in Nat
  PROVE  FirstDrq(f, d, t) \in Nat
<1>1. f.sector_reg - 1 \in Int  BY GeometryAssumption DEF Chip, Byte
<1>2. CyclesUntilSectorId(d, f.sector_reg - 1, t) \in Nat  BY <1>1, LatencyType
<1> QED BY <1>2, CycleTypes DEF FirstDrq

(***************************************************************************)
(* Commands that end and sector transfers that begin, go on and end.       *)
(***************************************************************************)
LEMMA EndCommandSound ==
  ASSUME NEW f \in Chip, NEW t \in Nat
  PROVE  Sound(EndCommand(f, t), f.fast_disk)
<1>1. EndCommand(f, t) \in Chip  BY DEF EndCommand, Chip, Phase
<1>2. /\ EndCommand(f, t).fast_disk = f.fast_disk
      /\ EndCommand(f, t).phase = "Idle"
      /\ "Busy" \notin EndCommand(f, t).status
  BY DEF EndCommand, Chip
<1> QED BY <1>1, <1>2 DEF Sound, Balanced

\* A command that fails ends: the chip is idle.
LEMMA FailSound ==
  ASSUME NEW f \in Chip, NEW bit \in StickyBits, NEW t \in Nat
  PROVE  Sound(Fail(f, bit, t), f.fast_disk)
<1> DEFINE g == [f EXCEPT !.status = @ \cup {bit}]
<1>1. g \in Chip /\ g.fast_disk = f.fast_disk  BY DEF Chip
<1> QED BY <1>1, EndCommandSound DEF Fail

\* A sector read begins with a full buffer, or fails.
LEMMA BeginReadSectorSound ==
  ASSUME NEW f \in Chip, NEW d \in Drive, NEW i \in Image, NEW t \in Nat
  PROVE  Sound(BeginReadSector(f, d, i, t), f.fast_disk)
<1>1. CASE CanRead(d, f.sector_reg)
  <2> DEFINE s == SectorUnderHead(d, i, f.sector_reg)
             g == BeginReadSector(f, d, i, t)
  <2>1. f.sector_reg \in 1 .. SectorsPerTrack
    BY <1>1, GeometryAssumption DEF CanRead, ValidChs, Chip, Byte
  <2>2. s \in Seq(Byte) /\ Len(s) = SectorSize
    BY <2>1, SectorUnderHeadType, SectorIsSequence
  <2>3. FirstDrq(f, d, t) \in Nat /\ SectorSize \in Nat /\ SectorSize > 0
    BY FirstDrqType, GeometryAssumption
  <2> HIDE DEF s
  <2>4. g = [f EXCEPT !.buffer = s, !.data_index = 0, !.data_available = SectorSize,
                      !.drq_deadline = FirstDrq(f, d, t),
                      !.phase = "ReadSector", !.status = @ \cup {"Busy"}]
    BY <1>1 DEF BeginReadSector, s
  <2> HIDE DEF g
  <2>5. g \in Chip  BY <2>2, <2>3, <2>4 DEF Chip, Phase, StickyBits
  <2>6. /\ g.fast_disk = f.fast_disk /\ g.phase = "ReadSector" /\ "Busy" \in g.status
        /\ g.data_index = 0 /\ g.data_available = SectorSize /\ g.buffer = s
    BY <2>4 DEF Chip
  <2>7. Balanced(g)  BY <2>2, <2>3, <2>6 DEF Balanced
  <2> QED BY <2>5, <2>6, <2>7 DEF Sound, g
<1>2. CASE ~CanRead(d, f.sector_reg)
  <2> DEFINE g == [f EXCEPT !.buffer = ZeroSector]
  <2>1. g \in Chip /\ g.fast_disk = f.fast_disk  BY ZeroSectorType DEF Chip
  <2>2. "NotFound" \in StickyBits  BY DEF StickyBits
  <2> QED BY <1>2, <2>1, <2>2, FailSound DEF BeginReadSector
<1> QED BY <1>1, <1>2

\* The fields a transfer starts with are of their types.
LEMMA TransferFieldsType ==
  ASSUME NEW f \in Chip, NEW phase \in Phase, NEW size \in Nat, NEW drq \in Nat, NEW check \in Nat
  PROVE  [f EXCEPT !.data_index = 0, !.data_available = size,
                   !.drq_deadline = drq, !.write_check_deadline = check,
                   !.phase = phase, !.status = @ \cup {"Busy"}] \in Chip
  BY DEF Chip, StickyBits

\* A sector write begins with all its bytes to come, or fails.
LEMMA BeginWriteSectorSound ==
  ASSUME NEW f \in Chip, NEW d \in Drive, NEW t \in Nat
  PROVE  Sound(BeginWriteSector(f, d, t), f.fast_disk)
<1> DEFINE g == BeginWriteSector(f, d, t)
           drq == FirstDrq(f, d, t)
           check == drq + FirstByteWindow
<1>1. drq \in Nat /\ check \in Nat  BY FirstDrqType, CycleTypes
<1>2. SectorSize \in Nat  BY GeometryAssumption
<1>3. d.physical_track \in Track /\ d.side \in Side  BY DEF Drive
<1> HIDE DEF drq, check
<1>4. g \in Chip
  <2> DEFINE h == [f EXCEPT !.write_sector_num = f.sector_reg,
                            !.write_track_num = d.physical_track, !.write_side = d.side,
                            !.buffer = ZeroSector]
  <2>1. h \in Chip  BY <1>3, ZeroSectorType DEF Chip
  <2>2. g = [h EXCEPT !.data_index = 0, !.data_available = SectorSize,
                      !.drq_deadline = drq, !.write_check_deadline = check,
                      !.phase = "WriteSector", !.status = @ \cup {"Busy"}]
    BY DEF BeginWriteSector, drq, check, Chip
  <2>3. "WriteSector" \in Phase  BY DEF Phase
  <2> HIDE DEF g, h
  <2> QED BY <1>1, <1>2, <2>1, <2>2, <2>3, TransferFieldsType, Zenon
<1>5. /\ g.fast_disk = f.fast_disk /\ g.phase = "WriteSector" /\ "Busy" \in g.status
      /\ g.data_index = 0 /\ g.data_available = SectorSize /\ g.buffer = ZeroSector
  BY DEF BeginWriteSector, Chip
<1>6. Balanced(g)
  <2> HIDE DEF g
  <2> QED BY <1>5, GeometryAssumption, ZeroSectorType DEF Balanced
<1> HIDE DEF g
<1> QED BY <1>4, <1>5, <1>6 DEF Sound, g

\* The next sector of a multi-record command is a byte again.
LEMMA NextSectorType ==
  ASSUME NEW f \in Chip
  PROVE  NextSector(f) \in Chip /\ NextSector(f).fast_disk = f.fast_disk
<1>1. f.sector_reg \in Byte  BY DEF Chip
<1>2. f.sector_reg + 1 \in Int  BY <1>1, GeometryAssumption DEF Byte
<1>3. Wrap(f.sector_reg + 1) \in Byte  BY <1>2, WrapType, Zenon
<1> QED BY <1>3 DEF NextSector, Chip

\* After its last byte a read ends or begins the next sector.
LEMMA FinishReadSectorSound ==
  ASSUME NEW f \in Chip, NEW d \in Drive, NEW i \in Image, NEW t \in Nat
  PROVE  Sound(FinishReadSector(f, d, i, t), f.fast_disk)
  BY NextSectorType, EndCommandSound, BeginReadSectorSound DEF FinishReadSector

\* After its last byte a write ends or begins the next sector.
LEMMA FinishWriteSectorSound ==
  ASSUME NEW f \in Chip, NEW d \in Drive, NEW t \in Nat
  PROVE  Sound(FinishWriteSector(f, d, t), f.fast_disk)
  BY NextSectorType, EndCommandSound, BeginWriteSectorSound DEF FinishWriteSector

(***************************************************************************)
(* Bytes that go into the sector under way.                                *)
(***************************************************************************)
\* A running Write Sector has room at data_index.
LEMMA WritePosition ==
  ASSUME NEW f \in Chip, Balanced(f), f.phase = "WriteSector"
  PROVE  /\ f.data_index + 1 \in 1 .. Len(f.buffer)
         /\ f.data_index + 1 \in Nat
         /\ f.data_available - 1 \in Nat
         /\ Len(f.buffer) = SectorSize
         /\ f.data_index + f.data_available = SectorSize
         /\ f.buffer \in Seq(Byte)
<1>1. f.data_index \in Nat /\ f.data_available \in Nat /\ f.buffer \in Seq(Byte)  BY DEF Chip
<1>2. f.data_available > 0 /\ f.data_index + f.data_available = SectorSize
      /\ Len(f.buffer) = SectorSize
  BY DEF Balanced
<1> QED BY <1>1, <1>2

\* The fields a byte of a write changes are of their types.
LEMMA CommitFieldsType ==
  ASSUME NEW f \in Chip, NEW b \in Seq(Byte), NEW k \in Nat, NEW n \in Nat, NEW drq \in Nat
  PROVE  [f EXCEPT !.buffer = b, !.data_index = k, !.data_available = n,
                   !.drq_deadline = drq] \in Chip
  BY DEF Chip

\* A byte that is committed leaves one less to come.
LEMMA CommitByteSound ==
  ASSUME NEW f, NEW fast, Sound(f, fast), f.phase = "WriteSector",
         NEW d \in Drive, NEW v \in Byte, NEW t \in Nat
  PROVE  Sound(CommitByte(f, d, v, t), fast)
<1> DEFINE b == [f.buffer EXCEPT ![f.data_index + 1] = v]
           k == f.data_index + 1
           n == f.data_available - 1
           drq == t + ByteCycles(f)
           g == [f EXCEPT !.buffer = b, !.data_index = k, !.data_available = n,
                          !.drq_deadline = drq]
<1>1. f \in Chip /\ f.fast_disk = fast /\ Balanced(f) /\ "Busy" \in f.status
  BY DEF Sound
<1>2. /\ k \in 1 .. Len(f.buffer) /\ k \in Nat /\ n \in Nat
      /\ Len(f.buffer) = SectorSize /\ k + n = SectorSize /\ f.buffer \in Seq(Byte)
  <2>1. f.data_index \in Nat /\ f.data_available \in Nat  BY <1>1 DEF Chip
  <2>2. /\ k \in 1 .. Len(f.buffer) /\ k \in Nat /\ n \in Nat /\ Len(f.buffer) = SectorSize
        /\ f.data_index + f.data_available = SectorSize /\ f.buffer \in Seq(Byte)
    BY <1>1, WritePosition
  <2> QED BY <2>1, <2>2
<1>3. b \in Seq(Byte) /\ Len(b) = SectorSize  BY <1>2, ExceptSeq
<1>4. drq \in Nat  BY <1>1, CycleTypes
<1>5. CommitByte(f, d, v, t) = IF g.data_available = 0 THEN FinishWriteSector(g, d, t) ELSE g
  BY DEF CommitByte
<1>g. g = [f EXCEPT !.buffer = b, !.data_index = k, !.data_available = n,
                   !.drq_deadline = drq]
  OBVIOUS
<1> HIDE DEF b, k, n, drq, g
<1>6. /\ g \in Chip /\ g.fast_disk = fast /\ g.status = f.status
      /\ g.phase = "WriteSector" /\ g.buffer = b
      /\ g.data_index = k /\ g.data_available = n
  <2>1. g \in Chip  BY <1>1, <1>2, <1>3, <1>4, <1>g, CommitFieldsType, Zenon
  <2>2. /\ g.fast_disk = f.fast_disk /\ g.status = f.status /\ g.phase = f.phase
        /\ g.buffer = b /\ g.data_index = k /\ g.data_available = n
    BY <1>1, <1>g DEF Chip
  <2> QED BY <1>1, <2>1, <2>2
<1>7. CASE g.data_available = 0
  BY <1>5, <1>6, <1>7, FinishWriteSectorSound
<1>8. CASE g.data_available # 0
  <2>1. Balanced(g)  BY <1>2, <1>3, <1>6, <1>8 DEF Balanced
  <2>2. Sound(g, fast)  BY <1>1, <1>6, <2>1 DEF Sound
  <2> QED BY <1>5, <1>8, <2>2
<1> QED BY <1>7, <1>8

\* The loop of sync() takes at most the bytes that are left.
LEMMA AbandonedSlotsBound ==
  ASSUME NEW f \in Chip, NEW t \in Nat
  PROVE  AbandonedSlots(f, t) \in 0 .. f.data_available
<1> DEFINE all == 0 .. f.data_available - 1
           late == {k \in all : t >= f.drq_deadline + k * ByteCycles(f) + FirstByteWindow}
<1>1. f.data_available \in Nat  BY DEF Chip
<1>2. IsFiniteSet(all) /\ Cardinality(all) = f.data_available  BY <1>1, FS_Interval
<1>3. late \in SUBSET all  OBVIOUS
<1>4. AbandonedSlots(f, t) = Cardinality(late)  BY DEF AbandonedSlots
<1> HIDE DEF all, late
<1>5. IsFiniteSet(late) /\ Cardinality(late) <= Cardinality(all)  BY <1>2, <1>3, FS_Subset
<1>6. Cardinality(late) \in Nat  BY <1>5, FS_CardinalityType
<1> QED BY <1>1, <1>2, <1>4, <1>5, <1>6

\* Substituted bytes are bytes, and the sector keeps its length.
LEMMA ZeroFilledType ==
  ASSUME NEW f \in Chip, NEW n \in Nat
  PROVE  ZeroFilled(f, n) \in Seq(Byte) /\ Len(ZeroFilled(f, n)) = Len(f.buffer)
<1> DEFINE z == ZeroFilled(f, n)
<1>1. f.buffer \in Seq(Byte)  BY DEF Chip
<1>2. Len(f.buffer) \in Nat /\ DOMAIN f.buffer = 1 .. Len(f.buffer)
      /\ f.buffer \in [1 .. Len(f.buffer) -> Byte]
  BY <1>1, LenProperties
<1>3. z \in [1 .. Len(f.buffer) -> Byte]  BY <1>2, ByteConstants DEF ZeroFilled
<1> HIDE DEF z
<1> QED BY <1>2, <1>3 DEF z

\* Zeros for slots that went by count like bytes of the program.
LEMMA SubstituteSlotsSound ==
  ASSUME NEW f, NEW fast, Sound(f, fast), f.phase = "WriteSector",
         NEW d \in Drive, NEW n \in 1 .. f.data_available, NEW t \in Nat
  PROVE  Sound(SubstituteSlots(f, d, n, t), fast)
<1> DEFINE b == ZeroFilled(f, n)
           k == f.data_index + n
           m == f.data_available - n
           drq == f.drq_deadline + n * ByteCycles(f)
           h == [f EXCEPT !.buffer = b, !.data_index = k, !.data_available = m,
                          !.drq_deadline = drq]
           g == [h EXCEPT !.status = @ \cup {"LostData"}]
<1>1. f \in Chip /\ f.fast_disk = fast /\ Balanced(f) /\ "Busy" \in f.status
  BY DEF Sound
<1>2. /\ f.data_index \in Nat /\ f.data_available \in Nat
      /\ f.drq_deadline \in Nat /\ ByteCycles(f) \in Nat
  BY <1>1, CycleTypes DEF Chip
<1>3. f.data_index + f.data_available = SectorSize /\ Len(f.buffer) = SectorSize
  BY <1>1, WritePosition
<1>4. k \in Nat /\ m \in Nat /\ k + m = SectorSize  BY <1>2, <1>3
<1>5. b \in Seq(Byte) /\ Len(b) = SectorSize  BY <1>1, <1>2, <1>3, ZeroFilledType
<1>6. drq \in Nat
  <2>1. n * ByteCycles(f) \in Nat  BY <1>2
  <2> QED BY <1>2, <2>1
<1>7. SubstituteSlots(f, d, n, t) = IF g.data_available = 0 THEN FinishWriteSector(g, d, t) ELSE g
  BY <1>1 DEF SubstituteSlots, Chip
<1>h. h = [f EXCEPT !.buffer = b, !.data_index = k, !.data_available = m,
                   !.drq_deadline = drq]
  OBVIOUS
<1> HIDE DEF b, k, m, drq, h
<1>8. /\ h \in Chip /\ h.fast_disk = fast /\ h.status = f.status
      /\ h.phase = "WriteSector" /\ h.buffer = b
      /\ h.data_index = k /\ h.data_available = m
  <2>1. h \in Chip  BY <1>1, <1>4, <1>5, <1>6, <1>h, CommitFieldsType, Zenon
  <2>2. /\ h.fast_disk = f.fast_disk /\ h.status = f.status /\ h.phase = f.phase
        /\ h.buffer = b /\ h.data_index = k /\ h.data_available = m
    BY <1>1, <1>h DEF Chip
  <2> QED BY <1>1, <2>1, <2>2
<1>9. /\ g \in Chip /\ g.fast_disk = fast /\ "Busy" \in g.status
      /\ g.phase = "WriteSector" /\ g.buffer = b
      /\ g.data_index = k /\ g.data_available = m
  BY <1>1, <1>8 DEF Chip, StickyBits
<1> HIDE DEF g
<1>10. CASE g.data_available = 0
  BY <1>7, <1>9, <1>10, FinishWriteSectorSound
<1>11. CASE g.data_available # 0
  <2>1. Balanced(g)  BY <1>4, <1>5, <1>9, <1>11 DEF Balanced
  <2>2. Sound(g, fast)  BY <1>9, <2>1 DEF Sound
  <2> QED BY <1>7, <1>11, <2>2
<1> QED BY <1>10, <1>11

(***************************************************************************)
(* sync().                                                                 *)
(***************************************************************************)
LEMMA SyncTimeType ==
  ASSUME NEW f \in Chip, NEW now \in Nat
  PROVE  SyncTime(f, now) \in Nat
  BY DEF SyncTime, Chip

\* Whatever fell due while nobody looked, the chip stays consistent.
LEMMA CatchUpSound ==
  ASSUME NEW f, NEW fast, Sound(f, fast), NEW d \in Drive, NEW t \in Nat
  PROVE  Sound(CatchUp(f, d, t), fast)
<1>1. f \in Chip /\ f.fast_disk = fast  BY DEF Sound
<1>2. CASE SeekDone(f, t)
  BY <1>1, <1>2, EndCommandSound DEF CatchUp
<1>3. CASE ~SeekDone(f, t) /\ FirstByteMissing(f, t)
  <2>1. "LostData" \in StickyBits  BY DEF StickyBits
  <2> QED BY <1>1, <1>3, <2>1, FailSound DEF CatchUp
<1>4. CASE ~SeekDone(f, t) /\ ~FirstByteMissing(f, t) /\ Abandoned(f, t)
  <2>1. AbandonedSlots(f, t) \in 0 .. f.data_available  BY <1>1, AbandonedSlotsBound
  <2>2. AbandonedSlots(f, t) > 0 /\ f.phase = "WriteSector"  BY <1>4 DEF Abandoned
  <2>3. f.data_available \in Nat  BY <1>1 DEF Chip
  <2>4. AbandonedSlots(f, t) \in 1 .. f.data_available  BY <2>1, <2>2, <2>3
  <2> QED BY <1>4, <2>2, <2>4, SubstituteSlotsSound DEF CatchUp
<1>5. CASE ~SeekDone(f, t) /\ ~FirstByteMissing(f, t) /\ ~Abandoned(f, t)
  BY <1>5 DEF CatchUp
<1> QED BY <1>2, <1>3, <1>4, <1>5

\* The interrupt of the index pulse touches no transfer.
LEMMA FireIndexIrqSound ==
  ASSUME NEW f, NEW fast, Sound(f, fast), NEW t \in Nat
  PROVE  Sound(FireIndexIrq(f, t), fast)
<1> DEFINE g == [f EXCEPT !.intrq_pending = TRUE, !.index_irq_armed = FALSE]
<1>1. f \in Chip /\ f.fast_disk = fast /\ ("Busy" \in f.status <=> f.phase # "Idle") /\ Balanced(f)
  BY DEF Sound
<1>2. g \in Chip  BY <1>1 DEF Chip
<1>3. /\ g.fast_disk = f.fast_disk /\ g.status = f.status /\ g.phase = f.phase
      /\ g.buffer = f.buffer /\ g.data_index = f.data_index
      /\ g.data_available = f.data_available
  BY <1>1 DEF Chip
<1>4. FireIndexIrq(f, t) \in {f, g}  BY DEF FireIndexIrq
<1> HIDE DEF g
<1>5. Sound(g, fast)  BY <1>1, <1>2, <1>3 DEF Sound, Balanced
<1> QED BY <1>4, <1>5

\* The whole of sync() keeps the chip sound, at whatever time the next
\* access comes.
LEMMA SyncSound ==
  ASSUME NEW f, NEW fast, Sound(f, fast), NEW d \in Drive, NEW now \in Nat
  PROVE  Sound(Sync(f, d, now), fast)
<1> DEFINE t == SyncTime(f, now)
           g == [f EXCEPT !.last_sync = t]
<1>1. f \in Chip /\ f.fast_disk = fast /\ ("Busy" \in f.status <=> f.phase # "Idle") /\ Balanced(f)
  BY DEF Sound
<1>2. t \in Nat  BY <1>1, SyncTimeType
<1> HIDE DEF t
<1>3. g \in Chip  BY <1>1, <1>2 DEF Chip
<1>4. /\ g.fast_disk = f.fast_disk /\ g.status = f.status /\ g.phase = f.phase
      /\ g.buffer = f.buffer /\ g.data_index = f.data_index
      /\ g.data_available = f.data_available
  BY <1>1 DEF Chip
<1>5. Sync(f, d, now) = FireIndexIrq(CatchUp(g, d, t), t)  BY DEF Sync, t
<1> HIDE DEF g
<1>6. Sound(g, fast)  BY <1>1, <1>3, <1>4 DEF Sound, Balanced
<1> QED BY <1>2, <1>5, <1>6, CatchUpSound, FireIndexIrqSound

\* What a sync lays on the disk leaves an image.
LEMMA ImageAfterSyncType ==
  ASSUME NEW f, NEW fast, Sound(f, fast), NEW d \in Drive, NEW i \in Image, NEW now \in Nat
  PROVE  ImageAfterSync(f, d, i, now) \in Image
<1>1. CASE SyncLays(f, SyncTime(f, now))
  <2>1. f \in Chip /\ Balanced(f) /\ f.phase = "WriteSector"
    BY <1>1 DEF Sound, SyncLays, Abandoned
  <2>2. f.data_available \in Nat  BY <2>1 DEF Chip
  <2>3. ZeroFilled(f, f.data_available) \in Sector
    BY <2>1, <2>2, ZeroFilledType, WritePosition, SequenceIsSector
  <2> QED BY <1>1, <2>3, WriteSectorAtType DEF ImageAfterSync
<1>2. CASE ~SyncLays(f, SyncTime(f, now))
  BY <1>2 DEF ImageAfterSync
<1> QED BY <1>1, <1>2

(***************************************************************************)
(* The data register.                                                      *)
(***************************************************************************)
\* The catch-up loop of read_data leaves one byte to deliver.
LEMMA LateBytesBound ==
  ASSUME NEW f \in Chip, NEW t \in Nat, f.data_available > 0
  PROVE  LateBytes(f, t) \in 0 .. f.data_available - 1
<1> DEFINE all == 1 .. f.data_available - 1
           late == {k \in all : t >= f.drq_deadline + k * CyclesPerByte}
<1>1. f.data_available \in Nat  BY DEF Chip
<1>2. IsFiniteSet(all) /\ Cardinality(all) = f.data_available - 1
  <2>1. f.data_available - 1 \in Int  BY <1>1
  <2>2. /\ IsFiniteSet(all)
        /\ Cardinality(all) = IF 1 > f.data_available - 1 THEN 0 ELSE (f.data_available - 1) - 1 + 1
    BY <2>1, FS_Interval
  <2> HIDE DEF all
  <2> QED BY <1>1, <2>2
<1>3. late \in SUBSET all  OBVIOUS
<1>4. LateBytes(f, t) = IF f.fast_disk THEN 0 ELSE Cardinality(late)  BY DEF LateBytes
<1> HIDE DEF all, late
<1>5. IsFiniteSet(late) /\ Cardinality(late) <= Cardinality(all)  BY <1>2, <1>3, FS_Subset
<1>6. Cardinality(late) \in Nat  BY <1>5, FS_CardinalityType
<1> QED BY <1>1, <1>2, <1>4, <1>5, <1>6

\* The fields a byte of a read changes are of their types.
LEMMA ReadFieldsType ==
  ASSUME NEW f \in Chip, NEW s \in SUBSET StickyBits, NEW v \in Byte,
         NEW k \in Nat, NEW n \in Nat, NEW drq \in Nat
  PROVE  [f EXCEPT !.status = s, !.data_reg = v, !.data_index = k, !.data_available = n,
                   !.drq_deadline = drq] \in Chip
  BY DEF Chip

\* A read of the data register takes one byte from those to come.
LEMMA AfterReadDataSound ==
  ASSUME NEW f, NEW fast, Sound(f, fast), NEW d \in Drive, NEW i \in Image, NEW t \in Nat
  PROVE  Sound(AfterReadData(f, d, i, t), fast)
<1>1. f \in Chip /\ f.fast_disk = fast /\ ("Busy" \in f.status <=> f.phase # "Idle") /\ Balanced(f)
  BY DEF Sound
<1>2. CASE ~Delivers(f, t)
  BY <1>2 DEF AfterReadData
<1>3. CASE Delivers(f, t)
  <2> DEFINE late == LateBytes(f, t)
             s == IF late > 0 THEN f.status \cup {"LostData"} ELSE f.status
             v == f.buffer[f.data_index + late + 1]
             k == f.data_index + late + 1
             n == f.data_available - late - 1
             drq == f.drq_deadline + late * CyclesPerByte + ByteCycles(f)
             g == [f EXCEPT !.status = s, !.data_reg = v, !.data_index = k,
                            !.data_available = n, !.drq_deadline = drq]
  <2>1. f.phase \in ReadPhases  BY <1>3 DEF Delivers
  <2>2. /\ f.data_index \in Nat /\ f.data_available \in Nat /\ f.buffer \in Seq(Byte)
        /\ f.drq_deadline \in Nat /\ f.status \in SUBSET StickyBits
    BY <1>1 DEF Chip
  <2>3. f.data_available > 0 /\ f.data_index + f.data_available = Len(f.buffer)
    BY <1>1, <2>1 DEF Balanced, ReadPhases
  <2>4. late \in 0 .. f.data_available - 1  BY <1>1, <2>3, LateBytesBound
  <2>5. AfterReadData(f, d, i, t) =
          IF g.data_available > 0 THEN g
          ELSE IF g.phase = "ReadSector" THEN FinishReadSector(g, d, i, t)
          ELSE EndCommand(g, t)
    BY <1>3 DEF AfterReadData
  <2> HIDE DEF late
  <2>6. late \in Nat  BY <2>2, <2>4
  <2>7. k \in Nat /\ n \in Nat /\ k \in 1 .. Len(f.buffer) /\ k + n = Len(f.buffer)
    BY <2>2, <2>3, <2>4
  <2>8. v \in Byte  BY <2>2, <2>7, ElementOfSeq
  <2>9. drq \in Nat
    <3>1. late * CyclesPerByte \in Nat  BY <2>6, ChipAssumption
    <3>2. ByteCycles(f) \in Nat  BY <1>1, CycleTypes
    <3> QED BY <2>2, <3>1, <3>2
  <2>10. s \in SUBSET StickyBits /\ ("Busy" \in s <=> "Busy" \in f.status)
    BY <2>2 DEF StickyBits
  <2>g. g = [f EXCEPT !.status = s, !.data_reg = v, !.data_index = k,
                      !.data_available = n, !.drq_deadline = drq]
    OBVIOUS
  <2> HIDE DEF s, v, k, n, drq, g
  <2>11. g \in Chip
    BY <1>1, <2>7, <2>8, <2>9, <2>10, <2>g, ReadFieldsType, Zenon
  <2>12. /\ g.fast_disk = f.fast_disk /\ g.status = s /\ g.phase = f.phase
         /\ g.buffer = f.buffer /\ g.data_index = k /\ g.data_available = n
    BY <1>1, <2>g DEF Chip
  <2>13. CASE g.data_available > 0
    <3>1. Balanced(g)
      BY <1>1, <2>1, <2>7, <2>12, <2>13 DEF Balanced, ReadPhases
    <3>2. Sound(g, fast)  BY <1>1, <2>10, <2>11, <2>12, <3>1 DEF Sound
    <3> QED BY <2>5, <2>13, <3>2
  <2>14. CASE ~(g.data_available > 0)
    BY <1>1, <2>5, <2>11, <2>12, <2>14, FinishReadSectorSound, EndCommandSound
  <2> QED BY <2>13, <2>14
<1> QED BY <1>2, <1>3

\* The write-track parser works on its own fields only.
SameTransfer(f, g) ==
  /\ g.fast_disk = f.fast_disk /\ g.status = f.status /\ g.phase = f.phase
  /\ g.buffer = f.buffer /\ g.data_index = f.data_index
  /\ g.data_available = f.data_available

\* The parser of a track works beside the transfer's counters.
LEMMA ParseTrackByteType ==
  ASSUME NEW f \in Chip, NEW v \in Byte
  PROVE  ParseTrackByte(f, v) \in Chip /\ SameTransfer(f, ParseTrackByte(f, v))
<1> DEFINE g == [f EXCEPT !.wt_a1 = FALSE]
           r == IF f.wt_id_count = 2 THEN v ELSE g.wt_r
           c == IF g.wt_id_count < 4 THEN g.wt_id_count + 1 ELSE g.wt_id_count
           w == IF f.wt_id_count = 3 THEN f.wt_r ELSE g.wt_sector_num
           m == [g.wt_data EXCEPT ![f.wt_data_count + 1] = v]
           n == g.wt_data_count + 1
           g1 == [f EXCEPT !.wt_a1 = TRUE]
           g2 == [g EXCEPT !.wt_expect_id = TRUE, !.wt_id_count = 0]
           g3 == [g EXCEPT !.wt_in_data = TRUE, !.wt_data_count = 0, !.wt_data = ZeroSector]
           g4 == [g EXCEPT !.wt_r = r, !.wt_id_count = c, !.wt_sector_num = w,
                           !.wt_expect_id = f.wt_id_count # 3]
           g5 == [g EXCEPT !.wt_data = m, !.wt_data_count = n]
           g6 == [g EXCEPT !.wt_in_data = v # CrcMark]
<1>1. g \in Chip /\ SameTransfer(f, g)  BY DEF Chip, SameTransfer
<1>2. g1 \in Chip /\ SameTransfer(f, g1)  BY DEF Chip, SameTransfer
<1>3. /\ f.wt_id_count \in 0 .. 4 /\ g.wt_id_count = f.wt_id_count
      /\ f.wt_data_count \in 0 .. SectorSize /\ g.wt_data_count = f.wt_data_count
      /\ f.wt_r \in Byte /\ g.wt_r = f.wt_r
      /\ g.wt_sector_num \in Byte /\ g.wt_data \in Sector
  BY DEF Chip
<1>4. c \in 0 .. 4 /\ r \in Byte /\ w \in Byte /\ m \in Sector
  <2> HIDE DEF g
  <2>1. c \in 0 .. 4  BY <1>3
  <2>2. r \in Byte /\ w \in Byte  BY <1>3
  <2>3. m \in Sector  BY <1>3 DEF Sector
  <2> QED BY <2>1, <2>2, <2>3
<1>5. f.wt_data_count < SectorSize => n \in 0 .. SectorSize
  <2> HIDE DEF g
  <2> QED BY <1>3, GeometryAssumption
<1>6. 0 \in 0 .. 4 /\ 0 \in 0 .. SectorSize  BY GeometryAssumption
<1>7. \/ ParseTrackByte(f, v) = g \/ ParseTrackByte(f, v) = g1
      \/ ParseTrackByte(f, v) = g2 \/ ParseTrackByte(f, v) = g3
      \/ ParseTrackByte(f, v) = g4 \/ ParseTrackByte(f, v) = g6
      \/ ParseTrackByte(f, v) = g5 /\ f.wt_data_count < SectorSize
  BY DEF ParseTrackByte
<1> HIDE DEF g, r, c, w, m, n
<1>8. g2 \in Chip /\ SameTransfer(g, g2)  BY <1>1, <1>6 DEF Chip, SameTransfer
<1>9. g3 \in Chip /\ SameTransfer(g, g3)  BY <1>1, <1>6, ZeroSectorType DEF Chip, SameTransfer
<1>10. g4 \in Chip /\ SameTransfer(g, g4)
  <2>1. (f.wt_id_count # 3) \in BOOLEAN  OBVIOUS
  <2> QED BY <1>1, <1>4, <2>1 DEF Chip, SameTransfer
<1>11. n \in 0 .. SectorSize => g5 \in Chip /\ SameTransfer(g, g5)
  BY <1>1, <1>4 DEF Chip, SameTransfer
<1>12. g6 \in Chip /\ SameTransfer(g, g6)
  <2>1. (v # CrcMark) \in BOOLEAN  OBVIOUS
  <2> QED BY <1>1, <2>1 DEF Chip, SameTransfer
<1> HIDE DEF g1, g2, g3, g4, g5, g6
<1> QED BY <1>1, <1>2, <1>5, <1>7, <1>8, <1>9, <1>10, <1>11, <1>12 DEF SameTransfer

\* A write of the data register supplies one byte, or none is due.
LEMMA AfterWriteDataSound ==
  ASSUME NEW f, NEW fast, Sound(f, fast), NEW d \in Drive, NEW v \in Byte, NEW t \in Nat
  PROVE  Sound(AfterWriteData(f, d, v, t), fast)
<1> DEFINE g == [f EXCEPT !.data_reg = v]
           h == ParseTrackByte(g, v)
           n == h.data_available - 1
           drq == t + ByteCycles(f)
           p == [h EXCEPT !.data_available = n, !.drq_deadline = drq]
<1>1. f \in Chip /\ f.fast_disk = fast /\ ("Busy" \in f.status <=> f.phase # "Idle") /\ Balanced(f)
  BY DEF Sound
<1>2. g \in Chip /\ SameTransfer(f, g)  BY <1>1 DEF Chip, SameTransfer
<1>3. AfterWriteData(f, d, v, t) =
        IF f.phase = "WriteSector" THEN CommitByte(g, d, v, t)
        ELSE IF f.phase # "WriteTrack" THEN g
        ELSE IF p.data_available = 0 THEN EndCommand(p, t) ELSE p
  BY DEF AfterWriteData
<1> HIDE DEF g
<1>4. Sound(g, fast)  BY <1>1, <1>2 DEF Sound, Balanced, SameTransfer
<1>5. CASE f.phase = "WriteSector"
  <2>1. g.phase = "WriteSector"  BY <1>2, <1>5 DEF SameTransfer
  <2> QED BY <1>3, <1>4, <1>5, <2>1, CommitByteSound
<1>6. CASE f.phase \notin {"WriteSector", "WriteTrack"}
  BY <1>3, <1>4, <1>6
<1>7. CASE f.phase = "WriteTrack"
  <2>1. h \in Chip /\ SameTransfer(g, h)  BY <1>2, ParseTrackByteType
  <2>2. h.fast_disk = fast /\ h.phase = "WriteTrack" /\ "Busy" \in h.status
        /\ h.data_available = f.data_available
    BY <1>1, <1>2, <1>7, <2>1 DEF SameTransfer
  <2>3. n \in Nat
    <3>1. f.data_available \in Nat /\ f.data_available > 0  BY <1>1, <1>7 DEF Balanced, Chip
    <3> QED BY <2>2, <3>1
  <2>4. drq \in Nat  BY <1>1, CycleTypes
  <2> HIDE DEF h, n, drq
  <2>5. p \in Chip  BY <2>1, <2>3, <2>4 DEF Chip
  <2>6. /\ p.fast_disk = h.fast_disk /\ p.status = h.status /\ p.phase = h.phase
        /\ p.data_available = n
    BY <2>1 DEF Chip
  <2> HIDE DEF p
  <2>7. CASE p.data_available = 0
    BY <1>3, <1>7, <2>2, <2>5, <2>6, <2>7, EndCommandSound
  <2>8. CASE p.data_available # 0
    <3>1. Balanced(p)  BY <2>2, <2>3, <2>6, <2>8 DEF Balanced
    <3>2. Sound(p, fast)  BY <2>2, <2>5, <2>6, <3>1 DEF Sound
    <3> QED BY <1>3, <1>7, <2>8, <3>2
  <2> QED BY <2>7, <2>8
<1> QED BY <1>5, <1>6, <1>7

\* What a write of the data register lays leaves an image.
LEMMA ImageAfterWriteDataType ==
  ASSUME NEW f, NEW fast, Sound(f, fast), NEW d \in Drive, NEW i \in Image, NEW v \in Byte
  PROVE  ImageAfterWriteData(f, d, i, v) \in Image
<1>1. f \in Chip /\ Balanced(f) /\ f.wt_data \in Sector  BY DEF Sound, Chip
<1>2. CASE f.phase = "WriteSector"
  <2> DEFINE b == [f.buffer EXCEPT ![f.data_index + 1] = v]
  <2>1. /\ f.data_index + 1 \in 1 .. Len(f.buffer) /\ f.buffer \in Seq(Byte)
        /\ Len(f.buffer) = SectorSize
    BY <1>1, <1>2, WritePosition
  <2>2. b \in Seq(Byte) /\ Len(b) = SectorSize  BY <2>1, ExceptSeq
  <2>3. b \in Sector  BY <2>2, SequenceIsSector
  <2> QED BY <1>2, <2>3, WriteSectorAtType DEF ImageAfterWriteData
<1>3. CASE f.phase # "WriteSector"
  BY <1>1, <1>3, WriteSectorAtType DEF ImageAfterWriteData
<1> QED BY <1>2, <1>3

(***************************************************************************)
(* Commands.                                                               *)
(***************************************************************************)
LEMMA HeadAfterType ==
  ASSUME NEW f \in Chip, NEW d \in Drive, NEW cmd \in Command
  PROVE  HeadAfter(f, d, cmd) \in Drive /\ HeadAfter(f, d, cmd).fast_disk = d.fast_disk
<1>1. ASSUME NEW n \in Track
      PROVE  /\ [d EXCEPT !.physical_track = n] \in Drive
             /\ [d EXCEPT !.physical_track = n].fast_disk = d.fast_disk
  BY DEF Drive
<1>2. f.data_reg \in Byte /\ f.direction_in \in BOOLEAN  BY DEF Chip
<1>3. 0 \in Track /\ Clamp(f.data_reg) \in Track
  BY <1>2, GeometryAssumption DEF Clamp, Track, Byte
<1>4. ASSUME NEW inward \in BOOLEAN
      PROVE  StepHead(d, inward) \in Drive /\ StepHead(d, inward).fast_disk = d.fast_disk
  <2>1. StepHead(d, inward) \in Drive  BY MechanismType DEF Drive
  <2>2. StepHead(d, inward).fast_disk = d.fast_disk  BY DEF StepHead, Drive
  <2> QED BY <2>1, <2>2
<1> QED BY <1>1, <1>2, <1>3, <1>4 DEF HeadAfter

\* Where a seek goes and when it is done.
LEMMA StartType1Types ==
  ASSUME NEW f \in Chip, NEW d \in Drive, NEW cmd \in Command, NEW t \in Nat
  PROVE  /\ TrackRegAfter(f, d, cmd) \in Byte
         /\ DirectionAfter(f, d, cmd) \in BOOLEAN
         /\ Pulses(f, d, cmd) \in Nat
         /\ t + Pulses(f, d, cmd) * StepRate(f, cmd)
              + (IF "V" \in cmd.flags THEN Settle(f) ELSE 0) \in Nat
<1>1. /\ f.data_reg \in Byte /\ f.track_reg \in Byte /\ f.direction_in \in BOOLEAN
      /\ d.physical_track \in Track
  BY DEF Chip, Drive
<1>2. f.track_reg + 1 \in Int /\ f.track_reg + ByteRange - 1 \in Int
      /\ f.data_reg \in Nat /\ d.physical_track \in Nat
  BY <1>1, GeometryAssumption DEF Byte, Track
<1>3. Wrap(f.track_reg + 1) \in Byte /\ Wrap(f.track_reg + ByteRange - 1) \in Byte
  BY <1>2, WrapType, Zenon
<1>4. TrackRegAfter(f, d, cmd) \in Byte
  BY <1>1, <1>3, ByteConstants DEF TrackRegAfter
<1>5. (f.data_reg > d.physical_track) \in BOOLEAN  OBVIOUS
<1>6. DirectionAfter(f, d, cmd) \in BOOLEAN  BY <1>1, <1>5 DEF DirectionAfter
<1>7. Pulses(f, d, cmd) \in Nat
  <2>1. Distance(d.physical_track, f.data_reg) \in Nat  BY <1>2 DEF Distance
  <2> QED BY <1>2, <2>1, ChipAssumption DEF Pulses
<1>8. StepRate(f, cmd) \in Nat /\ Settle(f) \in Nat  BY CycleTypes
<1>9. Pulses(f, d, cmd) * StepRate(f, cmd) \in Nat  BY <1>7, <1>8
<1> QED BY <1>4, <1>6, <1>7, <1>8, <1>9

\* Restore, Seek and Step begin with a deadline.
LEMMA StartType1Sound ==
  ASSUME NEW f \in Chip, NEW d \in Drive, NEW cmd \in Command, NEW t \in Nat
  PROVE  Sound(StartType1(f, d, cmd, t), f.fast_disk)
<1> DEFINE g == StartType1(f, d, cmd, t)
           until == t + Pulses(f, d, cmd) * StepRate(f, cmd)
                    + (IF "V" \in cmd.flags THEN Settle(f) ELSE 0)
           tr == TrackRegAfter(f, d, cmd)
           dir == DirectionAfter(f, d, cmd)
           failed == IF cmd.op = "Restore" /\ ~d.available /\ "V" \in cmd.flags
                     THEN {"NotFound"} ELSE {}
           s == (f.status \ {"NotFound"}) \cup {"Busy"} \cup failed
           hld == "H" \in cmd.flags
           since == IF "H" \in cmd.flags THEN t ELSE f.hld_since
           dr == IF cmd.op = "Restore" THEN 0 ELSE f.data_reg
<1>1. until \in Nat /\ tr \in Byte /\ dir \in BOOLEAN  BY StartType1Types
<1>2. s \in SUBSET StickyBits /\ "Busy" \in s  BY DEF Chip, StickyBits
<1>3. hld \in BOOLEAN /\ since \in Nat /\ dr \in Byte  BY ByteConstants DEF Chip
<1>4. g = [f EXCEPT !.status = s, !.phase = "Type1Seek", !.hld_active = hld,
                    !.hld_since = since, !.track_reg = tr, !.data_reg = dr,
                    !.direction_in = dir, !.busy_until = until]
  BY DEF StartType1
<1> HIDE DEF g, until, tr, dir, failed, s, hld, since, dr
<1>5. g \in Chip
  <2> DEFINE h == [f EXCEPT !.status = s, !.phase = "Type1Seek", !.hld_active = hld,
                            !.hld_since = since]
  <2>1. h \in Chip  BY <1>2, <1>3 DEF Chip, Phase
  <2>2. g = [h EXCEPT !.track_reg = tr, !.data_reg = dr, !.direction_in = dir,
                      !.busy_until = until]
    BY <1>4
  <2> HIDE DEF h
  <2> QED BY <1>1, <1>3, <2>1, <2>2 DEF Chip
<1>6. g.fast_disk = f.fast_disk /\ g.phase = "Type1Seek" /\ g.status = s
  BY <1>4 DEF Chip
<1>7. Balanced(g)  BY <1>6 DEF Balanced
<1> QED BY <1>2, <1>5, <1>6, <1>7 DEF Sound, g

\* Loading the head changes no transfer.
LEMMA LoadHeadType ==
  ASSUME NEW f \in Chip, NEW t \in Nat
  PROVE  /\ LoadHead(f, t) \in Chip
         /\ LoadHead(f, t).fast_disk = f.fast_disk
         /\ LoadHead(f, t).status = f.status
  BY DEF LoadHead, Chip

\* Read Sector and Write Sector begin, or fail at once.
LEMMA StartType2Sound ==
  ASSUME NEW f \in Chip, NEW d \in Drive, NEW i \in Image, NEW cmd \in Command, NEW t \in Nat
  PROVE  Sound(StartType2(f, d, i, cmd, t), f.fast_disk)
<1> DEFINE g == [f EXCEPT !.status =
                   (@ \ {"LostData", "NotFound", "WriteProtected"}) \cup {"Busy"}]
           h == LoadHead(g, t)
<1>1. g \in Chip /\ g.fast_disk = f.fast_disk  BY DEF Chip, StickyBits
<1>2. StartType2(f, d, i, cmd, t) =
        IF ~Ready(d) THEN EndCommand(g, t)
        ELSE IF ~(d.physical_track = f.track_reg /\ OnTrack(f)) THEN Fail(h, "NotFound", t)
        ELSE IF cmd.op = "ReadSector" THEN BeginReadSector(h, d, i, t)
        ELSE IF WriteProtected(d, i) THEN Fail(h, "WriteProtected", t)
        ELSE BeginWriteSector(h, d, t)
  BY DEF StartType2
<1> HIDE DEF g
<1>3. h \in Chip /\ h.fast_disk = f.fast_disk  BY <1>1, LoadHeadType
<1> HIDE DEF h
<1>4. "NotFound" \in StickyBits /\ "WriteProtected" \in StickyBits  BY DEF StickyBits
<1>5. /\ Sound(EndCommand(g, t), f.fast_disk)
      /\ Sound(Fail(h, "NotFound", t), f.fast_disk)
      /\ Sound(BeginReadSector(h, d, i, t), f.fast_disk)
      /\ Sound(Fail(h, "WriteProtected", t), f.fast_disk)
      /\ Sound(BeginWriteSector(h, d, t), f.fast_disk)
  BY <1>1, <1>3, <1>4, EndCommandSound, FailSound, BeginReadSectorSound, BeginWriteSectorSound
<1> QED BY <1>2, <1>5

\* An ID field has six bytes.
LEMMA IdFieldType ==
  ASSUME NEW d \in Drive
  PROVE  IdField(d) \in Seq(Byte) /\ Len(IdField(d)) = 6
<1> DEFINE crc == IdCrc[d.physical_track][d.side]
<1>1. d.physical_track \in Track /\ d.side \in Side  BY DEF Drive
<1>2. crc \in [1 .. 2 -> Byte]  BY <1>1, ChipAssumption
<1>3. crc[1] \in Byte /\ crc[2] \in Byte  BY <1>2
<1>4. d.physical_track \in Byte /\ d.side \in Byte /\ 1 \in Byte /\ 2 \in Byte
  BY <1>1, ByteConstants
<1>5. IdField(d) = <<d.physical_track, d.side, 1, 2, crc[1], crc[2]>>  BY DEF IdField
<1> HIDE DEF crc
<1> QED BY <1>3, <1>4, <1>5

\* Every byte of a raw track is a byte, whatever part of it is a header, a
\* data field or the gap at the end.
LEMMA RawTrackType ==
  ASSUME NEW d \in Drive, NEW i \in Image
  PROVE  RawTrack(d, i) \in Seq(Byte) /\ Len(RawTrack(d, i)) = TrackLength
<1> DEFINE frame == 4 + SectorSize
           sector(j) == ((j - 1) \div frame) + 1
           offset(j) == (j - 1) % frame
           byte(j) == IF sector(j) > SectorsPerTrack THEN GapByte
                      ELSE CASE offset(j) = 0 -> d.physical_track
                             [] offset(j) = 1 -> d.side
                             [] offset(j) = 2 -> sector(j)
                             [] offset(j) = 3 -> 2
                             [] OTHER -> SectorUnderHead(d, i, sector(j))[offset(j) - 3]
<1>1. SectorSize \in Nat /\ SectorSize > 0 /\ SectorsPerTrack \in Nat /\ TrackLength \in Nat
  BY GeometryAssumption, ChipAssumption
<1>2. frame \in Nat /\ frame > 0  BY <1>1
<1>3. RawTrack(d, i) = [j \in 1 .. TrackLength |-> byte(j)]  BY DEF RawTrack
<1>4. ASSUME NEW j \in 1 .. TrackLength  PROVE byte(j) \in Byte
  <2>1. sector(j) \in Nat /\ sector(j) >= 1
    <3> HIDE DEF frame
    <3>1. j - 1 \in Nat  BY <1>1
    <3>2. (j - 1) \div frame \in Nat  BY <1>2, <3>1
    <3> QED BY <3>2
  <2>2. offset(j) \in 0 .. frame - 1
    <3> HIDE DEF frame
    <3>1. j - 1 \in Nat  BY <1>1
    <3> QED BY <1>2, <3>1
  <2>3. /\ d.physical_track \in Byte /\ d.side \in Byte /\ 2 \in Byte /\ GapByte \in Byte
    BY ByteConstants, ChipAssumption DEF Drive
  <2>4. CASE sector(j) > SectorsPerTrack  BY <2>3, <2>4
  <2>5. CASE ~(sector(j) > SectorsPerTrack)
    <3>1. sector(j) \in 1 .. SectorsPerTrack  BY <1>1, <2>1, <2>5
    <3>2. sector(j) \in Byte  BY <3>1, ByteConstants
    <3>3. SectorUnderHead(d, i, sector(j)) \in [1 .. SectorSize -> Byte]
      BY <3>1, SectorUnderHeadType DEF Sector
    <3>4. offset(j) \notin {0, 1, 2, 3} => offset(j) - 3 \in 1 .. SectorSize
      BY <1>1, <2>2
    <3> HIDE DEF sector, offset
    <3> QED BY <2>3, <2>5, <3>2, <3>3, <3>4
  <2> QED BY <2>4, <2>5
<1> HIDE DEF byte
<1> QED BY <1>1, <1>3, <1>4

\* Read Address, Read Track and Write Track begin, or fail at once.
LEMMA StartType3Sound ==
  ASSUME NEW f \in Chip, NEW d \in Drive, NEW i \in Image, NEW cmd \in Command, NEW t \in Nat
  PROVE  Sound(StartType3(f, d, i, cmd, t), f.fast_disk)
<1> DEFINE g == [f EXCEPT !.status = (@ \ {"LostData", "NotFound"}) \cup {"Busy"}]
           l == LoadHead(g, t)
           drq == t + ReadStartCycles(f)
           h == [l EXCEPT !.data_index = 0, !.drq_deadline = drq]
           address == [h EXCEPT !.buffer = IdField(d), !.sector_reg = d.physical_track,
                                !.data_available = 6, !.phase = "ReadAddress"]
           track == [h EXCEPT !.buffer = RawTrack(d, i), !.data_available = TrackLength,
                              !.phase = "ReadTrack"]
           w == [h EXCEPT !.write_track_num = d.physical_track, !.write_side = d.side,
                          !.wt_a1 = FALSE, !.wt_expect_id = FALSE, !.wt_in_data = FALSE,
                          !.wt_data = ZeroSector]
           format == [w EXCEPT !.data_available = TrackLength, !.phase = "WriteTrack"]
<1>1. g \in Chip /\ g.fast_disk = f.fast_disk /\ "Busy" \in g.status  BY DEF Chip, StickyBits
<1>2. StartType3(f, d, i, cmd, t) =
        IF ~Ready(d) THEN EndCommand(g, t)
        ELSE IF cmd.op = "ReadAddress" THEN address
        ELSE IF cmd.op = "ReadTrack" THEN track
        ELSE IF WriteProtected(d, i) THEN Fail(l, "WriteProtected", t)
        ELSE format
  BY DEF StartType3
<1> HIDE DEF g
<1>3. l \in Chip /\ l.fast_disk = f.fast_disk /\ "Busy" \in l.status  BY <1>1, LoadHeadType
<1>4. drq \in Nat  BY CycleTypes
<1> HIDE DEF l, drq
<1>5. h \in Chip  BY <1>3, <1>4 DEF Chip
<1>6. /\ h.fast_disk = f.fast_disk /\ "Busy" \in h.status /\ h.data_index = 0
  BY <1>3 DEF Chip
<1> HIDE DEF h
<1>7. TrackLength \in Nat  BY ChipAssumption
<1>8. TrackLength > 0
  <2>1. SectorsPerTrack \in Nat /\ SectorsPerTrack >= 1 /\ 4 + SectorSize \in Nat /\ 4 + SectorSize >= 1
    BY GeometryAssumption
  <2>2. \A a, b \in Nat : a >= 1 /\ b >= 1 => a * b >= 1  OBVIOUS
  <2>3. SectorsPerTrack * (4 + SectorSize) >= 1  BY <2>1, <2>2
  <2>4. SectorsPerTrack * (4 + SectorSize) \in Nat  BY <2>1
  <2> QED BY <1>7, <2>3, <2>4, ChipAssumption
<1>9. d.physical_track \in Track /\ d.side \in Side  BY DEF Drive
<1>10. d.physical_track \in Byte  BY <1>9, ByteConstants
<1>11. Sound(address, f.fast_disk)
  <2> DEFINE b == IdField(d)
  <2>1. b \in Seq(Byte)  BY IdFieldType
  <2>2. Len(b) = 6  BY IdFieldType
  <2> HIDE DEF b
  <2>3. address \in Chip  BY <1>5, <1>10, <2>1 DEF Chip, Phase, b
  <2>4. /\ address.fast_disk = h.fast_disk /\ address.status = h.status
        /\ address.phase = "ReadAddress" /\ address.buffer = b
        /\ address.data_index = h.data_index /\ address.data_available = 6
    BY <1>5 DEF Chip, b
  <2> HIDE DEF address
  <2>5. Balanced(address)  BY <1>6, <2>2, <2>4 DEF Balanced
  <2> QED BY <1>6, <2>3, <2>4, <2>5 DEF Sound
<1>12. Sound(track, f.fast_disk)
  <2> DEFINE b == RawTrack(d, i)
  <2>1. b \in Seq(Byte)  BY RawTrackType
  <2>2. Len(b) = TrackLength  BY RawTrackType
  <2> HIDE DEF b
  <2>3. track \in Chip  BY <1>5, <1>7, <2>1 DEF Chip, Phase, b
  <2>4. /\ track.fast_disk = h.fast_disk /\ track.status = h.status
        /\ track.phase = "ReadTrack" /\ track.buffer = b
        /\ track.data_index = h.data_index /\ track.data_available = TrackLength
    BY <1>5 DEF Chip, b
  <2> HIDE DEF track
  <2>5. Balanced(track)  BY <1>6, <1>7, <1>8, <2>2, <2>4 DEF Balanced
  <2> QED BY <1>6, <2>3, <2>4, <2>5 DEF Sound
<1>13. Sound(format, f.fast_disk)
  <2>1. w \in Chip
    <3> DEFINE k == d.physical_track
               e == d.side
    <3>1. k \in Track /\ e \in Side /\ ZeroSector \in Sector  BY <1>9, ZeroSectorType
    <3> HIDE DEF k, e
    <3>2. [h EXCEPT !.write_track_num = k, !.write_side = e,
                    !.wt_a1 = FALSE, !.wt_expect_id = FALSE, !.wt_in_data = FALSE,
                    !.wt_data = ZeroSector] \in Chip
      BY <1>5, <3>1 DEF Chip
    <3> QED BY <3>2 DEF k, e
  <2>2. w.fast_disk = h.fast_disk /\ w.status = h.status  BY <1>5 DEF Chip
  <2> HIDE DEF w
  <2>3. format \in Chip  BY <1>7, <2>1 DEF Chip, Phase
  <2>4. /\ format.fast_disk = w.fast_disk /\ format.status = w.status
        /\ format.phase = "WriteTrack" /\ format.data_available = TrackLength
    BY <2>1 DEF Chip
  <2> HIDE DEF format
  <2>5. Balanced(format)  BY <1>8, <2>4 DEF Balanced
  <2> QED BY <1>6, <2>2, <2>3, <2>4, <2>5 DEF Sound
<1>14. Sound(EndCommand(g, t), f.fast_disk)  BY <1>1, EndCommandSound
<1>15. Sound(Fail(l, "WriteProtected", t), f.fast_disk)
  <2>1. "WriteProtected" \in StickyBits  BY DEF StickyBits
  <2> QED BY <1>3, <2>1, FailSound
<1> HIDE DEF address, track, format
<1> QED BY <1>2, <1>11, <1>12, <1>13, <1>14, <1>15

\* Force Interrupt ends whatever runs.
LEMMA StartType4Sound ==
  ASSUME NEW f \in Chip, NEW d \in Drive, NEW cmd \in Command, NEW t \in Nat
  PROVE  Sound(StartType4(f, d, cmd, t), f.fast_disk)
<1> DEFINE arms == "I2" \in cmd.flags /\ Ready(d)
           imm == IF "I3" \in cmd.flags THEN TRUE
                  ELSE IF cmd.flags = {} THEN FALSE ELSE f.immediate_irq
           pending == f.intrq_pending \/ "I3" \in cmd.flags
           armed == f.index_irq_armed \/ arms
           next == t + CyclesUntilIndexPulse(t)
           deadline == IF arms THEN next ELSE f.index_irq_deadline
           s == f.status \ {"Busy"}
           h == [f EXCEPT !.immediate_irq = imm, !.intrq_pending = pending,
                          !.index_irq_armed = armed, !.index_irq_deadline = deadline]
           g == [h EXCEPT !.phase = "Idle", !.data_available = 0, !.status = s]
<1>1. next \in Nat  BY MechanismType DEF Drive
<1>2. imm \in BOOLEAN /\ pending \in BOOLEAN /\ armed \in BOOLEAN  BY DEF Chip
<1>3. f.index_irq_deadline \in Nat  BY DEF Chip
<1> HIDE DEF next
<1>4. deadline \in Nat  BY <1>1, <1>3
<1>5. s \in SUBSET StickyBits /\ "Busy" \notin s  BY DEF Chip
<1>6. StartType4(f, d, cmd, t) = g  BY DEF StartType4, Chip, next
<1> HIDE DEF arms, imm, pending, armed, deadline, s
<1>7. h \in Chip  BY <1>2, <1>4 DEF Chip
<1>8. h.fast_disk = f.fast_disk  BY DEF Chip
<1> HIDE DEF h
<1>9. g \in Chip  BY <1>5, <1>7 DEF Chip, Phase
<1>10. g.fast_disk = h.fast_disk /\ g.phase = "Idle" /\ g.status = s  BY <1>7 DEF Chip
<1> HIDE DEF g
<1>11. Balanced(g)  BY <1>10 DEF Balanced
<1> QED BY <1>5, <1>6, <1>8, <1>9, <1>10, <1>11 DEF Sound

\* write_command in the middle of anything leaves the chip sound.
LEMMA AfterWriteCommandSound ==
  ASSUME NEW f \in Chip, NEW d \in Drive, NEW i \in Image, NEW cmd \in Command, NEW t \in Nat
  PROVE  Sound(AfterWriteCommand(f, d, i, cmd, t), f.fast_disk)
<1> DEFINE g == [f EXCEPT !.command_reg = cmd]
           h == [g EXCEPT !.intrq_pending = FALSE, !.immediate_irq = FALSE,
                          !.index_irq_armed = FALSE]
<1>1. g \in Chip /\ g.fast_disk = f.fast_disk  BY DEF Chip
<1>2. AfterWriteCommand(f, d, i, cmd, t) =
        CASE cmd.op \in Type1Ops -> StartType1(h, d, cmd, t)
          [] cmd.op \in Type2Ops -> StartType2(h, d, i, cmd, t)
          [] cmd.op \in Type3Ops -> StartType3(h, d, i, cmd, t)
          [] OTHER               -> StartType4(g, d, cmd, t)
  BY DEF AfterWriteCommand
<1> HIDE DEF g
<1>3. h \in Chip /\ h.fast_disk = f.fast_disk  BY <1>1 DEF Chip
<1> HIDE DEF h
<1>4. /\ Sound(StartType1(h, d, cmd, t), f.fast_disk)
      /\ Sound(StartType2(h, d, i, cmd, t), f.fast_disk)
      /\ Sound(StartType3(h, d, i, cmd, t), f.fast_disk)
      /\ Sound(StartType4(g, d, cmd, t), f.fast_disk)
  BY <1>1, <1>3, StartType1Sound, StartType2Sound, StartType3Sound, StartType4Sound
<1> QED BY <1>2, <1>4 DEF Type1Ops, Type2Ops, Type3Ops

\* The master reset leaves an idle chip.
LEMMA ResetChipSound ==
  ASSUME NEW f \in Chip
  PROVE  Sound(ResetChip(f, 0), f.fast_disk)
<1> DEFINE command == [op |-> "Restore", flags |-> {}, rate |-> 0]
           high == ByteRange - 1
           a == [f EXCEPT !.status = {}, !.command_reg = command,
                          !.track_reg = high, !.sector_reg = 1, !.data_reg = 0,
                          !.phase = "Idle"]
           b == [a EXCEPT !.direction_in = TRUE,
                          !.intrq_pending = FALSE, !.immediate_irq = FALSE,
                          !.index_irq_armed = FALSE, !.index_irq_deadline = 0,
                          !.hld_active = FALSE]
           c == [b EXCEPT !.hld_since = 0,
                          !.busy_until = 0, !.drq_deadline = 0, !.write_check_deadline = 0,
                          !.last_sync = 0, !.buffer = << >>]
           e == [c EXCEPT !.data_index = 0, !.data_available = 0,
                          !.write_track_num = 0, !.write_side = 0, !.write_sector_num = 0]
           g == [e EXCEPT !.wt_a1 = FALSE, !.wt_expect_id = FALSE, !.wt_in_data = FALSE]
<1>1. command \in Command  BY DEF Command, Type1Ops
<1>2. high \in Byte /\ 0 \in Byte /\ 1 \in Byte /\ 0 \in Track /\ 0 \in Side  BY ByteConstants
<1>3. << >> \in Seq(Byte)  OBVIOUS
<1>4. ResetChip(f, 0) = g  BY DEF ResetChip
<1> HIDE DEF command, high
<1>5. /\ a \in Chip /\ a.fast_disk = f.fast_disk /\ a.phase = "Idle" /\ a.status = {}
  BY <1>1, <1>2 DEF Chip, Phase
<1> HIDE DEF a
<1>6. b \in Chip /\ b.fast_disk = a.fast_disk /\ b.phase = a.phase /\ b.status = a.status
  BY <1>5 DEF Chip
<1> HIDE DEF b
<1>7. c \in Chip /\ c.fast_disk = b.fast_disk /\ c.phase = b.phase /\ c.status = b.status
  BY <1>3, <1>6 DEF Chip
<1> HIDE DEF c
<1>8. e \in Chip /\ e.fast_disk = c.fast_disk /\ e.phase = c.phase /\ e.status = c.status
  BY <1>2, <1>7 DEF Chip
<1> HIDE DEF e
<1>9. g \in Chip /\ g.fast_disk = e.fast_disk /\ g.phase = e.phase /\ g.status = e.status
  BY <1>8 DEF Chip
<1> HIDE DEF g
<1> QED BY <1>4, <1>5, <1>6, <1>7, <1>8, <1>9 DEF Sound, Balanced

-----------------------------------------------------------------------------
(***************************************************************************)
(* The chip but for the moment its head was loaded.  Nothing but that      *)
(* moment depends on it: an operation on two chips that agree but for it   *)
(* gives two that agree but for it.                                        *)
(***************************************************************************)
ButHead(f) == [f EXCEPT !.hld_since = 0]

\* It is a chip, and the times it works with are the same.
LEMMA ButHeadType ==
  ASSUME NEW f \in Chip
  PROVE  /\ ButHead(f) \in Chip
         /\ ByteCycles(ButHead(f)) = ByteCycles(f)
         /\ \A d, t : FirstDrq(ButHead(f), d, t) = FirstDrq(f, d, t)
  BY DEF ButHead, Chip, ByteCycles, FirstDrq, HeaderCycles

\* The end of a command, but for the head.
LEMMA EndButHead ==
  ASSUME NEW f \in Chip, NEW t, NEW u
  PROVE  ButHead(EndCommand(ButHead(f), t)) = ButHead(EndCommand(f, u))
  BY DEF ButHead, EndCommand, Chip

\* A failure, but for the head.
LEMMA FailButHead ==
  ASSUME NEW f \in Chip, NEW bit, NEW t, NEW u
  PROVE  ButHead(Fail(ButHead(f), bit, t)) = ButHead(Fail(f, bit, u))
  BY DEF ButHead, EndCommand, Fail, Chip

\* The start of a sector write, but for the head.
LEMMA BeginWriteButHead ==
  ASSUME NEW f \in Chip, NEW d, NEW t
  PROVE  ButHead(BeginWriteSector(ButHead(f), d, t)) = ButHead(BeginWriteSector(f, d, t))
<1>1. FirstDrq(ButHead(f), d, t) = FirstDrq(f, d, t)  BY ButHeadType
<1> QED BY <1>1 DEF ButHead, BeginWriteSector, Chip

\* The start of a sector read, but for the head.
LEMMA BeginReadButHead ==
  ASSUME NEW f \in Chip, NEW d, NEW i, NEW t
  PROVE  ButHead(BeginReadSector(ButHead(f), d, i, t)) = ButHead(BeginReadSector(f, d, i, t))
<1>1. FirstDrq(ButHead(f), d, t) = FirstDrq(f, d, t)  BY ButHeadType
<1>2. ButHead(f).sector_reg = f.sector_reg  BY DEF ButHead, Chip
<1>3. CASE CanRead(d, f.sector_reg)
  BY <1>1, <1>2, <1>3 DEF ButHead, BeginReadSector, Chip
<1>4. CASE ~CanRead(d, f.sector_reg)
  BY <1>2, <1>4 DEF ButHead, BeginReadSector, Chip, Fail, EndCommand
<1> QED BY <1>3, <1>4

\* Which sector is next does not depend on the head.
LEMMA NextButHead ==
  ASSUME NEW f \in Chip
  PROVE  /\ NextSector(ButHead(f)) = ButHead(NextSector(f))
         /\ OnTrack(ButHead(f)) <=> OnTrack(f)
         /\ ButHead(f).command_reg = f.command_reg
  BY DEF ButHead, NextSector, Chip, OnTrack

\* The end of a written sector, but for the head.
LEMMA FinishWriteButHead ==
  ASSUME NEW f \in Chip, NEW d, NEW t
  PROVE  ButHead(FinishWriteSector(ButHead(f), d, t)) = ButHead(FinishWriteSector(f, d, t))
<1> DEFINE g == NextSector(f)
<1>1. g \in Chip /\ NextSector(ButHead(f)) = ButHead(g) /\ (OnTrack(ButHead(g)) <=> OnTrack(g))
      /\ ButHead(f).command_reg = f.command_reg
  BY NextSectorType, NextButHead
<1> HIDE DEF g
<1>2. CASE "M" \notin f.command_reg.flags
  BY <1>1, <1>2, EndButHead DEF FinishWriteSector
<1>3. CASE "M" \in f.command_reg.flags /\ OnTrack(g)
  <2>1. /\ FinishWriteSector(f, d, t) = BeginWriteSector(g, d, t)
        /\ FinishWriteSector(ButHead(f), d, t) = BeginWriteSector(ButHead(g), d, t)
    BY <1>1, <1>3 DEF FinishWriteSector, g
  <2> QED BY <1>1, <2>1, BeginWriteButHead
<1>4. CASE "M" \in f.command_reg.flags /\ ~OnTrack(g)
  <2>1. /\ FinishWriteSector(f, d, t) = EndCommand(g, t)
        /\ FinishWriteSector(ButHead(f), d, t) = EndCommand(ButHead(g), t)
    BY <1>1, <1>4 DEF FinishWriteSector, g
  <2> QED BY <1>1, <2>1, EndButHead
<1> QED BY <1>2, <1>3, <1>4

\* The end of a read sector, but for the head.
LEMMA FinishReadButHead ==
  ASSUME NEW f \in Chip, NEW d, NEW i, NEW t
  PROVE  ButHead(FinishReadSector(ButHead(f), d, i, t)) = ButHead(FinishReadSector(f, d, i, t))
<1> DEFINE g == NextSector(f)
<1>1. g \in Chip /\ NextSector(ButHead(f)) = ButHead(g) /\ (OnTrack(ButHead(g)) <=> OnTrack(g))
      /\ ButHead(f).command_reg = f.command_reg
  BY NextSectorType, NextButHead
<1> HIDE DEF g
<1>2. CASE "M" \notin f.command_reg.flags
  BY <1>1, <1>2, EndButHead DEF FinishReadSector
<1>3. CASE "M" \in f.command_reg.flags /\ OnTrack(g)
  <2>1. /\ FinishReadSector(f, d, i, t) = BeginReadSector(g, d, i, t)
        /\ FinishReadSector(ButHead(f), d, i, t) = BeginReadSector(ButHead(g), d, i, t)
    BY <1>1, <1>3 DEF FinishReadSector, g
  <2> QED BY <1>1, <2>1, BeginReadButHead
<1>4. CASE "M" \in f.command_reg.flags /\ ~OnTrack(g)
  <2>1. /\ FinishReadSector(f, d, i, t) = EndCommand(g, t)
        /\ FinishReadSector(ButHead(f), d, i, t) = EndCommand(ButHead(g), t)
    BY <1>1, <1>4 DEF FinishReadSector, g
  <2> QED BY <1>1, <2>1, EndButHead
<1> QED BY <1>2, <1>3, <1>4
\* The chip without its head's times is consistent and transfers the same.
LEMMA SoundButHead ==
  ASSUME NEW f, NEW fast, Sound(f, fast)
  PROVE  /\ Sound(ButHead(f), fast) /\ f \in Chip
         /\ ButHead(f).phase = f.phase /\ ButHead(f).data_index = f.data_index
         /\ ButHead(f).data_available = f.data_available
         /\ ButHead(f).drq_deadline = f.drq_deadline
         /\ ButHead(f).buffer = f.buffer /\ ButHead(f).status = f.status
<1>1. f \in Chip  BY DEF Sound
<1>2. /\ ButHead(f).phase = f.phase /\ ButHead(f).data_index = f.data_index
      /\ ButHead(f).data_available = f.data_available
      /\ ButHead(f).drq_deadline = f.drq_deadline
      /\ ButHead(f).buffer = f.buffer /\ ButHead(f).status = f.status
      /\ ButHead(f).fast_disk = f.fast_disk
  BY <1>1 DEF ButHead, Chip
<1> QED BY <1>1, <1>2, ButHeadType DEF Sound, Balanced

\* commit_write_sector_byte, for one byte of the CPU and for n of nobody.
LEMMA CommitButHead ==
  ASSUME NEW f, NEW fast, Sound(f, fast), f.phase = "WriteSector",
         NEW d \in Drive, NEW v \in Byte, NEW t \in Nat
  PROVE  ButHead(CommitByte(ButHead(f), d, v, t)) = ButHead(CommitByte(f, d, v, t))
<1> DEFINE b == [f.buffer EXCEPT ![f.data_index + 1] = v]
           k == f.data_index + 1
           n == f.data_available - 1
           drq == t + ByteCycles(f)
           g == [f EXCEPT !.buffer = b, !.data_index = k, !.data_available = n,
                          !.drq_deadline = drq]
           h == [ButHead(f) EXCEPT !.buffer = b, !.data_index = k, !.data_available = n,
                                   !.drq_deadline = drq]
<1>1. /\ f \in Chip /\ Balanced(f)
      /\ ButHead(f).data_index = f.data_index /\ ButHead(f).buffer = f.buffer
      /\ ButHead(f).data_available = f.data_available
      /\ ByteCycles(ButHead(f)) = ByteCycles(f)
  BY SoundButHead, ButHeadType DEF Sound
<1>2. k \in 1 .. Len(f.buffer) /\ k \in Nat /\ n \in Nat /\ f.buffer \in Seq(Byte)
  BY <1>1, WritePosition
<1>3. b \in Seq(Byte) /\ drq \in Nat  BY <1>1, <1>2, ExceptSeq, CycleTypes
<1>4. /\ CommitByte(f, d, v, t) = IF g.data_available = 0 THEN FinishWriteSector(g, d, t) ELSE g
      /\ CommitByte(ButHead(f), d, v, t)
           = IF h.data_available = 0 THEN FinishWriteSector(h, d, t) ELSE h
  BY <1>1 DEF CommitByte
<1>5. g = [f EXCEPT !.buffer = b, !.data_index = k, !.data_available = n,
                    !.drq_deadline = drq]
  OBVIOUS
<1>6. h = [ButHead(f) EXCEPT !.buffer = b, !.data_index = k, !.data_available = n,
                             !.drq_deadline = drq]
  OBVIOUS
<1> HIDE DEF b, k, n, drq, g, h
<1>7. g \in Chip  BY <1>1, <1>2, <1>3, <1>5, CommitFieldsType, Zenon
<1>8. h = ButHead(g) /\ h.data_available = g.data_available
  BY <1>1, <1>5, <1>6 DEF ButHead, Chip
<1>9. ButHead(ButHead(g)) = ButHead(g)  BY <1>7 DEF ButHead, Chip
<1> QED BY <1>4, <1>7, <1>8, <1>9, FinishWriteButHead

\* Zeros for slots that went by, but for the head.
LEMMA SubstituteButHead ==
  ASSUME NEW f, NEW fast, Sound(f, fast), f.phase = "WriteSector",
         NEW d \in Drive, NEW n \in 1 .. f.data_available, NEW t \in Nat
  PROVE  ButHead(SubstituteSlots(ButHead(f), d, n, t)) = ButHead(SubstituteSlots(f, d, n, t))
<1> DEFINE b == ZeroFilled(f, n)
           k == f.data_index + n
           m == f.data_available - n
           drq == f.drq_deadline + n * ByteCycles(f)
           st == f.status \cup {"LostData"}
           c == [f EXCEPT !.buffer = b, !.data_index = k, !.data_available = m,
                          !.drq_deadline = drq]
           g == [c EXCEPT !.status = st]
           h == [ButHead(f) EXCEPT !.buffer = b, !.status = st, !.data_index = k, !.data_available = m,
                                   !.drq_deadline = drq]
<1>1. /\ f \in Chip /\ Balanced(f)
      /\ ButHead(f).data_index = f.data_index /\ ButHead(f).buffer = f.buffer
      /\ ButHead(f).data_available = f.data_available
      /\ ButHead(f).drq_deadline = f.drq_deadline /\ ButHead(f).status = f.status
      /\ ByteCycles(ButHead(f)) = ByteCycles(f)
  BY SoundButHead, ButHeadType DEF Sound
<1>2. k \in Nat /\ m \in Nat /\ drq \in Nat /\ b \in Seq(Byte) /\ st \in SUBSET StickyBits
  <2>1. /\ f.data_index \in Nat /\ f.data_available \in Nat /\ n \in Nat
        /\ f.drq_deadline \in Nat /\ ByteCycles(f) \in Nat /\ f.status \in SUBSET StickyBits
    BY <1>1, CycleTypes DEF Chip
  <2>2. n * ByteCycles(f) \in Nat  BY <2>1
  <2>3. b \in Seq(Byte)  BY <1>1, <2>1, ZeroFilledType
  <2>4. st \in SUBSET StickyBits  BY <2>1 DEF StickyBits
  <2>5. k \in Nat /\ m \in Nat /\ drq \in Nat
    <3> DEFINE e == n * ByteCycles(f)
    <3>1. e \in Nat  BY <2>2
    <3> HIDE DEF e
    <3>2. f.drq_deadline + e \in Nat  BY <2>1, <3>1
    <3> QED BY <2>1, <3>2 DEF e
  <2> HIDE DEF b, k, m, drq, st
  <2> QED BY <2>3, <2>4, <2>5
<1>3. ZeroFilled(ButHead(f), n) = b  BY <1>1 DEF ZeroFilled
<1>4. g = [f EXCEPT !.buffer = b, !.status = st, !.data_index = k, !.data_available = m,
                    !.drq_deadline = drq]
  <2> HIDE DEF b, k, m, drq, st
  <2> QED BY <1>1 DEF Chip
<1>5. /\ SubstituteSlots(f, d, n, t) = IF g.data_available = 0 THEN FinishWriteSector(g, d, t) ELSE g
      /\ SubstituteSlots(ButHead(f), d, n, t)
           = IF h.data_available = 0 THEN FinishWriteSector(h, d, t) ELSE h
  <2>1. h = [ButHead(f) EXCEPT !.buffer = ZeroFilled(ButHead(f), n), !.status = @ \cup {"LostData"},
                               !.data_index = @ + n, !.data_available = @ - n,
                               !.drq_deadline = @ + n * ByteCycles(ButHead(f))]
    BY <1>1, <1>3
  <2> QED BY <1>4, <2>1, Zenon DEF SubstituteSlots
<1>6. h = [ButHead(f) EXCEPT !.buffer = b, !.status = st, !.data_index = k, !.data_available = m,
                             !.drq_deadline = drq]
  OBVIOUS
<1>7. g \in Chip
  <2>1. c \in Chip  BY <1>1, <1>2, CommitFieldsType, Zenon
  <2> HIDE DEF c, st
  <2> QED BY <1>2, <2>1 DEF Chip
<1> HIDE DEF b, k, m, drq, st, g, h
<1>8. h = ButHead(g) /\ h.data_available = g.data_available
  BY <1>1, <1>4, <1>6 DEF ButHead, Chip
<1>9. ButHead(ButHead(g)) = ButHead(g)  BY <1>7 DEF ButHead, Chip
<1> QED BY <1>5, <1>7, <1>8, <1>9, FinishWriteButHead

\* What fell due while nobody looked, but for the head.
LEMMA CatchUpButHead ==
  ASSUME NEW f, NEW fast, Sound(f, fast), NEW d \in Drive, NEW t \in Nat
  PROVE  ButHead(CatchUp(ButHead(f), d, t)) = ButHead(CatchUp(f, d, t))
<1> DEFINE h == ButHead(f)
           n == AbandonedSlots(f, t)
<1>1. /\ f \in Chip /\ n \in 0 .. f.data_available
      /\ ButHead(h) = h
  BY AbandonedSlotsBound DEF Sound, ButHead, Chip
<1>2. /\ SeekDone(h, t) <=> SeekDone(f, t)
      /\ FirstByteMissing(h, t) <=> FirstByteMissing(f, t)
      /\ AbandonedSlots(h, t) = n
      /\ Abandoned(h, t) <=> Abandoned(f, t)
  BY <1>1, ButHeadType
     DEF ButHead, Chip, SeekDone, FirstByteMissing, Abandoned, AbandonedSlots
<1> HIDE DEF h, n
<1>3. CASE SeekDone(f, t)
  BY <1>1, <1>2, <1>3, EndButHead DEF CatchUp, h
<1>4. CASE ~SeekDone(f, t) /\ FirstByteMissing(f, t)
  BY <1>1, <1>2, <1>4, FailButHead DEF CatchUp, h
<1>5. CASE ~SeekDone(f, t) /\ ~FirstByteMissing(f, t) /\ Abandoned(f, t)
  <2>1. f.phase = "WriteSector" /\ n \in 1 .. f.data_available
    BY <1>1, <1>5 DEF Abandoned, n
  <2>2. CatchUp(f, d, t) = SubstituteSlots(f, d, n, t) /\ CatchUp(h, d, t) = SubstituteSlots(h, d, n, t)
    BY <1>2, <1>5 DEF CatchUp, n
  <2> QED BY <2>1, <2>2, SubstituteButHead DEF h
<1>6. CASE ~SeekDone(f, t) /\ ~FirstByteMissing(f, t) /\ ~Abandoned(f, t)
  BY <1>1, <1>2, <1>6 DEF CatchUp, h
<1> QED BY <1>3, <1>4, <1>5, <1>6

\* The clock of the chip, and the index interrupt, do not touch the head.
SetClock(f, t) == [f EXCEPT !.last_sync = t]

\* The time of the last sync is nothing else's business.
LEMMA ClockSound ==
  ASSUME NEW f, NEW fast, Sound(f, fast), NEW t \in Nat
  PROVE  /\ Sound(SetClock(f, t), fast)
         /\ SetClock(ButHead(f), t) = ButHead(SetClock(f, t))
  BY DEF Sound, Balanced, Chip, SetClock, ButHead

\* The interrupt of the index pulse, but for the head.
LEMMA FireButHead ==
  ASSUME NEW f \in Chip, NEW t
  PROVE  FireIndexIrq(ButHead(f), t) = ButHead(FireIndexIrq(f, t))
  BY DEF FireIndexIrq, ButHead, Chip

\* A sync, but for the head.
LEMMA SyncButHead ==
  ASSUME NEW f, NEW fast, Sound(f, fast), NEW d \in Drive, NEW t \in Nat
  PROVE  ButHead(Sync(ButHead(f), d, t)) = ButHead(Sync(f, d, t))
<1> DEFINE u == SyncTime(f, t)
           c == SetClock(f, u)
           k == CatchUp(c, d, u)
           h == CatchUp(ButHead(c), d, u)
<1>1. f \in Chip /\ u \in Nat /\ SyncTime(ButHead(f), t) = u
  BY SyncTimeType DEF Sound, ButHead, Chip, SyncTime
<1> HIDE DEF u
<1>2. Sound(c, fast) /\ SetClock(ButHead(f), u) = ButHead(c)  BY <1>1, ClockSound
<1>3. Sync(f, d, t) = FireIndexIrq(k, u) /\ Sync(ButHead(f), d, t) = FireIndexIrq(h, u)
  BY <1>1, <1>2 DEF Sync, SetClock, u
<1> HIDE DEF c
<1>4. ButHead(h) = ButHead(k) /\ k \in Chip /\ h \in Chip
  <2>1. Sound(ButHead(c), fast)  BY <1>2, SoundButHead
  <2> QED BY <1>1, <1>2, <2>1, CatchUpButHead, CatchUpSound DEF Sound
<1> HIDE DEF h, k
<1> QED BY <1>3, <1>4, FireButHead
\* What a sync lays on the disk does not depend on the head.
LEMMA ImageAfterSyncButHead ==
  ASSUME NEW f, NEW fast, Sound(f, fast), NEW d, NEW i, NEW t
  PROVE  ImageAfterSync(ButHead(f), d, i, t) = ImageAfterSync(f, d, i, t)
<1> DEFINE u == SyncTime(f, t)
<1>1. f \in Chip  BY DEF Sound
<1>2. SyncTime(ButHead(f), t) = u  BY <1>1 DEF SyncTime, ButHead, Chip
<1> HIDE DEF u
<1>3. AbandonedSlots(ButHead(f), u) = AbandonedSlots(f, u)
  BY <1>1, ButHeadType DEF AbandonedSlots, ButHead, Chip
<1>4. SyncLays(ButHead(f), u) <=> SyncLays(f, u)
  BY <1>1, <1>3 DEF SyncLays, Abandoned, ButHead, Chip
<1>5. /\ \A n : ZeroFilled(ButHead(f), n) = ZeroFilled(f, n)
      /\ ButHead(f).data_available = f.data_available
      /\ ButHead(f).write_track_num = f.write_track_num
      /\ ButHead(f).write_side = f.write_side
      /\ ButHead(f).write_sector_num = f.write_sector_num
  BY <1>1 DEF ButHead, Chip, ZeroFilled
<1> QED BY <1>2, <1>4, <1>5 DEF ImageAfterSync, u

(***************************************************************************)
(* The accesses of the CPU.                                                *)
(***************************************************************************)
LEMMA ReadDataButHead ==
  ASSUME NEW f, NEW fast, Sound(f, fast), NEW d \in Drive, NEW i \in Image, NEW t \in Nat
  PROVE  ButHead(AfterReadData(ButHead(f), d, i, t)) = ButHead(AfterReadData(f, d, i, t))
<1> DEFINE h == ButHead(f)
<1>1. /\ f \in Chip /\ Balanced(f) /\ ButHead(h) = h
      /\ h.phase = f.phase /\ h.data_index = f.data_index
      /\ h.data_available = f.data_available /\ h.drq_deadline = f.drq_deadline
      /\ h.buffer = f.buffer /\ h.status = f.status /\ h.fast_disk = f.fast_disk
  BY DEF Sound, ButHead, Chip
<1>2. /\ Delivers(h, t) <=> Delivers(f, t)
      /\ LateBytes(h, t) = LateBytes(f, t)
      /\ ByteCycles(h) = ByteCycles(f)
  BY <1>1 DEF Delivers, TransferDrq, LateBytes, ByteCycles
<1>3. CASE ~Delivers(f, t)
  BY <1>1, <1>2, <1>3 DEF AfterReadData
<1>4. CASE Delivers(f, t)
  <2> DEFINE late == LateBytes(f, t)
             s == IF late > 0 THEN f.status \cup {"LostData"} ELSE f.status
             v == f.buffer[f.data_index + late + 1]
             k == f.data_index + late + 1
             n == f.data_available - late - 1
             drq == f.drq_deadline + late * CyclesPerByte + ByteCycles(f)
             g == [f EXCEPT !.status = s, !.data_reg = v, !.data_index = k,
                            !.data_available = n, !.drq_deadline = drq]
             j == [h EXCEPT !.status = s, !.data_reg = v, !.data_index = k,
                            !.data_available = n, !.drq_deadline = drq]
  <2>1. /\ f.data_index \in Nat /\ f.data_available \in Nat /\ f.buffer \in Seq(Byte)
        /\ f.drq_deadline \in Nat /\ f.status \in SUBSET StickyBits
    BY <1>1 DEF Chip
  <2>2. f.data_available > 0 /\ f.data_index + f.data_available = Len(f.buffer)
    BY <1>1, <1>4 DEF Delivers, Balanced, ReadPhases
  <2>3. late \in 0 .. f.data_available - 1  BY <1>1, <2>2, LateBytesBound
  <2>4. AfterReadData(f, d, i, t) =
          IF g.data_available > 0 THEN g
          ELSE IF g.phase = "ReadSector" THEN FinishReadSector(g, d, i, t)
          ELSE EndCommand(g, t)
    BY <1>4 DEF AfterReadData
  <2>5. AfterReadData(h, d, i, t) =
          IF j.data_available > 0 THEN j
          ELSE IF j.phase = "ReadSector" THEN FinishReadSector(j, d, i, t)
          ELSE EndCommand(j, t)
    <3> HIDE DEF h
    <3> QED BY <1>1, <1>2, <1>4 DEF AfterReadData
  <2> HIDE DEF late
  <2>6. late \in Nat  BY <2>1, <2>3
  <2>7. k \in Nat /\ n \in Nat /\ k \in 1 .. Len(f.buffer)  BY <2>1, <2>2, <2>3
  <2>8. v \in Byte  BY <2>1, <2>7, ElementOfSeq
  <2>9. drq \in Nat
    <3>1. late * CyclesPerByte \in Nat  BY <2>6, ChipAssumption
    <3>2. ByteCycles(f) \in Nat  BY <1>1, CycleTypes
    <3> QED BY <2>1, <3>1, <3>2
  <2>10. s \in SUBSET StickyBits  BY <2>1 DEF StickyBits
  <2>11. /\ g = [f EXCEPT !.status = s, !.data_reg = v, !.data_index = k,
                          !.data_available = n, !.drq_deadline = drq]
         /\ j = [h EXCEPT !.status = s, !.data_reg = v, !.data_index = k,
                          !.data_available = n, !.drq_deadline = drq]
    OBVIOUS
  <2> HIDE DEF s, v, k, n, drq, g, j
  <2>12. g \in Chip
    BY <1>1, <2>7, <2>8, <2>9, <2>10, <2>11, ReadFieldsType, Zenon
  <2>13. j = ButHead(g) /\ j.data_available = g.data_available /\ j.phase = g.phase
    BY <1>1, <2>11 DEF ButHead, Chip
  <2>14. ButHead(ButHead(g)) = ButHead(g)  BY <2>12 DEF ButHead, Chip
  <2> HIDE DEF h
  <2>15. ButHead(AfterReadData(h, d, i, t)) = ButHead(AfterReadData(f, d, i, t))
    BY <2>4, <2>5, <2>12, <2>13, <2>14, FinishReadButHead, EndButHead
  <2> QED BY <2>15 DEF h
<1> QED BY <1>3, <1>4

\* The parser of a track, but for the head.
LEMMA ParseButHead ==
  ASSUME NEW f \in Chip, NEW v
  PROVE  ParseTrackByte(ButHead(f), v) = ButHead(ParseTrackByte(f, v))
<1> DEFINE g == [f EXCEPT !.wt_a1 = FALSE]
           h == [ButHead(f) EXCEPT !.wt_a1 = FALSE]
<1>1. h = ButHead(g) /\ g \in Chip  BY DEF ButHead, Chip
<1>2. /\ ButHead(f).wt_a1 = f.wt_a1 /\ ButHead(f).wt_expect_id = f.wt_expect_id
      /\ ButHead(f).wt_id_count = f.wt_id_count /\ ButHead(f).wt_r = f.wt_r
      /\ ButHead(f).wt_in_data = f.wt_in_data /\ ButHead(f).wt_data_count = f.wt_data_count
  BY DEF ButHead, Chip
<1>3. /\ IsIdMark(ButHead(f), v) <=> IsIdMark(f, v)
      /\ IsDataMark(ButHead(f), v) <=> IsDataMark(f, v)
  BY <1>2 DEF IsIdMark, IsDataMark
<1> DEFINE c == f.wt_id_count
           n == f.wt_data_count
           r == f.wt_r
           Id(x) == [x EXCEPT !.wt_r = IF c = 2 THEN v ELSE @,
                              !.wt_id_count = IF @ < 4 THEN @ + 1 ELSE @,
                              !.wt_sector_num = IF c = 3 THEN r ELSE @,
                              !.wt_expect_id = c # 3]
           Data(x) == [x EXCEPT !.wt_data[n + 1] = v, !.wt_data_count = @ + 1]
<1>4. ASSUME NEW x \in Chip
      PROVE  /\ [ButHead(x) EXCEPT !.wt_a1 = TRUE] = ButHead([x EXCEPT !.wt_a1 = TRUE])
             /\ [ButHead(x) EXCEPT !.wt_expect_id = TRUE, !.wt_id_count = 0]
                  = ButHead([x EXCEPT !.wt_expect_id = TRUE, !.wt_id_count = 0])
             /\ [ButHead(x) EXCEPT !.wt_in_data = TRUE, !.wt_data_count = 0, !.wt_data = ZeroSector]
                  = ButHead([x EXCEPT !.wt_in_data = TRUE, !.wt_data_count = 0, !.wt_data = ZeroSector])
             /\ [ButHead(x) EXCEPT !.wt_in_data = v # CrcMark]
                  = ButHead([x EXCEPT !.wt_in_data = v # CrcMark])
  BY DEF ButHead, Chip
<1>5. ASSUME NEW x \in Chip  PROVE Id(ButHead(x)) = ButHead(Id(x))
  <2> DEFINE p == IF c = 2 THEN v ELSE x.wt_r
             q == IF x.wt_id_count < 4 THEN x.wt_id_count + 1 ELSE x.wt_id_count
             z == IF c = 3 THEN r ELSE x.wt_sector_num
             e == c # 3
  <2>1. /\ Id(x) = [x EXCEPT !.wt_r = p, !.wt_id_count = q, !.wt_sector_num = z, !.wt_expect_id = e]
        /\ Id(ButHead(x)) = [ButHead(x) EXCEPT !.wt_r = p, !.wt_id_count = q, !.wt_sector_num = z,
                                               !.wt_expect_id = e]
    BY <1>5 DEF ButHead, Chip
  <2> HIDE DEF p, q, z, e, Id
  <2> QED BY <2>1 DEF ButHead, Chip
<1>6. ASSUME NEW x \in Chip  PROVE Data(ButHead(x)) = ButHead(Data(x))
  <2> DEFINE p == [x.wt_data EXCEPT ![n + 1] = v]
             q == x.wt_data_count + 1
  <2>1. /\ Data(x) = [x EXCEPT !.wt_data = p, !.wt_data_count = q]
        /\ Data(ButHead(x)) = [ButHead(x) EXCEPT !.wt_data = p, !.wt_data_count = q]
    BY <1>6 DEF ButHead, Chip
  <2> HIDE DEF p, q, Data
  <2> QED BY <2>1 DEF ButHead, Chip
<1>7. /\ ParseTrackByte(f, v) =
           IF v = A1Mark THEN [f EXCEPT !.wt_a1 = TRUE]
           ELSE IF IsIdMark(f, v) THEN [g EXCEPT !.wt_expect_id = TRUE, !.wt_id_count = 0]
           ELSE IF IsDataMark(f, v)
           THEN [g EXCEPT !.wt_in_data = TRUE, !.wt_data_count = 0, !.wt_data = ZeroSector]
           ELSE IF f.wt_expect_id THEN Id(g)
           ELSE IF ~f.wt_in_data THEN g
           ELSE IF f.wt_data_count < SectorSize THEN Data(g)
           ELSE [g EXCEPT !.wt_in_data = v # CrcMark]
      /\ ParseTrackByte(ButHead(f), v) =
           IF v = A1Mark THEN [ButHead(f) EXCEPT !.wt_a1 = TRUE]
           ELSE IF IsIdMark(f, v) THEN [h EXCEPT !.wt_expect_id = TRUE, !.wt_id_count = 0]
           ELSE IF IsDataMark(f, v)
           THEN [h EXCEPT !.wt_in_data = TRUE, !.wt_data_count = 0, !.wt_data = ZeroSector]
           ELSE IF f.wt_expect_id THEN Id(h)
           ELSE IF ~f.wt_in_data THEN h
           ELSE IF f.wt_data_count < SectorSize THEN Data(h)
           ELSE [h EXCEPT !.wt_in_data = v # CrcMark]
  BY <1>2, <1>3, Zenon DEF ParseTrackByte
<1> HIDE DEF g, h, c, n, r, Id, Data
<1> QED BY <1>1, <1>4, <1>5, <1>6, <1>7

\* A write of the data register, but for the head.
LEMMA WriteDataButHead ==
  ASSUME NEW f, NEW fast, Sound(f, fast), NEW d \in Drive, NEW v \in Byte, NEW t \in Nat
  PROVE  ButHead(AfterWriteData(ButHead(f), d, v, t)) = ButHead(AfterWriteData(f, d, v, t))
<1> DEFINE g == [f EXCEPT !.data_reg = v]
           h == [ButHead(f) EXCEPT !.data_reg = v]
           p == [ParseTrackByte(g, v) EXCEPT !.data_available = @ - 1,
                                             !.drq_deadline = t + ByteCycles(f)]
           q == [ParseTrackByte(h, v) EXCEPT !.data_available = @ - 1,
                                             !.drq_deadline = t + ByteCycles(f)]
<1>1. /\ f \in Chip /\ ButHead(f).phase = f.phase /\ ByteCycles(ButHead(f)) = ByteCycles(f)
      /\ ByteCycles(f) \in Nat
  BY SoundButHead, ButHeadType, CycleTypes
<1>2. Sound(g, fast) /\ g \in Chip /\ h = ButHead(g) /\ g.phase = f.phase
      /\ ButHead(h) = h
  BY <1>1 DEF Sound, Balanced, Chip, ButHead
<1>3. /\ AfterWriteData(f, d, v, t) =
           IF f.phase = "WriteSector" THEN CommitByte(g, d, v, t)
           ELSE IF f.phase # "WriteTrack" THEN g
           ELSE IF p.data_available = 0 THEN EndCommand(p, t) ELSE p
      /\ AfterWriteData(ButHead(f), d, v, t) =
           IF f.phase = "WriteSector" THEN CommitByte(h, d, v, t)
           ELSE IF f.phase # "WriteTrack" THEN h
           ELSE IF q.data_available = 0 THEN EndCommand(q, t) ELSE q
  BY <1>1, Zenon DEF AfterWriteData
<1>4. CASE f.phase = "WriteSector"
  <2> HIDE DEF g, h, p, q
  <2> QED BY <1>2, <1>3, <1>4, CommitButHead
<1>5. CASE f.phase \notin {"WriteSector", "WriteTrack"}
  <2> HIDE DEF g, h, p, q
  <2> QED BY <1>2, <1>3, <1>5
<1>6. CASE f.phase = "WriteTrack"
  <2> DEFINE m == ParseTrackByte(g, v)
             a == m.data_available - 1
             drq == t + ByteCycles(f)
  <2>1. m \in Chip /\ SameTransfer(g, m) /\ ParseTrackByte(h, v) = ButHead(m)
    <3> HIDE DEF g, h
    <3> QED BY <1>2, ParseTrackByteType, ParseButHead
  <2>2. a \in Nat /\ drq \in Nat
    <3>1. f.data_available \in Nat /\ f.data_available > 0 /\ g.data_available = f.data_available
      BY <1>1, <1>6 DEF Sound, Balanced, Chip
    <3>2. m.data_available = f.data_available  BY <2>1, <3>1 DEF SameTransfer
    <3> HIDE DEF m
    <3> QED BY <1>1, <3>1, <3>2
  <2> HIDE DEF g, h
  <2>3. p = [m EXCEPT !.data_available = a, !.drq_deadline = drq]
        /\ q = [ButHead(m) EXCEPT !.data_available = a, !.drq_deadline = drq]
    BY <2>1 DEF ButHead, Chip
  <2> HIDE DEF p, q, m, a, drq
  <2>4. p \in Chip /\ q = ButHead(p) /\ q.data_available = p.data_available /\ ButHead(q) = q
    BY <2>1, <2>2, <2>3 DEF ButHead, Chip
  <2> QED BY <1>3, <1>6, <2>4, EndButHead
<1> QED BY <1>4, <1>5, <1>6

\* What a byte lays on the disk does not depend on the head.
LEMMA ImageAfterWriteDataButHead ==
  ASSUME NEW f \in Chip, NEW d, NEW i, NEW v
  PROVE  ImageAfterWriteData(ButHead(f), d, i, v) = ImageAfterWriteData(f, d, i, v)
<1>1. TrackByteLays(ButHead(f), v) <=> TrackByteLays(f, v)
  BY DEF TrackByteLays, IsIdMark, IsDataMark, ButHead, Chip
<1>2. /\ ButHead(f).phase = f.phase /\ ButHead(f).data_available = f.data_available
      /\ ButHead(f).write_track_num = f.write_track_num /\ ButHead(f).write_side = f.write_side
      /\ ButHead(f).write_sector_num = f.write_sector_num
      /\ ButHead(f).buffer = f.buffer /\ ButHead(f).data_index = f.data_index
      /\ ButHead(f).wt_sector_num = f.wt_sector_num /\ ButHead(f).wt_data = f.wt_data
  BY DEF ButHead, Chip
<1> QED BY <1>1, <1>2 DEF ImageAfterWriteData

\* The start of a Type I command, but for the head.
LEMMA StartType1ButHead ==
  ASSUME NEW f \in Chip, NEW d \in Drive, NEW cmd \in Command, NEW t \in Nat
  PROVE  ButHead(StartType1(ButHead(f), d, cmd, t)) = ButHead(StartType1(f, d, cmd, t))
<1> DEFINE h == ButHead(f)
           st == (f.status \ {"NotFound"}) \cup {"Busy"}
                 \cup (IF cmd.op = "Restore" /\ ~d.available /\ "V" \in cmd.flags
                       THEN {"NotFound"} ELSE {})
           ld == "H" \in cmd.flags
           tr == TrackRegAfter(f, d, cmd)
           dr == IF cmd.op = "Restore" THEN 0 ELSE f.data_reg
           dir == DirectionAfter(f, d, cmd)
           bu == t + Pulses(f, d, cmd) * StepRate(f, cmd)
                 + (IF "V" \in cmd.flags THEN Settle(f) ELSE 0)
           With(x, hs) == [x EXCEPT !.status = st, !.phase = "Type1Seek", !.hld_active = ld,
                                    !.hld_since = hs, !.track_reg = tr, !.data_reg = dr,
                                    !.direction_in = dir, !.busy_until = bu]
<1>1. /\ h.status = f.status /\ h.data_reg = f.data_reg /\ h.track_reg = f.track_reg
      /\ h.direction_in = f.direction_in /\ h.fast_disk = f.fast_disk
  BY DEF ButHead, Chip
<1>2. HeadAfter(h, d, cmd) = HeadAfter(f, d, cmd)  BY <1>1 DEF HeadAfter
<1>3. DirectionAfter(h, d, cmd) = dir  BY <1>1 DEF DirectionAfter
<1>4. TrackRegAfter(h, d, cmd) = tr  BY <1>1, <1>2, <1>3 DEF TrackRegAfter
<1>5. Pulses(h, d, cmd) = Pulses(f, d, cmd) /\ StepRate(h, cmd) = StepRate(f, cmd)
      /\ Settle(h) = Settle(f)
  BY <1>1 DEF Pulses, StepRate, Settle
<1>6. StartType1(f, d, cmd, t) = With(f, IF ld THEN t ELSE f.hld_since)
  BY Zenon DEF StartType1
<1>7. StartType1(h, d, cmd, t) = With(h, IF ld THEN t ELSE h.hld_since)
  <2> HIDE DEF h
  <2> QED BY <1>1, <1>3, <1>4, <1>5, Zenon DEF StartType1
<1> HIDE DEF st, ld, tr, dr, dir, bu
<1>8. \A a, b : ButHead(With(h, a)) = ButHead(With(f, b))  BY DEF ButHead, Chip
<1> HIDE DEF h, With
<1>9. ButHead(StartType1(h, d, cmd, t)) = ButHead(StartType1(f, d, cmd, t))
  BY <1>6, <1>7, <1>8
<1> QED BY <1>9 DEF h

\* A head that is loaded is loaded now, whenever it was before.
LEMMA LoadButHead ==
  ASSUME NEW f \in Chip, NEW g \in Chip, ButHead(f) = ButHead(g), NEW t \in Nat
  PROVE  LoadHead(f, t) = LoadHead(g, t)
<1>1. f = [ButHead(f) EXCEPT !.hld_since = f.hld_since]
      /\ g = [ButHead(f) EXCEPT !.hld_since = g.hld_since]
  BY DEF ButHead, Chip
<1> DEFINE h == ButHead(f)
<1>2. h \in Chip  BY ButHeadType
<1> HIDE DEF h
<1>3. \A a : LoadHead([h EXCEPT !.hld_since = a], t) = LoadHead(h, t)
  BY <1>2 DEF LoadHead, Chip
<1> QED BY <1>1, <1>3 DEF h

\* The start of a Type II command, but for the head.
LEMMA StartType2ButHead ==
  ASSUME NEW f \in Chip, NEW d \in Drive, NEW i \in Image, NEW cmd \in Command, NEW t \in Nat
  PROVE  ButHead(StartType2(ButHead(f), d, i, cmd, t)) = ButHead(StartType2(f, d, i, cmd, t))
<1> DEFINE st == (f.status \ {"LostData", "NotFound", "WriteProtected"}) \cup {"Busy"}
           g == [f EXCEPT !.status = st]
           k == [ButHead(f) EXCEPT !.status = st]
           h == LoadHead(g, t)
           j == LoadHead(k, t)
<1>1. ButHead(f).status = f.status /\ ButHead(f).track_reg = f.track_reg
      /\ (OnTrack(ButHead(f)) <=> OnTrack(f)) /\ ButHead(f) \in Chip
  BY DEF ButHead, Chip, OnTrack
<1>2. st \in SUBSET StickyBits  BY DEF Chip, StickyBits
<1>3. /\ StartType2(f, d, i, cmd, t) =
           IF ~Ready(d) THEN EndCommand(g, t)
           ELSE IF ~(d.physical_track = f.track_reg /\ OnTrack(f)) THEN Fail(h, "NotFound", t)
           ELSE IF cmd.op = "ReadSector" THEN BeginReadSector(h, d, i, t)
           ELSE IF WriteProtected(d, i) THEN Fail(h, "WriteProtected", t)
           ELSE BeginWriteSector(h, d, t)
      /\ StartType2(ButHead(f), d, i, cmd, t) =
           IF ~Ready(d) THEN EndCommand(k, t)
           ELSE IF ~(d.physical_track = f.track_reg /\ OnTrack(f)) THEN Fail(j, "NotFound", t)
           ELSE IF cmd.op = "ReadSector" THEN BeginReadSector(j, d, i, t)
           ELSE IF WriteProtected(d, i) THEN Fail(j, "WriteProtected", t)
           ELSE BeginWriteSector(j, d, t)
  BY <1>1, Zenon DEF StartType2
<1> HIDE DEF st
<1>4. g \in Chip /\ k \in Chip /\ k = ButHead(g) /\ ButHead(k) = ButHead(g)
  BY <1>1, <1>2 DEF ButHead, Chip
<1> HIDE DEF g, k
<1>5. h = j  BY <1>4, LoadButHead
<1> HIDE DEF h, j
<1>6. ButHead(EndCommand(k, t)) = ButHead(EndCommand(g, t))  BY <1>4, EndButHead
<1> QED BY <1>3, <1>5, <1>6, Zenon

\* The start of a Type III command, but for the head.
LEMMA StartType3ButHead ==
  ASSUME NEW f \in Chip, NEW d \in Drive, NEW i \in Image, NEW cmd \in Command, NEW t \in Nat
  PROVE  ButHead(StartType3(ButHead(f), d, i, cmd, t)) = ButHead(StartType3(f, d, i, cmd, t))
<1> DEFINE st == (f.status \ {"LostData", "NotFound"}) \cup {"Busy"}
           g == [f EXCEPT !.status = st]
           k == [ButHead(f) EXCEPT !.status = st]
           drq == t + ReadStartCycles(f)
           From(x) ==
             LET h == [x EXCEPT !.data_index = 0, !.drq_deadline = drq]
             IN  IF cmd.op = "ReadAddress"
                 THEN [h EXCEPT !.buffer = IdField(d), !.sector_reg = d.physical_track,
                                !.data_available = 6, !.phase = "ReadAddress"]
                 ELSE IF cmd.op = "ReadTrack"
                 THEN [h EXCEPT !.buffer = RawTrack(d, i), !.data_available = TrackLength,
                                !.phase = "ReadTrack"]
                 ELSE IF WriteProtected(d, i) THEN Fail(x, "WriteProtected", t)
                 ELSE [h EXCEPT !.write_track_num = d.physical_track, !.write_side = d.side,
                                !.wt_a1 = FALSE, !.wt_expect_id = FALSE, !.wt_in_data = FALSE,
                                !.wt_data = ZeroSector,
                                !.data_available = TrackLength, !.phase = "WriteTrack"]
<1>1. ButHead(f).status = f.status /\ ReadStartCycles(ButHead(f)) = ReadStartCycles(f)
      /\ ButHead(f) \in Chip
  BY ButHeadType DEF ButHead, Chip, ReadStartCycles
<1>2. st \in SUBSET StickyBits  BY DEF Chip, StickyBits
<1>3. /\ StartType3(f, d, i, cmd, t) =
           IF ~Ready(d) THEN EndCommand(g, t) ELSE From(LoadHead(g, t))
      /\ StartType3(ButHead(f), d, i, cmd, t) =
           IF ~Ready(d) THEN EndCommand(k, t) ELSE From(LoadHead(k, t))
  BY <1>1, Zenon DEF StartType3
<1> HIDE DEF st, From
<1>4. g \in Chip /\ k \in Chip /\ k = ButHead(g) /\ ButHead(k) = ButHead(g)
  BY <1>1, <1>2 DEF ButHead, Chip
<1> HIDE DEF g, k
<1>5. LoadHead(g, t) = LoadHead(k, t)  BY <1>4, LoadButHead
<1>6. ButHead(EndCommand(k, t)) = ButHead(EndCommand(g, t))  BY <1>4, EndButHead
<1> QED BY <1>3, <1>5, <1>6, Zenon

\* Force Interrupt, but for the head.
LEMMA StartType4ButHead ==
  ASSUME NEW f \in Chip, NEW d, NEW cmd, NEW t
  PROVE  ButHead(StartType4(ButHead(f), d, cmd, t)) = ButHead(StartType4(f, d, cmd, t))
<1> DEFINE arms == "I2" \in cmd.flags /\ Ready(d)
           im == IF "I3" \in cmd.flags THEN TRUE
                 ELSE IF cmd.flags = {} THEN FALSE ELSE f.immediate_irq
           ip == f.intrq_pending \/ "I3" \in cmd.flags
           ia == f.index_irq_armed \/ arms
           id == IF arms THEN t + CyclesUntilIndexPulse(t) ELSE f.index_irq_deadline
           st == f.status \ {"Busy"}
           With(x) == [x EXCEPT !.immediate_irq = im, !.intrq_pending = ip,
                                !.index_irq_armed = ia, !.index_irq_deadline = id,
                                !.phase = "Idle", !.data_available = 0, !.status = st]
<1>1. /\ ButHead(f).immediate_irq = f.immediate_irq /\ ButHead(f).intrq_pending = f.intrq_pending
      /\ ButHead(f).index_irq_armed = f.index_irq_armed
      /\ ButHead(f).index_irq_deadline = f.index_irq_deadline
      /\ ButHead(f).status = f.status
  BY DEF ButHead, Chip
<1>2. StartType4(f, d, cmd, t) = With(f)  BY Zenon DEF StartType4
<1>3. StartType4(ButHead(f), d, cmd, t) = With(ButHead(f))
  <2> DEFINE h == ButHead(f)
  <2> HIDE DEF h
  <2>1. /\ h.immediate_irq = f.immediate_irq /\ h.intrq_pending = f.intrq_pending
        /\ h.index_irq_armed = f.index_irq_armed
        /\ h.index_irq_deadline = f.index_irq_deadline
        /\ h.status = f.status
    BY <1>1 DEF h
  <2>2. StartType4(h, d, cmd, t) = With(h)  BY <2>1, Zenon DEF StartType4
  <2> QED BY <2>2 DEF h
<1> HIDE DEF im, ip, ia, id, st
<1>4. ButHead(With(ButHead(f))) = ButHead(With(f))  BY DEF ButHead, Chip
<1> QED BY <1>2, <1>3, <1>4

\* A command, but for the head.
LEMMA WriteCommandButHead ==
  ASSUME NEW f \in Chip, NEW d \in Drive, NEW i \in Image, NEW cmd \in Command, NEW t \in Nat
  PROVE  ButHead(AfterWriteCommand(ButHead(f), d, i, cmd, t))
           = ButHead(AfterWriteCommand(f, d, i, cmd, t))
<1> DEFINE g == [f EXCEPT !.command_reg = cmd]
           h == [g EXCEPT !.intrq_pending = FALSE, !.immediate_irq = FALSE,
                          !.index_irq_armed = FALSE]
           k == [ButHead(f) EXCEPT !.command_reg = cmd]
           j == [k EXCEPT !.intrq_pending = FALSE, !.immediate_irq = FALSE,
                          !.index_irq_armed = FALSE]
<1>1. g \in Chip /\ h \in Chip /\ k = ButHead(g) /\ j = ButHead(h)  BY DEF ButHead, Chip
<1>2. /\ AfterWriteCommand(f, d, i, cmd, t) =
           CASE cmd.op \in Type1Ops -> StartType1(h, d, cmd, t)
             [] cmd.op \in Type2Ops -> StartType2(h, d, i, cmd, t)
             [] cmd.op \in Type3Ops -> StartType3(h, d, i, cmd, t)
             [] OTHER               -> StartType4(g, d, cmd, t)
      /\ AfterWriteCommand(ButHead(f), d, i, cmd, t) =
           CASE cmd.op \in Type1Ops -> StartType1(j, d, cmd, t)
             [] cmd.op \in Type2Ops -> StartType2(j, d, i, cmd, t)
             [] cmd.op \in Type3Ops -> StartType3(j, d, i, cmd, t)
             [] OTHER               -> StartType4(k, d, cmd, t)
  BY Zenon DEF AfterWriteCommand
<1> HIDE DEF g, h, k, j
<1>3. /\ ButHead(StartType1(j, d, cmd, t)) = ButHead(StartType1(h, d, cmd, t))
      /\ ButHead(StartType2(j, d, i, cmd, t)) = ButHead(StartType2(h, d, i, cmd, t))
      /\ ButHead(StartType3(j, d, i, cmd, t)) = ButHead(StartType3(h, d, i, cmd, t))
      /\ ButHead(StartType4(k, d, cmd, t)) = ButHead(StartType4(g, d, cmd, t))
  BY <1>1, StartType1ButHead, StartType2ButHead, StartType3ButHead, StartType4ButHead
<1>4. Type1Ops \cap Type2Ops = {} /\ Type1Ops \cap Type3Ops = {} /\ Type2Ops \cap Type3Ops = {}
  BY DEF Type1Ops, Type2Ops, Type3Ops
<1>5. CASE cmd.op \in Type1Ops   BY <1>2, <1>3, <1>4, <1>5
<1>6. CASE cmd.op \in Type2Ops   BY <1>2, <1>3, <1>4, <1>6
<1>7. CASE cmd.op \in Type3Ops   BY <1>2, <1>3, <1>4, <1>7
<1>8. CASE cmd.op \notin Type1Ops \cup Type2Ops \cup Type3Ops   BY <1>2, <1>3, <1>8
<1> QED BY <1>5, <1>6, <1>7, <1>8

(***************************************************************************)
(* The slots of an abandoned write that lie a revolution back.  They are   *)
(* the first ones, so their number says which they are.                    *)
(***************************************************************************)
SlotLate(f, k, t) == t >= f.drq_deadline + k * ByteCycles(f) + FirstByteWindow

\* Slots go by in their order.
LEMMA SlotOrder ==
  ASSUME NEW f \in Chip, NEW t \in Nat, NEW j \in Nat, NEW k \in Nat, j <= k, SlotLate(f, k, t)
  PROVE  SlotLate(f, j, t)
<1> DEFINE bc == ByteCycles(f)
<1>1. bc \in Nat /\ FirstByteWindow \in Nat /\ f.drq_deadline \in Nat  BY CycleTypes DEF Chip
<1> HIDE DEF bc
<1>2. j * bc \in Nat /\ k * bc \in Nat /\ (k - j) * bc \in Nat  BY <1>1
<1>3. k * bc = j * bc + (k - j) * bc  BY <1>1
<1> DEFINE a == j * bc
           b == (k - j) * bc
           c == k * bc
<1>4. t >= f.drq_deadline + c + FirstByteWindow  BY DEF SlotLate, bc
<1>5. c = a + b /\ a \in Nat /\ b \in Nat  BY <1>2, <1>3
<1> HIDE DEF a, b, c
<1>6. t >= f.drq_deadline + a + FirstByteWindow  BY <1>1, <1>4, <1>5
<1> QED BY <1>6 DEF SlotLate, bc, a

\* The slots that went by are the first ones.
LEMMA SlotsAre ==
  ASSUME NEW f \in Chip, NEW t \in Nat
  PROVE  \A k \in 0 .. f.data_available - 1 : SlotLate(f, k, t) <=> k < AbandonedSlots(f, t)
<1> DEFINE all == 0 .. f.data_available - 1
           late == {k \in all : SlotLate(f, k, t)}
           n == AbandonedSlots(f, t)
<1>1. n = Cardinality(late)  BY DEF AbandonedSlots, SlotLate
<1>2. f.data_available \in Nat /\ n \in 0 .. f.data_available /\ n \in Nat /\ n - 1 \in Int
  <2>1. n \in 0 .. f.data_available  BY AbandonedSlotsBound
  <2>2. f.data_available \in Nat  BY DEF Chip
  <2> HIDE DEF n
  <2> QED BY <2>1, <2>2
<1>3. IsFiniteSet(all)
  <2> DEFINE a == f.data_available - 1
  <2>1. a \in Int /\ 0 \in Int  BY <1>2
  <2> HIDE DEF a
  <2>2. IsFiniteSet(0 .. a)  BY <2>1, FS_Interval
  <2> QED BY <2>2 DEF a
<1>4. IsFiniteSet(late)  BY <1>3, FS_Subset
<1> HIDE DEF n
<1>5. ASSUME NEW k \in late  PROVE k < n
  <2>1. k \in Nat /\ SlotLate(f, k, t) /\ k \in all  BY <1>2
  <2>2. \A j \in 0 .. k : j \in late  BY <1>2, <2>1, SlotOrder
  <2>3. 0 .. k \subseteq late  BY <2>2
  <2>4. Cardinality(0 .. k) = k + 1  BY <2>1, FS_Interval
  <2> HIDE DEF late
  <2>5. Cardinality(0 .. k) <= n  BY <1>1, <1>4, <2>3, FS_Subset
  <2> QED BY <1>2, <2>1, <2>4, <2>5
<1> DEFINE first == 0 .. n - 1
<1>6. late \subseteq first  BY <1>2, <1>5
<1>7. IsFiniteSet(first) /\ Cardinality(first) = n
  <2> DEFINE a == n - 1
  <2>1. a \in Int /\ 0 \in Int  BY <1>2
  <2>2. (IF 0 > a THEN 0 ELSE a - 0 + 1) = n  BY <1>2
  <2> HIDE DEF a
  <2>3. IsFiniteSet(0 .. a) /\ Cardinality(0 .. a) = IF 0 > a THEN 0 ELSE a - 0 + 1
    BY <2>1, FS_Interval
  <2> QED BY <2>2, <2>3 DEF a
<1>8. late = first
  <2> HIDE DEF late, first
  <2> QED BY <1>1, <1>6, <1>7, FS_Subset
<1>9. \A k \in all : SlotLate(f, k, t) <=> k < n
  <2>1. \A k \in all : SlotLate(f, k, t) <=> k \in late  OBVIOUS
  <2>2. \A k \in all : k \in first <=> k < n  BY <1>2
  <2> HIDE DEF all, late, first
  <2> QED BY <1>8, <2>1, <2>2
<1> QED BY <1>9 DEF n

\* No other number of slots does that.
LEMMA SlotsUnique ==
  ASSUME NEW f \in Chip, NEW t \in Nat, NEW n \in 0 .. f.data_available,
         \A k \in 0 .. f.data_available - 1 : SlotLate(f, k, t) <=> k < n
  PROVE  AbandonedSlots(f, t) = n
<1> DEFINE late == {k \in 0 .. f.data_available - 1 : SlotLate(f, k, t)}
<1>1. f.data_available \in Nat  BY DEF Chip
<1>2. late = 0 .. n - 1  BY <1>1
<1>3. Cardinality(0 .. n - 1) = n  BY <1>1, FS_Interval
<1> QED BY <1>2, <1>3 DEF AbandonedSlots, SlotLate

\* As time goes by no fewer slots have.
LEMMA SlotsGrow ==
  ASSUME NEW f \in Chip, NEW t \in Nat, NEW u \in Nat, t <= u
  PROVE  AbandonedSlots(f, t) <= AbandonedSlots(f, u)
<1> DEFINE m == AbandonedSlots(f, t)
           n == AbandonedSlots(f, u)
<1>1. f.data_available \in Nat /\ m \in 0 .. f.data_available /\ n \in 0 .. f.data_available
  BY AbandonedSlotsBound DEF Chip
<1>2. ASSUME NEW k \in Nat, SlotLate(f, k, t)  PROVE SlotLate(f, k, u)
  <2> DEFINE e == f.drq_deadline + k * ByteCycles(f) + FirstByteWindow
  <2>1. ByteCycles(f) \in Nat /\ FirstByteWindow \in Nat /\ f.drq_deadline \in Nat
    BY CycleTypes DEF Chip
  <2>2. k * ByteCycles(f) \in Nat  BY <2>1
  <2>3. e \in Nat
    <3> DEFINE c == k * ByteCycles(f)
    <3>1. c \in Nat  BY <2>2
    <3> HIDE DEF c
    <3>2. f.drq_deadline + c + FirstByteWindow \in Nat  BY <2>1, <3>1
    <3> QED BY <3>2 DEF c
  <2>4. t >= e  BY <1>2 DEF SlotLate
  <2> HIDE DEF e
  <2>5. u >= e  BY <2>3, <2>4
  <2> QED BY <2>5 DEF SlotLate, e
<1>3. /\ \A k \in 0 .. f.data_available - 1 : SlotLate(f, k, t) <=> k < m
      /\ \A k \in 0 .. f.data_available - 1 : SlotLate(f, k, u) <=> k < n
  BY SlotsAre
<1> SUFFICES m <= n  OBVIOUS
<1> HIDE DEF m, n
<1>4. CASE m = 0  BY <1>1, <1>4
<1>5. CASE m > 0
  <2>1. m - 1 \in 0 .. f.data_available - 1 /\ m - 1 \in Nat /\ m - 1 < m  BY <1>1, <1>5
  <2>2. m - 1 < n  BY <1>2, <1>3, <2>1
  <2> QED BY <1>1, <2>2
<1> QED BY <1>1, <1>4, <1>5

(***************************************************************************)
(* Substituting n slots and then m is substituting their sum.              *)
(***************************************************************************)
Filled(f, n) ==
  [f EXCEPT !.buffer = ZeroFilled(f, n), !.status = @ \cup {"LostData"},
            !.data_index = @ + n, !.data_available = @ - n,
            !.drq_deadline = @ + n * ByteCycles(f)]

\* What a number of zeros changes in the chip.
LEMMA FilledFields ==
  ASSUME NEW f \in Chip, NEW n \in 0 .. f.data_available
  PROVE  /\ Filled(f, n) \in Chip
         /\ Filled(f, n).phase = f.phase /\ Filled(f, n).fast_disk = f.fast_disk
         /\ Filled(f, n).data_index = f.data_index + n
         /\ Filled(f, n).data_available = f.data_available - n
         /\ Filled(f, n).drq_deadline = f.drq_deadline + n * ByteCycles(f)
         /\ Filled(f, n).buffer = ZeroFilled(f, n)
         /\ Filled(f, n).status = f.status \cup {"LostData"}
         /\ Filled(f, n).command_reg = f.command_reg
         /\ Filled(f, n).last_sync = f.last_sync
         /\ Filled(f, n).busy_until = f.busy_until
         /\ Filled(f, n).write_track_num = f.write_track_num
         /\ Filled(f, n).write_side = f.write_side
         /\ Filled(f, n).write_sector_num = f.write_sector_num
<1> DEFINE b == ZeroFilled(f, n)
           st == f.status \cup {"LostData"}
           k == f.data_index + n
           m == f.data_available - n
           drq == f.drq_deadline + n * ByteCycles(f)
<1>1. /\ f.data_index \in Nat /\ f.data_available \in Nat /\ n \in Nat
      /\ f.drq_deadline \in Nat /\ ByteCycles(f) \in Nat /\ f.status \in SUBSET StickyBits
  BY CycleTypes DEF Chip
<1>2. b \in Seq(Byte)  BY <1>1, ZeroFilledType
<1>3. st \in SUBSET StickyBits  BY <1>1 DEF StickyBits
<1>4. n * ByteCycles(f) \in Nat  BY <1>1
<1>5. k \in Nat /\ m \in Nat  BY <1>1
<1>6. drq \in Nat
  <2> DEFINE e == n * ByteCycles(f)
  <2>1. e \in Nat  BY <1>4
  <2> HIDE DEF e
  <2>2. f.drq_deadline + e \in Nat  BY <1>1, <2>1
  <2> QED BY <2>2 DEF e
<1>7. Filled(f, n) = [f EXCEPT !.buffer = b, !.status = st, !.data_index = k,
                               !.data_available = m, !.drq_deadline = drq]
  BY Zenon DEF Filled
<1> HIDE DEF b, st, k, m, drq
<1>8. Filled(f, n) \in Chip
  <2> DEFINE c == [f EXCEPT !.buffer = b, !.data_index = k, !.data_available = m,
                            !.drq_deadline = drq]
  <2>1. c \in Chip  BY <1>2, <1>5, <1>6, CommitFieldsType, Zenon
  <2>2. Filled(f, n) = [c EXCEPT !.status = st]  BY <1>7 DEF Chip
  <2> HIDE DEF c
  <2> QED BY <1>3, <2>1, <2>2 DEF Chip
<1>9. /\ Filled(f, n).phase = f.phase /\ Filled(f, n).fast_disk = f.fast_disk
      /\ Filled(f, n).data_index = k /\ Filled(f, n).data_available = m
      /\ Filled(f, n).drq_deadline = drq /\ Filled(f, n).buffer = b
      /\ Filled(f, n).status = st /\ Filled(f, n).command_reg = f.command_reg
      /\ Filled(f, n).last_sync = f.last_sync
      /\ Filled(f, n).busy_until = f.busy_until
      /\ Filled(f, n).write_track_num = f.write_track_num
      /\ Filled(f, n).write_side = f.write_side
      /\ Filled(f, n).write_sector_num = f.write_sector_num
  BY <1>7 DEF Chip
<1> QED BY <1>8, <1>9 DEF b, st, k, m, drq

\* Zeros in two parts are zeros at once.
LEMMA FilledTwice ==
  ASSUME NEW f \in Chip, NEW n \in 0 .. f.data_available, NEW m \in 0 .. f.data_available - n
  PROVE  /\ Filled(Filled(f, n), m) = Filled(f, n + m)
         /\ ZeroFilled(Filled(f, n), m) = ZeroFilled(f, n + m)
<1> DEFINE g == Filled(f, n)
           bc == ByteCycles(f)
<1>1. /\ f.data_index \in Nat /\ f.data_available \in Nat /\ n \in Nat /\ m \in Nat
      /\ f.drq_deadline \in Nat /\ bc \in Nat /\ f.buffer \in Seq(Byte)
  BY CycleTypes DEF Chip
<1>2. /\ g \in Chip /\ g.fast_disk = f.fast_disk
      /\ g.data_index = f.data_index + n /\ g.data_available = f.data_available - n
      /\ g.drq_deadline = f.drq_deadline + n * bc
      /\ g.buffer = ZeroFilled(f, n) /\ g.status = f.status \cup {"LostData"}
  BY FilledFields
<1>3. ByteCycles(g) = bc  BY <1>2 DEF ByteCycles
<1>4. ZeroFilled(g, m) = ZeroFilled(f, n + m)
  <2>1. DOMAIN g.buffer = DOMAIN f.buffer
        /\ \A j \in DOMAIN f.buffer :
             g.buffer[j] = IF j > f.data_index /\ j <= f.data_index + n THEN 0 ELSE f.buffer[j]
    BY <1>2 DEF ZeroFilled
  <2>2. \A j \in DOMAIN f.buffer : j \in Nat  BY <1>1
  <2> HIDE DEF g
  <2>3. \A j \in DOMAIN f.buffer :
          (IF j > g.data_index /\ j <= g.data_index + m THEN 0 ELSE g.buffer[j])
            = (IF j > f.data_index /\ j <= f.data_index + (n + m) THEN 0 ELSE f.buffer[j])
    BY <1>1, <1>2, <2>1, <2>2
  <2> QED BY <2>1, <2>3 DEF ZeroFilled
<1>5. g.data_index + m = f.data_index + (n + m)
      /\ g.data_available - m = f.data_available - (n + m)
      /\ g.status \cup {"LostData"} = f.status \cup {"LostData"}
  BY <1>1, <1>2
<1>6. g.drq_deadline + m * bc = f.drq_deadline + (n + m) * bc
  <2> DEFINE x == n * bc
             y == m * bc
  <2> HIDE DEF bc
  <2>1. x \in Nat /\ y \in Nat /\ (n + m) * bc = x + y  BY <1>1
  <2> HIDE DEF x, y, g
  <2> SUFFICES g.drq_deadline + y = f.drq_deadline + (x + y)  BY <2>1 DEF y
  <2>2. g.drq_deadline = f.drq_deadline + x  BY <1>2 DEF x
  <2> QED BY <1>1, <2>1, <2>2
<1> DEFINE b == ZeroFilled(f, n + m)
           st == f.status \cup {"LostData"}
           k == f.data_index + (n + m)
           r == f.data_available - (n + m)
           drq == f.drq_deadline + (n + m) * bc
<1>7. Filled(f, n + m) = [f EXCEPT !.buffer = b, !.status = st, !.data_index = k,
                                   !.data_available = r, !.drq_deadline = drq]
  BY Zenon DEF Filled
<1>8. Filled(g, m) = [g EXCEPT !.buffer = b, !.status = st, !.data_index = k,
                               !.data_available = r, !.drq_deadline = drq]
  <2> HIDE DEF g
  <2>1. Filled(g, m) = [g EXCEPT !.buffer = ZeroFilled(g, m), !.status = g.status \cup {"LostData"},
                                 !.data_index = g.data_index + m,
                                 !.data_available = g.data_available - m,
                                 !.drq_deadline = g.drq_deadline + m * ByteCycles(g)]
    BY Zenon DEF Filled
  <2> QED BY <1>3, <1>4, <1>5, <1>6, <2>1, Zenon
<1> DEFINE b0 == ZeroFilled(f, n)
           k0 == f.data_index + n
           r0 == f.data_available - n
           drq0 == f.drq_deadline + n * bc
<1>9. g = [f EXCEPT !.buffer = b0, !.status = st, !.data_index = k0,
                    !.data_available = r0, !.drq_deadline = drq0]
  BY Zenon DEF Filled
<1>10. [g EXCEPT !.buffer = b, !.status = st, !.data_index = k,
                 !.data_available = r, !.drq_deadline = drq]
       = [f EXCEPT !.buffer = b, !.status = st, !.data_index = k,
                   !.data_available = r, !.drq_deadline = drq]
  <2> HIDE DEF b, st, k, r, drq, b0, k0, r0, drq0, g
  <2> QED BY <1>9 DEF Chip
<1> QED BY <1>4, <1>7, <1>8, <1>10

\* After some slots were filled the others have still gone by.
LEMMA SlotsOfRest ==
  ASSUME NEW f \in Chip, NEW t \in Nat, NEW n \in 0 .. AbandonedSlots(f, t)
  PROVE  AbandonedSlots(Filled(f, n), t) = AbandonedSlots(f, t) - n
<1> DEFINE g == Filled(f, n)
           s == AbandonedSlots(f, t)
           bc == ByteCycles(f)
<1>0. f.data_available \in Nat /\ f.drq_deadline \in Nat  BY DEF Chip
<1>1. /\ f.data_available \in Nat /\ s \in 0 .. f.data_available /\ n \in Nat
      /\ n \in 0 .. f.data_available /\ f.drq_deadline \in Nat /\ bc \in Nat
      /\ FirstByteWindow \in Nat /\ n <= s
  <2>1. s \in 0 .. f.data_available  BY AbandonedSlotsBound
  <2>2. bc \in Nat /\ FirstByteWindow \in Nat  BY CycleTypes
  <2>3. n \in 0 .. s  OBVIOUS
  <2> HIDE DEF s, bc
  <2> QED BY <1>0, <2>1, <2>2, <2>3
<1>2. /\ g \in Chip /\ g.fast_disk = f.fast_disk
      /\ g.data_available = f.data_available - n
      /\ g.drq_deadline = f.drq_deadline + n * bc
  BY <1>1, FilledFields
<1>3. ByteCycles(g) = bc  BY <1>2 DEF ByteCycles
<1>4. \A k \in 0 .. f.data_available - 1 : SlotLate(f, k, t) <=> k < s  BY SlotsAre
<1> HIDE DEF g, s
<1>5. ASSUME NEW k \in 0 .. g.data_available - 1
      PROVE  SlotLate(g, k, t) <=> k < s - n
  <2>1. k \in Nat /\ n + k \in 0 .. f.data_available - 1  BY <1>1, <1>2
  <2>2. SlotLate(g, k, t) <=> SlotLate(f, n + k, t)
    <3> DEFINE x == n * bc
               y == k * bc
    <3>0. ByteCycles(f) = bc  OBVIOUS
    <3> HIDE DEF bc
    <3>1. x \in Nat /\ y \in Nat /\ (n + k) * bc = x + y  BY <1>1, <2>1
    <3>2. SlotLate(g, k, t) <=> t >= (f.drq_deadline + x) + y + FirstByteWindow
      BY <1>2, <1>3 DEF SlotLate
    <3> HIDE DEF x, y
    <3>3. SlotLate(f, n + k, t) <=> t >= f.drq_deadline + (x + y) + FirstByteWindow
      BY <3>0, <3>1 DEF SlotLate
    <3> QED BY <1>1, <3>1, <3>2, <3>3
  <2> QED BY <1>1, <1>4, <2>1, <2>2
<1>6. s - n \in 0 .. g.data_available  BY <1>1, <1>2
<1>7. AbandonedSlots(g, t) = s - n  BY <1>2, <1>5, <1>6, SlotsUnique
<1> QED BY <1>7 DEF g, s

(***************************************************************************)
(* sync() in two steps.  Of a write of one sector, what a late sync works  *)
(* out is what two syncs work out one after the other.  A multi-record     *)
(* write goes on with its next sector when its end is noticed, so it is    *)
(* left out.                                                               *)
(***************************************************************************)
Single(f) == f.phase = "WriteSector" => "M" \notin f.command_reg.flags

Caught(f, t) ==
  IF SeekDone(f, t) THEN EndCommand(f, t)
  ELSE IF FirstByteMissing(f, t) THEN Fail(f, "LostData", t)
  ELSE IF ~Abandoned(f, t) THEN f
  ELSE IF AbandonedSlots(f, t) = f.data_available
  THEN EndCommand(Filled(f, AbandonedSlots(f, t)), t)
  ELSE Filled(f, AbandonedSlots(f, t))

\* For a single command the catch-up of the code is Caught.
LEMMA CatchUpCaught ==
  ASSUME NEW f \in Chip, Single(f), NEW d, NEW t \in Nat
  PROVE  CatchUp(f, d, t) = Caught(f, t)
<1> DEFINE n == AbandonedSlots(f, t)
<1>1. CASE SeekDone(f, t) \/ FirstByteMissing(f, t) \/ ~Abandoned(f, t)
  BY <1>1 DEF CatchUp, Caught
<1>2. CASE ~SeekDone(f, t) /\ ~FirstByteMissing(f, t) /\ Abandoned(f, t)
  <2>1. n \in 0 .. f.data_available /\ f.data_available \in Nat
    BY AbandonedSlotsBound DEF Chip
  <2> DEFINE g == Filled(f, n)
  <2>2. g.data_available = f.data_available - n /\ g.command_reg = f.command_reg
    BY <2>1, FilledFields
  <2>3. "M" \notin f.command_reg.flags  BY <1>2 DEF Single, Abandoned
  <2>4. SubstituteSlots(f, d, n, t)
          = IF g.data_available = 0 THEN FinishWriteSector(g, d, t) ELSE g
    BY Zenon DEF SubstituteSlots, Filled
  <2>5. CatchUp(f, d, t) = SubstituteSlots(f, d, n, t)  BY <1>2 DEF CatchUp
  <2>6. Caught(f, t) = IF n = f.data_available THEN EndCommand(g, t) ELSE g
    BY <1>2 DEF Caught
  <2> HIDE DEF g, n
  <2>7. FinishWriteSector(g, d, t) = EndCommand(g, t)  BY <2>2, <2>3 DEF FinishWriteSector
  <2>8. g.data_available = 0 <=> n = f.data_available  BY <2>1, <2>2
  <2> QED BY <2>4, <2>5, <2>6, <2>7, <2>8
<1> QED BY <1>1, <1>2

\* A chip whose transfer is the same catches up the same way.
Alike(f, h) ==
  /\ h \in Chip /\ h.phase = f.phase /\ h.busy_until = f.busy_until
  /\ h.data_index = f.data_index /\ h.data_available = f.data_available
  /\ h.drq_deadline = f.drq_deadline /\ h.write_check_deadline = f.write_check_deadline
  /\ h.fast_disk = f.fast_disk /\ h.buffer = f.buffer /\ h.status = f.status
  /\ h.hld_active = f.hld_active /\ h.hld_since = f.hld_since

\* Chips with the same transfer have missed the same.
LEMMA AlikeSlots ==
  ASSUME NEW f \in Chip, NEW h, Alike(f, h), NEW t
  PROVE  /\ SeekDone(h, t) <=> SeekDone(f, t)
         /\ FirstByteMissing(h, t) <=> FirstByteMissing(f, t)
         /\ AbandonedSlots(h, t) = AbandonedSlots(f, t)
         /\ Abandoned(h, t) <=> Abandoned(f, t)
         /\ \A n : ZeroFilled(h, n) = ZeroFilled(f, n)
         /\ ByteCycles(h) = ByteCycles(f)
<1>1. ByteCycles(h) = ByteCycles(f)  BY DEF Alike, ByteCycles
<1>2. AbandonedSlots(h, t) = AbandonedSlots(f, t)  BY <1>1 DEF Alike, AbandonedSlots
<1> QED BY <1>1, <1>2 DEF Alike, SeekDone, FirstByteMissing, Abandoned, ZeroFilled

\* Chips with the same transfer are filled in the same way.
LEMMA AlikeFilled ==
  ASSUME NEW f \in Chip, NEW h, Alike(f, h), NEW n
  PROVE  Filled(h, n) = [h EXCEPT !.buffer = ZeroFilled(f, n), !.status = f.status \cup {"LostData"},
                                  !.data_index = f.data_index + n,
                                  !.data_available = f.data_available - n,
                                  !.drq_deadline = f.drq_deadline + n * ByteCycles(f)]
<1>1. ZeroFilled(h, n) = ZeroFilled(f, n) /\ ByteCycles(h) = ByteCycles(f)  BY AlikeSlots
<1>2. /\ h.status = f.status /\ h.data_index = f.data_index
      /\ h.data_available = f.data_available /\ h.drq_deadline = f.drq_deadline
  BY DEF Alike
<1> QED BY <1>1, <1>2, Zenon DEF Filled

\* The clock of the chip and the index interrupt have no part in it.
LEMMA CaughtClock ==
  ASSUME NEW f \in Chip, NEW s \in Nat, NEW t \in Nat
  PROVE  Caught(SetClock(f, s), t) = SetClock(Caught(f, t), s)
<1> DEFINE h == SetClock(f, s)
           n == AbandonedSlots(f, t)
<1>1. Alike(f, h) /\ h \in Chip  BY DEF Alike, SetClock, Chip
<1>2. n \in 0 .. f.data_available  BY AbandonedSlotsBound
<1>3. /\ SeekDone(h, t) <=> SeekDone(f, t)
      /\ FirstByteMissing(h, t) <=> FirstByteMissing(f, t)
      /\ AbandonedSlots(h, t) = n /\ (Abandoned(h, t) <=> Abandoned(f, t))
      /\ h.data_available = f.data_available
  BY <1>1, AlikeSlots DEF Alike
<1>4. ASSUME NEW x \in Chip
      PROVE  /\ EndCommand(SetClock(x, s), t) = SetClock(EndCommand(x, t), s)
             /\ Fail(SetClock(x, s), "LostData", t) = SetClock(Fail(x, "LostData", t), s)
  BY DEF EndCommand, Fail, HeadLoaded, SetClock, Chip
<1>5. Filled(h, n) = SetClock(Filled(f, n), s)
  <2> DEFINE b == ZeroFilled(f, n)
             st == f.status \cup {"LostData"}
             k == f.data_index + n
             m == f.data_available - n
             drq == f.drq_deadline + n * ByteCycles(f)
  <2>1. Alike(f, f)  BY DEF Alike
  <2>2. /\ Filled(h, n) = [h EXCEPT !.buffer = b, !.status = st, !.data_index = k,
                                    !.data_available = m, !.drq_deadline = drq]
        /\ Filled(f, n) = [f EXCEPT !.buffer = b, !.status = st, !.data_index = k,
                                    !.data_available = m, !.drq_deadline = drq]
    BY <1>1, <2>1, AlikeFilled
  <2> HIDE DEF b, st, k, m, drq, n
  <2> QED BY <2>2 DEF SetClock, Chip
<1>6. Filled(f, n) \in Chip  BY <1>2, FilledFields
<1> HIDE DEF h, n
<1>7. /\ EndCommand(h, t) = SetClock(EndCommand(f, t), s)
      /\ Fail(h, "LostData", t) = SetClock(Fail(f, "LostData", t), s)
      /\ EndCommand(Filled(h, n), t) = SetClock(EndCommand(Filled(f, n), t), s)
  BY <1>4, <1>5, <1>6 DEF h
<1>8. Caught(h, t) = SetClock(Caught(f, t), s)
  BY <1>3, <1>5, <1>7 DEF Caught, n, h
<1> QED BY <1>8 DEF h

Raised(f) == [f EXCEPT !.intrq_pending = TRUE, !.index_irq_armed = FALSE]
IndexDue(f, s) == f.index_irq_armed /\ s >= f.index_irq_deadline

\* The index interrupt falls due whether the transfer was caught up or not.
LEMMA CaughtIndex ==
  ASSUME NEW f \in Chip, NEW s, NEW t \in Nat
  PROVE  IndexDue(Caught(f, t), s) <=> IndexDue(f, s)
<1> DEFINE n == AbandonedSlots(f, t)
           g == Filled(f, n)
<1>1. g \in Chip /\ (IndexDue(g, s) <=> IndexDue(f, s))
  <2>1. n \in 0 .. f.data_available  BY AbandonedSlotsBound
  <2>2. g \in Chip  BY <2>1, FilledFields
  <2> DEFINE b == ZeroFilled(f, n)
             st == f.status \cup {"LostData"}
             k == f.data_index + n
             m == f.data_available - n
             drq == f.drq_deadline + n * ByteCycles(f)
  <2>3. g = [f EXCEPT !.buffer = b, !.status = st, !.data_index = k,
                      !.data_available = m, !.drq_deadline = drq]
    BY Zenon DEF Filled
  <2> HIDE DEF b, st, k, m, drq, g
  <2> QED BY <2>2, <2>3 DEF IndexDue, Chip
<1>2. ASSUME NEW x \in Chip
      PROVE  /\ IndexDue(EndCommand(x, t), s) <=> IndexDue(x, s)
             /\ IndexDue(Fail(x, "LostData", t), s) <=> IndexDue(x, s)
  BY DEF EndCommand, Fail, IndexDue, Chip
<1> HIDE DEF g
<1> QED BY <1>1, <1>2 DEF Caught, g

\* Catching up commutes with raising the interrupt.
LEMMA CaughtRaised ==
  ASSUME NEW f \in Chip, NEW t \in Nat
  PROVE  Caught(Raised(f), t) = Raised(Caught(f, t))
<1> DEFINE h == Raised(f)
           n == AbandonedSlots(f, t)
<1>1. Alike(f, h) /\ h \in Chip  BY DEF Alike, Raised, Chip
<1>2. n \in 0 .. f.data_available  BY AbandonedSlotsBound
<1>3. /\ SeekDone(h, t) <=> SeekDone(f, t)
      /\ FirstByteMissing(h, t) <=> FirstByteMissing(f, t)
      /\ AbandonedSlots(h, t) = n /\ (Abandoned(h, t) <=> Abandoned(f, t))
      /\ h.data_available = f.data_available
  BY <1>1, AlikeSlots DEF Alike
<1>4. ASSUME NEW x \in Chip
      PROVE  /\ EndCommand(Raised(x), t) = Raised(EndCommand(x, t))
             /\ Fail(Raised(x), "LostData", t) = Raised(Fail(x, "LostData", t))
  BY DEF EndCommand, Fail, HeadLoaded, Raised, Chip
<1>5. Filled(h, n) = Raised(Filled(f, n))
  <2> DEFINE b == ZeroFilled(f, n)
             st == f.status \cup {"LostData"}
             k == f.data_index + n
             m == f.data_available - n
             drq == f.drq_deadline + n * ByteCycles(f)
  <2>1. Alike(f, f)  BY DEF Alike
  <2>2. /\ Filled(h, n) = [h EXCEPT !.buffer = b, !.status = st, !.data_index = k,
                                    !.data_available = m, !.drq_deadline = drq]
        /\ Filled(f, n) = [f EXCEPT !.buffer = b, !.status = st, !.data_index = k,
                                    !.data_available = m, !.drq_deadline = drq]
    BY <1>1, <2>1, AlikeFilled
  <2> HIDE DEF b, st, k, m, drq, n
  <2> QED BY <2>2 DEF Raised, Chip
<1>6. Filled(f, n) \in Chip  BY <1>2, FilledFields
<1> HIDE DEF h, n
<1>7. /\ EndCommand(h, t) = Raised(EndCommand(f, t))
      /\ Fail(h, "LostData", t) = Raised(Fail(f, "LostData", t))
      /\ EndCommand(Filled(h, n), t) = Raised(EndCommand(Filled(f, n), t))
  BY <1>4, <1>5, <1>6 DEF h
<1>8. Caught(h, t) = Raised(Caught(f, t))
  BY <1>3, <1>5, <1>7 DEF Caught, n, h
<1> QED BY <1>8 DEF h

\* Catching up commutes with the index interrupt.
LEMMA CaughtFire ==
  ASSUME NEW f \in Chip, NEW s \in Nat, NEW t \in Nat
  PROVE  Caught(FireIndexIrq(f, s), t) = FireIndexIrq(Caught(f, t), s)
<1>1. \A x : FireIndexIrq(x, s) = IF IndexDue(x, s) THEN Raised(x) ELSE x
  BY Zenon DEF FireIndexIrq, IndexDue, Raised
<1> QED BY <1>1, CaughtIndex, CaughtRaised

\* An idle chip has nothing to catch up with.
LEMMA IdleCaught ==
  ASSUME NEW f, NEW t, f.phase = "Idle"
  PROVE  Caught(f, t) = f
  BY DEF Caught, SeekDone, FirstByteMissing, Abandoned

\* Catching up to a time and then to a later one is catching up to that.
LEMMA CaughtTwice ==
  ASSUME NEW f \in Chip, NEW t \in Nat, NEW u \in Nat, t <= u
  PROVE  ButHead(Caught(Caught(f, t), u)) = ButHead(Caught(f, u))
<1> DEFINE n == AbandonedSlots(f, t)
           m == AbandonedSlots(f, u)
<1>1. /\ f.data_available \in Nat /\ n \in 0 .. f.data_available /\ m \in 0 .. f.data_available
      /\ n <= m /\ f.busy_until \in Nat /\ f.write_check_deadline \in Nat /\ f.data_index \in Nat
  <2>1. n \in 0 .. f.data_available  BY AbandonedSlotsBound
  <2>2. m \in 0 .. f.data_available  BY AbandonedSlotsBound
  <2>3. n <= m  BY SlotsGrow
  <2> HIDE DEF n, m
  <2> QED BY <2>1, <2>2, <2>3 DEF Chip
<1>2. ASSUME NEW x \in Chip
      PROVE  /\ ButHead(EndCommand(x, t)) = ButHead(EndCommand(x, u))
             /\ ButHead(Fail(x, "LostData", t)) = ButHead(Fail(x, "LostData", u))
             /\ Caught(EndCommand(x, t), u) = EndCommand(x, t)
             /\ Caught(Fail(x, "LostData", t), u) = Fail(x, "LostData", t)
  <2>1. EndCommand(x, t).phase = "Idle" /\ Fail(x, "LostData", t).phase = "Idle"
    BY DEF EndCommand, Fail, Chip
  <2>2. ButHead(EndCommand(ButHead(x), t)) = ButHead(EndCommand(x, t))
        /\ ButHead(EndCommand(ButHead(x), t)) = ButHead(EndCommand(x, u))
    BY EndButHead
  <2>3. ButHead(Fail(ButHead(x), "LostData", t)) = ButHead(Fail(x, "LostData", t))
        /\ ButHead(Fail(ButHead(x), "LostData", t)) = ButHead(Fail(x, "LostData", u))
    BY FailButHead
  <2> QED BY <2>1, <2>2, <2>3, IdleCaught
<1>3. CASE SeekDone(f, t)
  <2>1. SeekDone(f, u)  BY <1>1, <1>3 DEF SeekDone
  <2>2. Caught(f, t) = EndCommand(f, t) /\ Caught(f, u) = EndCommand(f, u)
    BY <1>3, <2>1 DEF Caught
  <2> QED BY <1>2, <2>2
<1>4. CASE ~SeekDone(f, t) /\ FirstByteMissing(f, t)
  <2>1. FirstByteMissing(f, u) /\ ~SeekDone(f, u)
    BY <1>1, <1>4 DEF FirstByteMissing, SeekDone
  <2>2. Caught(f, t) = Fail(f, "LostData", t) /\ Caught(f, u) = Fail(f, "LostData", u)
    BY <1>4, <2>1 DEF Caught
  <2> QED BY <1>2, <2>2
<1>5. CASE ~SeekDone(f, t) /\ ~FirstByteMissing(f, t) /\ ~Abandoned(f, t)
  <2>1. Caught(f, t) = f  BY <1>5 DEF Caught
  <2> QED BY <2>1
<1>6. CASE ~SeekDone(f, t) /\ ~FirstByteMissing(f, t) /\ Abandoned(f, t)
  <2> DEFINE g == Filled(f, n)
  <2>1. f.phase = "WriteSector" /\ f.data_index > 0 /\ n > 0  BY <1>6 DEF Abandoned
  <2>2. /\ ~SeekDone(f, u) /\ ~FirstByteMissing(f, u) /\ Abandoned(f, u)
    <3>1. m > 0  BY <1>1, <2>1
    <3> QED BY <1>1, <2>1, <3>1 DEF SeekDone, FirstByteMissing, Abandoned
  <2>3. /\ Caught(f, t) = IF n = f.data_available THEN EndCommand(g, t) ELSE g
        /\ Caught(f, u) = IF m = f.data_available THEN EndCommand(Filled(f, m), u) ELSE Filled(f, m)
    BY <1>6, <2>2, Zenon DEF Caught
  <2>4. /\ g \in Chip /\ g.phase = "WriteSector" /\ g.data_index = f.data_index + n
        /\ g.data_available = f.data_available - n
    BY <1>1, <2>1, FilledFields
  <2>5. AbandonedSlots(g, u) = m - n
    <3>1. n \in 0 .. m  BY <1>1
    <3> QED BY <3>1, SlotsOfRest
  <2>6. Filled(g, m - n) = Filled(f, m)
    <3>1. m - n \in 0 .. f.data_available - n /\ n + (m - n) = m  BY <1>1
    <3> QED BY <1>1, <3>1, FilledTwice
  <2>7. Filled(f, m) \in Chip  BY <1>1, FilledFields
  <2> HIDE DEF n, m, g
  <2>8. CASE n = f.data_available
    <3>1. m = n  BY <1>1, <2>8
    <3>2. Caught(f, t) = EndCommand(g, t) /\ Caught(f, u) = EndCommand(g, u)
      BY <2>3, <2>8, <3>1 DEF g
    <3> QED BY <1>2, <2>4, <3>2
  <2>9. CASE n # f.data_available
    <3>1. Caught(f, t) = g  BY <2>3, <2>9
    <3>2. ~SeekDone(g, u) /\ ~FirstByteMissing(g, u)
      BY <1>1, <2>1, <2>4 DEF SeekDone, FirstByteMissing
    <3>3. Abandoned(g, u) <=> m # n
      BY <1>1, <2>1, <2>4, <2>5 DEF Abandoned
    <3>4. CASE m = n
      BY <2>3, <2>9, <3>1, <3>2, <3>3, <3>4 DEF Caught, g
    <3>5. CASE m # n
      <4>1. (m - n = g.data_available) <=> (m = f.data_available)  BY <1>1, <2>4
      <4>2. Caught(g, u) = IF m = f.data_available THEN EndCommand(Filled(f, m), u)
                           ELSE Filled(f, m)
        BY <2>5, <2>6, <3>2, <3>3, <3>5, <4>1 DEF Caught
      <4> QED BY <2>3, <3>1, <4>2
    <3> QED BY <3>4, <3>5
  <2> QED BY <2>8, <2>9
<1> QED BY <1>3, <1>4, <1>5, <1>6

\* Catching up begins no further sector of a single write.
LEMMA CaughtSingle ==
  ASSUME NEW f \in Chip, Single(f), NEW t \in Nat
  PROVE  Single(Caught(f, t))
<1> DEFINE n == AbandonedSlots(f, t)
           g == Filled(f, n)
<1>1. n \in 0 .. f.data_available  BY AbandonedSlotsBound
<1>2. g \in Chip /\ g.phase = f.phase /\ g.command_reg = f.command_reg  BY <1>1, FilledFields
<1>3. ASSUME NEW x \in Chip
      PROVE  EndCommand(x, t).phase = "Idle" /\ Fail(x, "LostData", t).phase = "Idle"
  BY DEF EndCommand, Fail, Chip
<1> HIDE DEF g
<1> QED BY <1>2, <1>3 DEF Caught, Single, g

\* A sync of a single command in these terms.
LEMMA SyncCaught ==
  ASSUME NEW f \in Chip, Single(f), NEW d, NEW now \in Nat
  PROVE  Sync(f, d, now)
           = FireIndexIrq(SetClock(Caught(f, SyncTime(f, now)), SyncTime(f, now)), SyncTime(f, now))
<1> DEFINE t == SyncTime(f, now)
           g == SetClock(f, t)
<1>1. t \in Nat  BY SyncTimeType
<1>2. Sync(f, d, now) = FireIndexIrq(CatchUp(g, d, t), t)  BY DEF Sync, SetClock
<1> HIDE DEF t
<1>3. g \in Chip /\ Single(g)  BY <1>1 DEF SetClock, Chip, Single
<1> HIDE DEF g
<1>4. CatchUp(g, d, t) = Caught(g, t)  BY <1>1, <1>3, CatchUpCaught
<1>5. Caught(g, t) = SetClock(Caught(f, t), t)  BY <1>1, CaughtClock DEF g
<1> QED BY <1>2, <1>4, <1>5 DEF t

\* A chip caught up is a chip.
LEMMA CaughtType ==
  ASSUME NEW f, NEW fast, Sound(f, fast), Single(f), NEW t \in Nat
  PROVE  Caught(f, t) \in Chip
<1>1. f \in Chip  BY DEF Sound
<1> DEFINE n == AbandonedSlots(f, t)
           g == Filled(f, n)
<1>2. n \in 0 .. f.data_available  BY <1>1, AbandonedSlotsBound
<1>3. g \in Chip  BY <1>1, <1>2, FilledFields
<1>4. ASSUME NEW x \in Chip
      PROVE  EndCommand(x, t) \in Chip /\ Fail(x, "LostData", t) \in Chip
  <2>1. "LostData" \in StickyBits  BY DEF StickyBits
  <2> QED BY <2>1, EndCommandSound, FailSound DEF Sound
<1> HIDE DEF g
<1> QED BY <1>1, <1>3, <1>4 DEF Caught, g

\* A sync leaves a single write single and remembers its time.
LEMMA SyncSingle ==
  ASSUME NEW f, NEW fast, Sound(f, fast), Single(f), NEW d, NEW now \in Nat
  PROVE  Single(Sync(f, d, now)) /\ Sync(f, d, now).last_sync = SyncTime(f, now)
<1> DEFINE t == SyncTime(f, now)
           c == Caught(f, t)
<1>1. f \in Chip  BY DEF Sound
<1>2. t \in Nat  BY <1>1, SyncTimeType
<1> HIDE DEF t
<1>3. c \in Chip /\ Single(c)  BY <1>1, <1>2, CaughtType, CaughtSingle
<1>4. Sync(f, d, now) = FireIndexIrq(SetClock(c, t), t)  BY <1>1, SyncCaught DEF t
<1> HIDE DEF c
<1>5. Single(FireIndexIrq(SetClock(c, t), t)) /\ FireIndexIrq(SetClock(c, t), t).last_sync = t
  BY <1>2, <1>3 DEF FireIndexIrq, SetClock, Chip, Single
<1> QED BY <1>4, <1>5 DEF t

\* sync() may be called at one cycle and again at a later one: but for the
\* head, the chip and the image are those of the later call alone.
LEMMA SyncTwice ==
  ASSUME NEW f, NEW fast, Sound(f, fast), Single(f), NEW d \in Drive,
         NEW m \in Nat, NEW n \in Nat, m <= n
  PROVE  ButHead(Sync(Sync(f, d, m), d, n)) = ButHead(Sync(f, d, n))
<1> DEFINE t == SyncTime(f, m)
           u == SyncTime(f, n)
           s == Sync(f, d, m)
           c == Caught(f, t)
           k == Caught(c, u)
           e == Caught(f, u)
<1>1. f \in Chip  BY DEF Sound
<1>2. t \in Nat /\ u \in Nat /\ t <= u /\ SyncTime(s, n) = u /\ Single(s) /\ s \in Chip
  <2>1. t \in Nat /\ u \in Nat  BY <1>1, SyncTimeType
  <2>2. s \in Chip  BY SyncSound DEF Sound
  <2>3. s.last_sync = t /\ Single(s)  BY SyncSingle
  <2>4. SyncTime(s, n) = IF n < t THEN t ELSE n  BY <2>3 DEF SyncTime
  <2>5. f.last_sync \in Nat  BY <1>1 DEF Chip
  <2> HIDE DEF s
  <2> QED BY <2>1, <2>2, <2>3, <2>4, <2>5 DEF SyncTime
<1>3. s = FireIndexIrq(SetClock(c, t), t)  BY <1>1, SyncCaught
<1>4. Sync(s, d, n) = FireIndexIrq(SetClock(Caught(s, u), u), u)
  <2> HIDE DEF s, u
  <2> QED BY <1>2, SyncCaught
<1>5. Sync(f, d, n) = FireIndexIrq(SetClock(e, u), u)  BY <1>1, SyncCaught
<1>6. c \in Chip /\ e \in Chip
  <2> HIDE DEF t, u
  <2> QED BY <1>2, CaughtType
<1>7. k \in Chip
  <2> HIDE DEF t, u
  <2>1. Sound(c, fast)
    <3>1. CatchUp(f, d, t) = c  BY <1>1, <1>2, CatchUpCaught
    <3> QED BY <1>2, <3>1, CatchUpSound
  <2>2. Single(c)  BY <1>1, <1>2, CaughtSingle
  <2> HIDE DEF c
  <2> QED BY <1>2, <2>1, <2>2, CaughtType
<1> HIDE DEF t, u, s
<1>8. ButHead(k) = ButHead(e)  BY <1>1, <1>2, CaughtTwice
<1>9. Caught(s, u) = FireIndexIrq(SetClock(k, t), t)
  <2>1. SetClock(c, t) \in Chip  BY <1>2, <1>6 DEF SetClock, Chip
  <2>2. Caught(s, u) = FireIndexIrq(Caught(SetClock(c, t), u), t)
    BY <1>2, <1>3, <2>1, CaughtFire
  <2> QED BY <1>2, <1>6, <2>2, CaughtClock
<1> HIDE DEF c, k, e
<1>10. FireIndexIrq(SetClock(FireIndexIrq(SetClock(k, t), t), u), u) = FireIndexIrq(SetClock(k, u), u)
  <2>1. \A x, v : FireIndexIrq(x, v) = IF IndexDue(x, v) THEN Raised(x) ELSE x
    BY Zenon DEF FireIndexIrq, IndexDue, Raised
  <2>2. \A v, w : IndexDue(SetClock(k, v), w) <=> IndexDue(k, w)
    BY <1>7 DEF IndexDue, SetClock, Chip
  <2>3. SetClock(SetClock(k, t), u) = SetClock(k, u)  BY <1>7 DEF SetClock, Chip
  <2>4. /\ SetClock(Raised(SetClock(k, t)), u) = Raised(SetClock(k, u))
        /\ ~IndexDue(Raised(SetClock(k, u)), u)
    BY <1>7 DEF SetClock, Raised, IndexDue, Chip
  <2>5. IndexDue(k, t) => IndexDue(k, u)
    <3>1. k.index_irq_deadline \in Nat  BY <1>7 DEF Chip
    <3> QED BY <1>2, <3>1 DEF IndexDue
  <2> QED BY <2>1, <2>2, <2>3, <2>4, <2>5
<1>11. ASSUME NEW x \in Chip
       PROVE  ButHead(FireIndexIrq(SetClock(x, u), u)) = FireIndexIrq(SetClock(ButHead(x), u), u)
  BY DEF FireIndexIrq, SetClock, ButHead, Chip
<1>12. Sync(s, d, n) = FireIndexIrq(SetClock(k, u), u)  BY <1>4, <1>9, <1>10
<1>13. ButHead(Sync(s, d, n)) = ButHead(Sync(f, d, n))
  BY <1>5, <1>6, <1>7, <1>8, <1>11, <1>12
<1> QED BY <1>13 DEF s

\* A sector abandoned is laid at the first of two syncs that sees it, once.
LEMMA LaysCaught ==
  ASSUME NEW f \in Chip, NEW t \in Nat, NEW u \in Nat, t <= u
  PROVE  /\ SyncLays(f, t) => SyncLays(f, u)
         /\ SyncLays(Caught(f, t), u) <=> SyncLays(f, u) /\ ~SyncLays(f, t)
         /\ SyncLays(Caught(f, t), u)
              => LET c == Caught(f, t)
                 IN  /\ ZeroFilled(c, c.data_available) = ZeroFilled(f, f.data_available)
                     /\ c.write_track_num = f.write_track_num /\ c.write_side = f.write_side
                     /\ c.write_sector_num = f.write_sector_num
<1> DEFINE n == AbandonedSlots(f, t)
           m == AbandonedSlots(f, u)
           c == Caught(f, t)
           SameLaid == /\ ZeroFilled(c, c.data_available) = ZeroFilled(f, f.data_available)
                       /\ c.write_track_num = f.write_track_num /\ c.write_side = f.write_side
                       /\ c.write_sector_num = f.write_sector_num
<1> SUFFICES /\ SyncLays(f, t) => SyncLays(f, u)
             /\ SyncLays(c, u) <=> SyncLays(f, u) /\ ~SyncLays(f, t)
             /\ SyncLays(c, u) => SameLaid
  OBVIOUS
<1>1. /\ f.data_available \in Nat /\ n \in 0 .. f.data_available /\ m \in 0 .. f.data_available
      /\ n <= m /\ f.data_index \in Nat
  <2>1. n \in 0 .. f.data_available  BY AbandonedSlotsBound
  <2>2. m \in 0 .. f.data_available  BY AbandonedSlotsBound
  <2>3. n <= m  BY SlotsGrow
  <2> HIDE DEF n, m
  <2> QED BY <2>1, <2>2, <2>3 DEF Chip
<1>2. /\ Abandoned(f, t) <=> f.phase = "WriteSector" /\ f.data_index > 0 /\ n > 0
      /\ Abandoned(f, u) <=> f.phase = "WriteSector" /\ f.data_index > 0 /\ m > 0
  BY DEF Abandoned
<1>3. /\ SyncLays(f, t) <=> Abandoned(f, t) /\ n = f.data_available
      /\ SyncLays(f, u) <=> Abandoned(f, u) /\ m = f.data_available
  BY DEF SyncLays
<1>4. ASSUME NEW x \in Chip
      PROVE  /\ ~SyncLays(EndCommand(x, t), u)
             /\ ~SyncLays(Fail(x, "LostData", t), u)
  BY DEF EndCommand, Fail, SyncLays, Abandoned, Chip
<1>5. CASE SeekDone(f, t)
  <2>1. c = EndCommand(f, t) /\ f.phase # "WriteSector"  BY <1>5 DEF Caught, SeekDone
  <2> HIDE DEF c, n, m
  <2> QED BY <1>2, <1>3, <1>4, <2>1
<1>6. CASE ~SeekDone(f, t) /\ FirstByteMissing(f, t)
  <2>1. c = Fail(f, "LostData", t) /\ f.data_index = 0
    BY <1>6 DEF Caught, FirstByteMissing
  <2> HIDE DEF c, n, m
  <2> QED BY <1>2, <1>3, <1>4, <2>1
<1>7. CASE ~SeekDone(f, t) /\ ~FirstByteMissing(f, t) /\ ~Abandoned(f, t)
  <2>1. c = f  BY <1>7 DEF Caught
  <2> HIDE DEF c, n, m
  <2> QED BY <1>3, <1>7, <2>1
<1>8. CASE ~SeekDone(f, t) /\ ~FirstByteMissing(f, t) /\ Abandoned(f, t)
  <2> DEFINE g == Filled(f, n)
  <2>1. c = IF n = f.data_available THEN EndCommand(g, t) ELSE g
    BY <1>8, Zenon DEF Caught
  <2>2. /\ g \in Chip /\ g.phase = f.phase /\ g.data_index = f.data_index + n
        /\ g.data_available = f.data_available - n
        /\ g.write_track_num = f.write_track_num /\ g.write_side = f.write_side
        /\ g.write_sector_num = f.write_sector_num
    BY <1>1, FilledFields
  <2>3. AbandonedSlots(g, u) = m - n
    <3>1. n \in 0 .. m  BY <1>1
    <3> QED BY <3>1, SlotsOfRest
  <2>4. ZeroFilled(g, f.data_available - n) = ZeroFilled(f, f.data_available)
    <3>1. f.data_available - n \in 0 .. f.data_available - n
          /\ n + (f.data_available - n) = f.data_available
      BY <1>1
    <3> QED BY <1>1, <3>1, FilledTwice
  <2> HIDE DEF c, n, m, g
  <2>5. CASE n = f.data_available
    <3>1. SyncLays(f, t) /\ SyncLays(f, u) /\ ~SyncLays(c, u)
      BY <1>1, <1>2, <1>3, <1>4, <1>8, <2>1, <2>2, <2>5
    <3> QED BY <3>1
  <2>6. CASE n # f.data_available
    <3>1. c = g /\ ~SyncLays(f, t)  BY <1>3, <2>1, <2>6
    <3>2. SyncLays(g, u) <=> m - n > 0 /\ m - n = f.data_available - n
      BY <1>1, <1>2, <1>8, <2>2, <2>3 DEF SyncLays, Abandoned
    <3>3. SyncLays(g, u) <=> SyncLays(f, u)
      BY <1>1, <1>2, <1>3, <1>8, <2>6, <3>2
    <3> QED BY <2>2, <2>4, <3>1, <3>3
  <2> QED BY <2>5, <2>6
<1> QED BY <1>5, <1>6, <1>7, <1>8

\* Two syncs lay on the disk what the later one alone would lay.
LEMMA ImageTwice ==
  ASSUME NEW f, NEW fast, Sound(f, fast), Single(f), NEW d \in Drive, NEW i,
         NEW m \in Nat, NEW n \in Nat, m <= n
  PROVE  ImageAfterSync(Sync(f, d, m), d, ImageAfterSync(f, d, i, m), n)
           = ImageAfterSync(f, d, i, n)
<1> DEFINE t == SyncTime(f, m)
           u == SyncTime(f, n)
           s == Sync(f, d, m)
           c == Caught(f, t)
           g == SetClock(c, t)
<1>1. f \in Chip  BY DEF Sound
<1>2. t \in Nat /\ u \in Nat /\ t <= u /\ SyncTime(s, n) = u
  <2>1. t \in Nat /\ u \in Nat  BY <1>1, SyncTimeType
  <2>2. s.last_sync = t  BY SyncSingle
  <2>3. SyncTime(s, n) = IF n < t THEN t ELSE n  BY <2>2 DEF SyncTime
  <2>4. f.last_sync \in Nat  BY <1>1 DEF Chip
  <2> HIDE DEF s
  <2> QED BY <2>1, <2>3, <2>4 DEF SyncTime
<1>3. s = FireIndexIrq(g, t)  BY <1>1, SyncCaught
<1>4. c \in Chip
  <2> HIDE DEF t
  <2> QED BY <1>2, CaughtType
<1>5. /\ ImageAfterSync(f, d, i, m) =
           IF SyncLays(f, t)
           THEN WriteSectorAt(d, i, f.write_track_num, f.write_side, f.write_sector_num,
                              ZeroFilled(f, f.data_available)) ELSE i
      /\ ImageAfterSync(f, d, i, n) =
           IF SyncLays(f, u)
           THEN WriteSectorAt(d, i, f.write_track_num, f.write_side, f.write_sector_num,
                              ZeroFilled(f, f.data_available)) ELSE i
  BY Zenon DEF ImageAfterSync
<1> HIDE DEF t, u, s, c
<1>6. Alike(c, s) /\ s.write_track_num = c.write_track_num /\ s.write_side = c.write_side
      /\ s.write_sector_num = c.write_sector_num
  BY <1>2, <1>3, <1>4 DEF FireIndexIrq, SetClock, Alike, Chip
<1>7. /\ SyncLays(s, u) <=> SyncLays(c, u)
      /\ \A x : ZeroFilled(s, x) = ZeroFilled(c, x)
      /\ s.data_available = c.data_available
  BY <1>4, <1>6, AlikeSlots DEF SyncLays, Alike
<1>8. \A j : ImageAfterSync(s, d, j, n) =
           IF SyncLays(c, u)
           THEN WriteSectorAt(d, j, c.write_track_num, c.write_side, c.write_sector_num,
                              ZeroFilled(c, c.data_available)) ELSE j
  BY <1>2, <1>6, <1>7, Zenon DEF ImageAfterSync
<1>9. /\ SyncLays(f, t) => SyncLays(f, u)
      /\ SyncLays(c, u) <=> SyncLays(f, u) /\ ~SyncLays(f, t)
      /\ SyncLays(c, u) => /\ ZeroFilled(c, c.data_available) = ZeroFilled(f, f.data_available)
                           /\ c.write_track_num = f.write_track_num /\ c.write_side = f.write_side
                           /\ c.write_sector_num = f.write_sector_num
  BY <1>1, <1>2, LaysCaught DEF c
<1>10. ImageAfterSync(s, d, ImageAfterSync(f, d, i, m), n) = ImageAfterSync(f, d, i, n)
  BY <1>5, <1>8, <1>9, Zenon
<1> QED BY <1>10 DEF s

(***************************************************************************)
(* An access leaves a write of one sector one, and the drive has no part   *)
(* in what sync() works out for it but that an image is in it.             *)
(***************************************************************************)
LEMMA SyncAnyDrive ==
  ASSUME NEW f \in Chip, Single(f), NEW d, NEW e, d.attached = e.attached, NEW i, NEW t \in Nat
  PROVE  Sync(f, d, t) = Sync(f, e, t) /\ ImageAfterSync(f, d, i, t) = ImageAfterSync(f, e, i, t)
<1>1. Sync(f, d, t) = Sync(f, e, t)  BY SyncCaught
<1>2. ImageAfterSync(f, d, i, t) = ImageAfterSync(f, e, i, t)
  BY DEF ImageAfterSync, WriteSectorAt
<1> QED BY <1>1, <1>2

\* The start of a record and the end of a command keep the registers.
LEMMA EndKeeps ==
  ASSUME NEW f \in Chip, NEW t
  PROVE  /\ EndCommand(f, t).phase = "Idle"
         /\ EndCommand(f, t).command_reg = f.command_reg
         /\ EndCommand(f, t).data_reg = f.data_reg
         /\ \A bit : /\ Fail(f, bit, t).phase = "Idle"
                     /\ Fail(f, bit, t).command_reg = f.command_reg
                     /\ Fail(f, bit, t).data_reg = f.data_reg
  BY DEF EndCommand, Fail, Chip

\* The start of a sector keeps the command, and a read starts no write.
LEMMA BeginKeeps ==
  ASSUME NEW f \in Chip, NEW d, NEW i, NEW t
  PROVE  /\ BeginReadSector(f, d, i, t).phase # "WriteSector"
         /\ BeginReadSector(f, d, i, t).command_reg = f.command_reg
         /\ BeginWriteSector(f, d, t).command_reg = f.command_reg
<1>1. BeginWriteSector(f, d, t).command_reg = f.command_reg  BY DEF BeginWriteSector, Chip
<1>2. CASE CanRead(d, f.sector_reg)
  <2>1. BeginReadSector(f, d, i, t).phase = "ReadSector"
        /\ BeginReadSector(f, d, i, t).command_reg = f.command_reg
    BY <1>2 DEF BeginReadSector, Chip
  <2> QED BY <1>1, <2>1
<1>3. CASE ~CanRead(d, f.sector_reg)
  <2>1. BeginReadSector(f, d, i, t).phase = "Idle"
        /\ BeginReadSector(f, d, i, t).command_reg = f.command_reg
    BY <1>3 DEF BeginReadSector, Fail, EndCommand, Chip
  <2> QED BY <1>1, <2>1
<1> QED BY <1>2, <1>3

\* A read of the data register starts no multi-record write.
LEMMA ReadDataSingle ==
  ASSUME NEW f, NEW fast, Sound(f, fast), Single(f), NEW d \in Drive, NEW i \in Image, NEW t \in Nat
  PROVE  Single(AfterReadData(f, d, i, t))
<1>1. /\ f \in Chip /\ Balanced(f)  BY DEF Sound
<1>2. CASE ~Delivers(f, t)
  BY <1>2 DEF AfterReadData
<1>3. CASE Delivers(f, t)
  <2> DEFINE late == LateBytes(f, t)
             s == IF late > 0 THEN f.status \cup {"LostData"} ELSE f.status
             v == f.buffer[f.data_index + late + 1]
             k == f.data_index + late + 1
             n == f.data_available - late - 1
             drq == f.drq_deadline + late * CyclesPerByte + ByteCycles(f)
             g == [f EXCEPT !.status = s, !.data_reg = v, !.data_index = k,
                            !.data_available = n, !.drq_deadline = drq]
  <2>1. /\ f.data_index \in Nat /\ f.data_available \in Nat /\ f.buffer \in Seq(Byte)
        /\ f.drq_deadline \in Nat /\ f.status \in SUBSET StickyBits
    BY <1>1 DEF Chip
  <2>2. f.data_available > 0 /\ f.data_index + f.data_available = Len(f.buffer)
        /\ f.phase \in ReadPhases
    BY <1>1, <1>3 DEF Delivers, Balanced, ReadPhases
  <2>3. late \in 0 .. f.data_available - 1  BY <1>1, <2>2, LateBytesBound
  <2>4. AfterReadData(f, d, i, t) =
          IF g.data_available > 0 THEN g
          ELSE IF g.phase = "ReadSector" THEN FinishReadSector(g, d, i, t)
          ELSE EndCommand(g, t)
    BY <1>3 DEF AfterReadData
  <2> HIDE DEF late
  <2>6. late \in Nat  BY <2>1, <2>3
  <2>7. k \in Nat /\ n \in Nat /\ k \in 1 .. Len(f.buffer)  BY <2>1, <2>2, <2>3
  <2>8. v \in Byte  BY <2>1, <2>7, ElementOfSeq
  <2>9. drq \in Nat
    <3>1. late * CyclesPerByte \in Nat  BY <2>6, ChipAssumption
    <3>2. ByteCycles(f) \in Nat  BY <1>1, CycleTypes
    <3> QED BY <2>1, <3>1, <3>2
  <2>10. s \in SUBSET StickyBits  BY <2>1 DEF StickyBits
  <2>11. g = [f EXCEPT !.status = s, !.data_reg = v, !.data_index = k,
                       !.data_available = n, !.drq_deadline = drq]
    OBVIOUS
  <2> HIDE DEF s, v, k, n, drq, g
  <2>12. g \in Chip /\ g.phase = f.phase
    <3>1. g \in Chip  BY <1>1, <2>7, <2>8, <2>9, <2>10, <2>11, ReadFieldsType, Zenon
    <3>2. g.phase = f.phase  BY <1>1, <2>11 DEF Chip
    <3> QED BY <3>1, <3>2
  <2>13. Single(g)  BY <2>2, <2>12 DEF Single, ReadPhases
  <2>14. FinishReadSector(g, d, i, t).phase # "WriteSector"
    <3>1. NextSector(g) \in Chip  BY <2>12, NextSectorType
    <3> QED BY <2>12, <3>1, EndKeeps, BeginKeeps DEF FinishReadSector
  <2>15. EndCommand(g, t).phase # "WriteSector"  BY <2>12, EndKeeps
  <2> QED BY <2>4, <2>13, <2>14, <2>15 DEF Single
<1> QED BY <1>2, <1>3

\* A write of the data register starts none either, and is kept in it.
LEMMA WriteDataKeeps ==
  ASSUME NEW f, NEW fast, Sound(f, fast), Single(f), NEW d \in Drive, NEW v \in Byte, NEW t \in Nat
  PROVE  /\ Single(AfterWriteData(f, d, v, t))
         /\ AfterWriteData(f, d, v, t).data_reg = v
<1> DEFINE g == [f EXCEPT !.data_reg = v]
           p == [ParseTrackByte(g, v) EXCEPT !.data_available = @ - 1,
                                             !.drq_deadline = t + ByteCycles(f)]
<1>1. /\ f \in Chip /\ Balanced(f)  BY DEF Sound
<1>2. /\ Sound(g, fast) /\ g \in Chip /\ g.phase = f.phase /\ g.command_reg = f.command_reg
      /\ g.data_reg = v
  BY <1>1 DEF Sound, Balanced, Chip
<1>3. AfterWriteData(f, d, v, t) =
           IF f.phase = "WriteSector" THEN CommitByte(g, d, v, t)
           ELSE IF f.phase # "WriteTrack" THEN g
           ELSE IF p.data_available = 0 THEN EndCommand(p, t) ELSE p
  BY Zenon DEF AfterWriteData
<1>4. CASE f.phase \notin {"WriteSector", "WriteTrack"}
  BY <1>2, <1>3, <1>4 DEF Single
<1>5. CASE f.phase = "WriteSector"
  <2> DEFINE b == [g.buffer EXCEPT ![g.data_index + 1] = v]
             k == g.data_index + 1
             n == g.data_available - 1
             drq == t + ByteCycles(g)
             c == [g EXCEPT !.buffer = b, !.data_index = k, !.data_available = n,
                            !.drq_deadline = drq]
  <2>0. Balanced(g) /\ g.phase = "WriteSector"  BY <1>2, <1>5 DEF Sound
  <2>1. k \in 1 .. Len(g.buffer) /\ k \in Nat /\ n \in Nat /\ g.buffer \in Seq(Byte)
    <3> HIDE DEF g
    <3> QED BY <1>2, <2>0, WritePosition DEF Chip
  <2>2. b \in Seq(Byte) /\ drq \in Nat
    <3> HIDE DEF g
    <3> QED BY <1>2, <2>1, ExceptSeq, CycleTypes
  <2>3. CommitByte(g, d, v, t) = IF c.data_available = 0 THEN FinishWriteSector(c, d, t) ELSE c
    <3> HIDE DEF g
    <3> QED BY Zenon DEF CommitByte
  <2>4. c = [g EXCEPT !.buffer = b, !.data_index = k, !.data_available = n,
                      !.drq_deadline = drq]
    OBVIOUS
  <2> HIDE DEF g, b, k, n, drq, c
  <2>5. c \in Chip  BY <1>2, <2>1, <2>2, <2>4, CommitFieldsType, Zenon
  <2>6. c.command_reg = g.command_reg /\ c.data_reg = v  BY <1>2, <2>4 DEF Chip
  <2>7. "M" \notin c.command_reg.flags  BY <1>2, <1>5, <2>6 DEF Single
  <2>8. FinishWriteSector(c, d, t) = EndCommand(c, t)  BY <2>7 DEF FinishWriteSector
  <2>9. EndCommand(c, t).phase = "Idle" /\ EndCommand(c, t).data_reg = v
    BY <2>5, <2>6, EndKeeps
  <2> QED BY <1>3, <1>5, <2>3, <2>6, <2>7, <2>8, <2>9 DEF Single
<1>6. CASE f.phase = "WriteTrack"
  <2> DEFINE m == ParseTrackByte(g, v)
             a == m.data_available - 1
             drq == t + ByteCycles(f)
  <2>1. m \in Chip /\ m.phase = f.phase /\ m.data_reg = v /\ m.data_available = g.data_available
    <3>1. m \in Chip /\ SameTransfer(g, m)
      <4> HIDE DEF g
      <4> QED BY <1>2, ParseTrackByteType
    <3>2. m.data_reg = g.data_reg
      <4> HIDE DEF g
      <4> QED BY <1>2 DEF ParseTrackByte, Chip
    <3> QED BY <1>2, <3>1, <3>2 DEF SameTransfer
  <2>2. a \in Nat /\ drq \in Nat
    <3>1. f.data_available \in Nat /\ f.data_available > 0 /\ g.data_available = f.data_available
      BY <1>1, <1>6 DEF Balanced, Chip
    <3>2. ByteCycles(f) \in Nat  BY <1>1, CycleTypes
    <3> HIDE DEF m, g
    <3> QED BY <2>1, <3>1, <3>2
  <2> HIDE DEF g
  <2>3. p = [m EXCEPT !.data_available = a, !.drq_deadline = drq]
    BY <2>1 DEF Chip
  <2> HIDE DEF p, m, a, drq
  <2>4. p \in Chip /\ p.phase = "WriteTrack" /\ p.data_reg = v
    BY <1>6, <2>1, <2>2, <2>3 DEF Chip
  <2>5. EndCommand(p, t).phase = "Idle" /\ EndCommand(p, t).data_reg = v  BY <2>4, EndKeeps
  <2> QED BY <1>3, <1>6, <2>4, <2>5 DEF Single
<1> QED BY <1>4, <1>5, <1>6

\* A command without the multi-record flag starts none.
LEMMA WriteCommandKeeps ==
  ASSUME NEW f \in Chip, NEW d \in Drive, NEW i \in Image, NEW cmd \in Command, NEW t \in Nat,
         cmd.op = "WriteSector" => "M" \notin cmd.flags
  PROVE  /\ Single(AfterWriteCommand(f, d, i, cmd, t))
         /\ AfterWriteCommand(f, d, i, cmd, t).command_reg = cmd
<1> DEFINE g == [f EXCEPT !.command_reg = cmd]
           h == [g EXCEPT !.intrq_pending = FALSE, !.immediate_irq = FALSE,
                          !.index_irq_armed = FALSE]
           Kept(x) == x.command_reg = cmd /\ (x.phase = "WriteSector" => cmd.op = "WriteSector")
           res == AfterWriteCommand(f, d, i, cmd, t)
<1>1. g \in Chip /\ h \in Chip /\ g.command_reg = cmd /\ h.command_reg = cmd
  BY DEF Chip
<1>2. res =
           CASE cmd.op \in Type1Ops -> StartType1(h, d, cmd, t)
             [] cmd.op \in Type2Ops -> StartType2(h, d, i, cmd, t)
             [] cmd.op \in Type3Ops -> StartType3(h, d, i, cmd, t)
             [] OTHER               -> StartType4(g, d, cmd, t)
  BY Zenon DEF AfterWriteCommand
<1> HIDE DEF g, h, res
<1>3. Kept(StartType1(h, d, cmd, t))  BY <1>1 DEF StartType1, Chip
<1>4. Kept(StartType4(g, d, cmd, t))  BY <1>1 DEF StartType4, Chip
<1>5. ASSUME NEW x \in Chip, x.command_reg = cmd
      PROVE  /\ Kept(EndCommand(x, t)) /\ \A bit : Kept(Fail(x, bit, t))
             /\ LoadHead(x, t) \in Chip /\ LoadHead(x, t).command_reg = cmd
             /\ Kept(BeginReadSector(x, d, i, t))
             /\ cmd.op = "WriteSector" => Kept(BeginWriteSector(x, d, t))
  <2>1. LoadHead(x, t) \in Chip /\ LoadHead(x, t).command_reg = cmd  BY <1>5 DEF LoadHead, Chip
  <2>2. Kept(EndCommand(x, t))  BY <1>5, EndKeeps
  <2>3. \A bit : Kept(Fail(x, bit, t))
    <3>1. \A bit : Fail(x, bit, t).phase = "Idle" /\ Fail(x, bit, t).command_reg = x.command_reg
      BY EndKeeps
    <3> QED BY <1>5, <3>1
  <2>4. Kept(BeginReadSector(x, d, i, t))  BY <1>5, BeginKeeps
  <2>5. cmd.op = "WriteSector" => Kept(BeginWriteSector(x, d, t))  BY <1>5, BeginKeeps
  <2> QED BY <2>1, <2>2, <2>3, <2>4, <2>5
<1>6. CASE cmd.op \in Type2Ops
  <2> DEFINE y == [h EXCEPT !.status =
                     (@ \ {"LostData", "NotFound", "WriteProtected"}) \cup {"Busy"}]
             z == LoadHead(y, t)
  <2>1. y \in Chip /\ y.command_reg = cmd  BY <1>1 DEF Chip, StickyBits
  <2>2. StartType2(h, d, i, cmd, t) =
          IF ~Ready(d) THEN EndCommand(y, t)
          ELSE IF ~(d.physical_track = h.track_reg /\ OnTrack(h)) THEN Fail(z, "NotFound", t)
          ELSE IF cmd.op = "ReadSector" THEN BeginReadSector(z, d, i, t)
          ELSE IF WriteProtected(d, i) THEN Fail(z, "WriteProtected", t)
          ELSE BeginWriteSector(z, d, t)
    BY Zenon DEF StartType2
  <2>3. cmd.op \in {"ReadSector", "WriteSector"}  BY <1>6 DEF Type2Ops
  <2>4. res = StartType2(h, d, i, cmd, t)  BY <1>2, <1>6 DEF Type1Ops, Type2Ops, Type3Ops
  <2> HIDE DEF y, Kept
  <2>5. z \in Chip /\ z.command_reg = cmd  BY <1>5, <2>1
  <2> HIDE DEF z
  <2>6. Kept(res)
    BY <1>5, <2>1, <2>2, <2>3, <2>4, <2>5
  <2> QED BY <2>6 DEF Kept, Single, res
<1>7. CASE cmd.op \in Type3Ops
  <2> DEFINE st == (h.status \ {"LostData", "NotFound"}) \cup {"Busy"}
             y == [h EXCEPT !.status = st]
             z == LoadHead(y, t)
             drq == t + ReadStartCycles(h)
             x == [z EXCEPT !.data_index = 0, !.drq_deadline = drq]
             x1 == [x EXCEPT !.buffer = IdField(d), !.sector_reg = d.physical_track,
                             !.data_available = 6, !.phase = "ReadAddress"]
             x2 == [x EXCEPT !.buffer = RawTrack(d, i), !.data_available = TrackLength,
                             !.phase = "ReadTrack"]
             x3 == [x EXCEPT !.write_track_num = d.physical_track, !.write_side = d.side,
                             !.wt_a1 = FALSE, !.wt_expect_id = FALSE, !.wt_in_data = FALSE,
                             !.wt_data = ZeroSector,
                             !.data_available = TrackLength, !.phase = "WriteTrack"]
  <2>1. y \in Chip /\ y.command_reg = cmd  BY <1>1 DEF Chip, StickyBits
  <2>2. StartType3(h, d, i, cmd, t) =
          IF ~Ready(d) THEN EndCommand(y, t)
          ELSE IF cmd.op = "ReadAddress" THEN x1
          ELSE IF cmd.op = "ReadTrack" THEN x2
          ELSE IF WriteProtected(d, i) THEN Fail(z, "WriteProtected", t)
          ELSE x3
    BY Zenon DEF StartType3
  <2>4. res = StartType3(h, d, i, cmd, t)  BY <1>2, <1>7 DEF Type1Ops, Type2Ops, Type3Ops
  <2> HIDE DEF y
  <2>5. z \in Chip /\ z.command_reg = cmd  BY <1>5, <2>1
  <2> HIDE DEF z, drq
  <2>6. Kept(x1) /\ Kept(x2) /\ Kept(x3)  BY <2>5 DEF Chip
  <2> HIDE DEF x1, x2, x3, Kept
  <2>7. Kept(res)  BY <1>5, <2>1, <2>2, <2>4, <2>5, <2>6
  <2> QED BY <2>7 DEF Kept, Single, res
<1>8. CASE cmd.op \in Type1Ops
  <2>1. res = StartType1(h, d, cmd, t)  BY <1>2, <1>8 DEF Type1Ops, Type2Ops, Type3Ops
  <2> QED BY <1>3, <2>1 DEF Single, res
<1>9. CASE cmd.op \notin Type1Ops \cup Type2Ops \cup Type3Ops
  BY <1>2, <1>4, <1>9 DEF Single, res
<1> QED BY <1>6, <1>7, <1>8, <1>9
=============================================================================
