------------------------------- MODULE Z80Cpu --------------------------------
(***************************************************************************)
(* The Z80 core: Z80aCpu::step and the whole instruction set               *)
(* (src/src/devices/cpu/z80a_cpu.cpp), with the registers of z80a_state.   *)
(* Every handler is an operator from a CPU record to a CPU record.  The    *)
(* flags register is the set of the numbers of its set bits.  The memory   *)
(* is a few bytes of RAM in an empty address space, a port reads as a      *)
(* constant, and the last write to a port is kept.  The trace record that  *)
(* an observer gets is left out, and so is the total of the cycles.        *)
(***************************************************************************)
EXTENDS Words, Sequences

CONSTANTS
  Z80Programs,  \* records [kind, cpu, steps, requests]: what may run
  PortInput     \* what every port reads as

VARIABLES
  z80,          \* the CPU with its memory
  z80_program,  \* history: the program that runs, with the CPU it began with
  z80_left      \* instruction boundaries left, a bound of the model

z80_vars == <<z80, z80_program, z80_left>>

\* Bits of the flags register.
FS == 7
FZ == 6
FY == 5
FH == 4
FX == 3
FP == 2
FN == 1
FC == 0

Zeroed == [a |-> 0, f |-> {}, b |-> 0, c |-> 0, d |-> 0, e |-> 0, h |-> 0, l |-> 0]

\* g and s are the register file and its shadow; q holds what the last
\* instruction wrote to F, q_prev what the one before did; t and m1 count the
\* cycles and the opcode fetches of the step.
ResetZ80(mem) ==
  [g |-> Zeroed, s |-> Zeroed, ix |-> 0, iy |-> 0, sp |-> 65535, pc |-> 0, i |-> 0, r |-> 0,
   wz |-> 0, q |-> {}, q_prev |-> {}, iff1 |-> FALSE, iff2 |-> FALSE, im |-> 1,
   halted |-> FALSE, ei_delay |-> FALSE, pending |-> FALSE, nmi |-> FALSE,
   vector |-> 255, supplied |-> FALSE, t |-> 0, m1 |-> 0, mem |-> mem, out |-> <<0, 0>>]

-----------------------------------------------------------------------------
(***************************************************************************)
(* The bus and the registers.                                              *)
(***************************************************************************)
Read(c, a) == IF a \in DOMAIN c.mem THEN c.mem[a] ELSE 255
Write(c, a, v) == IF a \in DOMAIN c.mem THEN [c EXCEPT !.mem[a] = v] ELSE c

\* The second byte of a word at #FFFF is at 0.
ReadWord(c, a) == Read(c, a) + 256 * Read(c, Low16(a + 1))
WriteWord(c, a, w) == Write(Write(c, a, Low(w)), Low16(a + 1), High(w))

OutTo(c, port, v) == [c EXCEPT !.out = <<port, v>>]

Imm(c) == Read(c, c.pc)
Imm16(c) == ReadWord(c, c.pc)
Skip(c, n) == [c EXCEPT !.pc = Low16(@ + n)]
Took(c, n) == [c EXCEPT !.t = @ + n]

Push(c, w) ==
  LET sp == Low16(c.sp - 2)
  IN  [Write(Write(c, Low16(c.sp - 1), High(w)), sp, Low(w)) EXCEPT !.sp = sp]
Popped(c) == ReadWord(c, c.sp)
AfterPop(c) == [c EXCEPT !.sp = Low16(@ + 2)]

\* Bit 7 of R belongs to the program.
TickRefresh(c) == [c EXCEPT !.r = ((@ \div 128) * 128) + ((@ + 1) % 128)]
Fetched(c) == [TickRefresh(Skip(c, 1)) EXCEPT !.m1 = @ + 1]

\* The operand with index 6 is the byte HL points to.
Reg8 == <<"b", "c", "d", "e", "h", "l", "(hl)", "a">>
RP == <<"bc", "de", "hl", "sp">>
RP2 == <<"bc", "de", "hl", "af">>

Pair(c, p) ==
  CASE p = "bc" -> 256 * c.g.b + c.g.c
    [] p = "de" -> 256 * c.g.d + c.g.e
    [] p = "hl" -> 256 * c.g.h + c.g.l
    [] p = "af" -> 256 * c.g.a + ByteOf[c.g.f]
    [] OTHER    -> c[p]
SetPair(c, p, w) ==
  CASE p = "bc" -> [c EXCEPT !.g.b = High(w), !.g.c = Low(w)]
    [] p = "de" -> [c EXCEPT !.g.d = High(w), !.g.e = Low(w)]
    [] p = "hl" -> [c EXCEPT !.g.h = High(w), !.g.l = Low(w)]
    [] p = "af" -> [c EXCEPT !.g.a = High(w), !.g.f = Bits[Low(w)]]
    [] OTHER    -> [c EXCEPT ![p] = w]

HL(c) == Pair(c, "hl")
ReadR(c, n) == IF n = 6 THEN Read(c, HL(c)) ELSE c.g[Reg8[n + 1]]
WriteR(c, n, v) == IF n = 6 THEN Write(c, HL(c), v) ELSE [c EXCEPT !.g[Reg8[n + 1]] = v]

\* NZ, Z, NC, C, PO, PE, P, M
Condition(c, n) == (<<FZ, FC, FP, FS>>[n \div 2 + 1] \in c.g.f) <=> (n % 2 = 1)

-----------------------------------------------------------------------------
(***************************************************************************)
(* Arithmetic.                                                             *)
(***************************************************************************)
If(p, bit) == IF p THEN {bit} ELSE {}
XY(v) == Bits[v] \cap {FY, FX}
SZ(v) == (Bits[v] \cap {FS}) \cup If(v = 0, FZ)
SZXY(v) == SZ(v) \cup XY(v)
SZPXY(v) == SZXY(v) \cup If(EvenParity(v), FP)
Keep(c, flags) == c.g.f \cap flags
Carry(c) == IF FC \in c.g.f THEN 1 ELSE 0
Neg(v) == v >= 128

SetF(c, f) == [c EXCEPT !.g.f = f, !.q = f]
SetAF(c, v, f) == [SetF(c, f) EXCEPT !.g.a = v]

Inc8(c, v) ==
  SetF(c, Keep(c, {FC}) \cup SZXY(Low8(v + 1)) \cup If(v % 16 = 15, FH) \cup If(v = 127, FP))
Dec8(c, v) ==
  SetF(c, Keep(c, {FC}) \cup {FN} \cup SZXY(Low8(v - 1)) \cup If(v % 16 = 0, FH)
            \cup If(v = 128, FP))

\* Mutant: ADC leaves its carry out of the half carry.
HalfCarryWithoutCarry(a, n, k) == (a % 16) + (n % 16) > 15
HalfCarry(a, n, k) == (a % 16) + (n % 16) + k > 15
AddFlags(a, n, k) ==
  LET r == Low8(a + n + k)
  IN  SZXY(r) \cup If(HalfCarry(a, n, k), FH)
        \cup If(Neg(a) = Neg(n) /\ Neg(a) # Neg(r), FP) \cup If(a + n + k > 255, FC)
SubFlags(a, n, k) ==
  LET r == Low8(a - n - k)
  IN  {FN} \cup SZ(r) \cup If((a % 16) - (n % 16) - k < 0, FH)
        \cup If(Neg(a) # Neg(n) /\ Neg(a) # Neg(r), FP) \cup If(a - n - k < 0, FC)

\* ADD, ADC, SUB, SBC, AND, XOR, OR, CP
Alu(c, op, n) ==
  LET a == c.g.a
      k == IF op \in {1, 3} THEN Carry(c) ELSE 0
      r == Low8(a - n - k)
      logic == CASE op = 4 -> And(a, n) [] op = 5 -> Xor(a, n) [] OTHER -> Or(a, n)
  IN  CASE op \in {0, 1} -> SetAF(c, Low8(a + n + k), AddFlags(a, n, k))
        [] op \in {2, 3} -> SetAF(c, r, SubFlags(a, n, k) \cup XY(r))
        [] op = 7        -> SetF(c, SubFlags(a, n, k) \cup XY(n))
        [] OTHER         -> SetAF(c, logic, SZPXY(logic) \cup If(op = 4, FH))

Neg8(c) == SetAF(c, Low8(0 - c.g.a), SubFlags(0, c.g.a, 0) \cup XY(Low8(0 - c.g.a)))

\* ADD HL,ss and its indexed forms: the destination is the pair p.
Add16(c, p, n) ==
  LET w == Pair(c, p)
      r == Low16(w + n)
      f == Keep(c, {FS, FZ, FP}) \cup If((w % 4096) + (n % 4096) > 4095, FH)
             \cup If(w + n > 65535, FC) \cup XY(High(r))
  IN  SetPair(SetF(c, f), p, r)

Neg16(w) == w >= 32768
SZ16(w) == (Bits[High(w)] \cap {FS, FY, FX}) \cup If(w = 0, FZ)
Adc16(c, n) ==
  LET w == HL(c)  k == Carry(c)  r == Low16(w + n + k)
      f == SZ16(r) \cup If((w % 4096) + (n % 4096) + k > 4095, FH)
             \cup If(Neg16(w) = Neg16(n) /\ Neg16(w) # Neg16(r), FP)
             \cup If(w + n + k > 65535, FC)
  IN  SetPair(SetF(c, f), "hl", r)
Sbc16(c, n) ==
  LET w == HL(c)  k == Carry(c)  r == Low16(w - n - k)
      f == {FN} \cup SZ16(r) \cup If((w % 4096) - (n % 4096) - k < 0, FH)
             \cup If(Neg16(w) # Neg16(n) /\ Neg16(w) # Neg16(r), FP)
             \cup If(w - n - k < 0, FC)
  IN  SetPair(SetF(c, f), "hl", r)

\* Result and carry of RLC, RRC, RL, RR, SLA, SRA, SLL, SRL; k is the carry.
Shifted(op, v, k) ==
  LET left == 2 * (v % 128)
      right == v \div 2
  IN  CASE op = 0 -> <<left + (v \div 128), v \div 128>>
        [] op = 1 -> <<right + (128 * (v % 2)), v % 2>>
        [] op = 2 -> <<left + k, v \div 128>>
        [] op = 3 -> <<right + (128 * k), v % 2>>
        [] op = 4 -> <<left, v \div 128>>
        [] op = 5 -> <<right + ((v \div 128) * 128), v % 2>>
        [] op = 6 -> <<left + 1, v \div 128>>
        [] OTHER  -> <<right, v % 2>>

RotateAccumulator(c, op) ==
  LET s == Shifted(op, c.g.a, Carry(c))
  IN  SetAF(c, s[1], Keep(c, {FS, FZ, FP}) \cup If(s[2] = 1, FC) \cup XY(s[1]))

\* The flags of a shift; its result is Shifted(...)[1].
ShiftRotate(c, op, v) ==
  LET s == Shifted(op, v, Carry(c))
  IN  SetF(c, SZPXY(s[1]) \cup If(s[2] = 1, FC))

Daa(c) ==
  LET a == c.g.a
      low == IF FH \in c.g.f \/ a % 16 > 9 THEN 6 ELSE 0
      carry == FC \in c.g.f \/ a > 153
      n == low + (IF carry THEN 96 ELSE 0)
      r == IF FN \in c.g.f THEN Low8(a - n) ELSE Low8(a + n)
  IN  SetAF(c, r, Keep(c, {FN}) \cup SZPXY(r) \cup If(FH \in Bits[Xor(a, r)], FH)
                    \cup If(carry, FC))

Cpl(c) ==
  SetAF(c, Not(c.g.a), Keep(c, {FS, FZ, FP, FC}) \cup {FH, FN} \cup XY(Not(c.g.a)))

\* The undocumented bits depend on whether the instruction before set F.
CarryXY(c) ==
  (((c.q_prev \cup c.g.f) \ (c.q_prev \cap c.g.f)) \cup Bits[c.g.a]) \cap {FX, FY}
Scf(c) == SetF(c, Keep(c, {FS, FZ, FP}) \cup {FC} \cup CarryXY(c))
Ccf(c) ==
  SetF(c, Keep(c, {FS, FZ, FP}) \cup {IF FC \in c.g.f THEN FH ELSE FC} \cup CarryXY(c))

BitTest(c, n, v, source) ==
  SetF(c, Keep(c, {FC}) \cup {FH} \cup (IF n \in Bits[v] THEN {} ELSE {FZ, FP})
            \cup If(n = 7 /\ n \in Bits[v], FS) \cup XY(source))

\* RRD and RLD move the digits of A and of the byte m at HL; new is A's.
RotateDigit(c, new, m) ==
  SetAF(Write(c, HL(c), m), new, Keep(c, {FC}) \cup SZPXY(new))
Rrd(c) ==
  LET m == Read(c, HL(c))
  IN  RotateDigit(c, ((c.g.a \div 16) * 16) + (m % 16), ((c.g.a % 16) * 16) + (m \div 16))
Rld(c) ==
  LET m == Read(c, HL(c))
  IN  RotateDigit(c, ((c.g.a \div 16) * 16) + (m \div 16), ((m % 16) * 16) + (c.g.a % 16))

\* LD A,I and LD A,R: an interrupt about to be taken reads as disabled.
LoadIR(c, v) ==
  SetAF(c, v, Keep(c, {FC}) \cup SZXY(v) \cup If(c.iff2 /\ ~(c.pending /\ c.iff1), FP))

InFlags(c, v) == SetF(c, Keep(c, {FC}) \cup SZPXY(v))

-----------------------------------------------------------------------------
(***************************************************************************)
(* The block instructions: delta is 1 or -1.                               *)
(***************************************************************************)
\* One more turn: the instruction is fetched again.
Again(c) == [c EXCEPT !.pc = Low16(@ - 2)]

BytesLeft(c) == Pair(c, "bc") # 0

\* Bits 3 and 1 of n show up as X and Y.
BlockXY(n) == If(3 \in Bits[n], FX) \cup If(1 \in Bits[n], FY)

Advance(c, p, delta) == SetPair(c, p, Low16(Pair(c, p) + delta))

\* The turn of a transfer or a search ends: the same again, or the next.
EndTurn(c, repeat) ==
  IF repeat THEN Took([Again(c) EXCEPT !.wz = Low16(c.pc - 1)], 21) ELSE Took(c, 16)

BlockTransfer(c, delta, repeat) ==
  LET v == Read(c, HL(c))
      n == Advance(Advance(Advance(Write(c, Pair(c, "de"), v), "hl", delta), "de", delta), "bc", -1)
  IN  EndTurn(SetF(n, Keep(c, {FS, FZ, FC}) \cup If(Pair(n, "bc") # 0, FP)
                        \cup BlockXY(Low8(v + c.g.a))),
              repeat /\ BytesLeft(n))

BlockCompare(c, delta, repeat) ==
  LET v == Read(c, HL(c))
      r == Low8(c.g.a - v)
      half == c.g.a % 16 < v % 16
      n == [Advance(Advance(c, "hl", delta), "bc", -1) EXCEPT !.wz = Low16(@ + delta)]
  IN  EndTurn(SetF(n, Keep(c, {FC}) \cup {FN} \cup SZ(r) \cup If(half, FH)
                        \cup If(Pair(n, "bc") # 0, FP)
                        \cup BlockXY(Low8(r - (IF half THEN 1 ELSE 0)))),
              repeat /\ BytesLeft(n) /\ r # 0)

\* Flags of a byte through a port; k is the sum that sets the carries.
PortFlags(b, v, k) ==
  SZXY(b) \cup If(Neg(v), FN) \cup If(k > 255, FH) \cup If(k > 255, FC)
    \cup If(EvenParity(Xor(k % 8, b)), FP)

EndPortTurn(c, repeat) == IF repeat THEN Took(Again(c), 21) ELSE Took(c, 16)

BlockInput(c, delta, repeat) ==
  LET b == Low8(c.g.b - 1)
      n == [Advance(Write(c, HL(c), PortInput), "hl", delta)
              EXCEPT !.g.b = b, !.wz = Low16(Pair(c, "bc") + delta)]
  IN  EndPortTurn(SetF(n, PortFlags(b, PortInput, PortInput + Low8(c.g.c + delta))),
                  repeat /\ b # 0)

BlockOutput(c, delta, repeat) ==
  LET v == Read(c, HL(c))
      b == Low8(c.g.b - 1)
      n == [Advance(OutTo(c, Pair(c, "bc"), v), "hl", delta)
              EXCEPT !.g.b = b, !.wz = Low16(256 * b + c.g.c + delta)]
  IN  EndPortTurn(SetF(n, PortFlags(b, v, v + n.g.l)), repeat /\ b # 0)

-----------------------------------------------------------------------------
(***************************************************************************)
(* The opcodes without a prefix, by the fields x, y and z of the opcode.   *)
(***************************************************************************)
OpX(op) == op \div 64
OpY(op) == (op \div 8) % 8
OpZ(op) == op % 8
OpP(op) == OpY(op) \div 2
OpQ(op) == OpY(op) % 2

Jump(c, a) == [c EXCEPT !.pc = a, !.wz = a]
JumpRelative(c) == Jump(c, Low16(c.pc + 1 + Signed8(Imm(c))))

ExchangeAF(c) ==
  [c EXCEPT !.g.a = c.s.a, !.g.f = c.s.f, !.s.a = c.g.a, !.s.f = c.g.f]
Exx(c) ==
  [c EXCEPT !.g = [c.s EXCEPT !.a = c.g.a, !.f = c.g.f],
            !.s = [c.g EXCEPT !.a = c.s.a, !.f = c.s.f]]

\* x = 0, z = 0
RelativeJumps(c, y) ==
  LET b == Low8(c.g.b - 1)
      counted == [c EXCEPT !.g.b = b]
  IN  CASE y = 0 -> Took(c, 4)
        [] y = 1 -> Took(ExchangeAF(c), 4)
        [] y = 2 -> IF b # 0 THEN Took(JumpRelative(counted), 13) ELSE Took(Skip(counted, 1), 8)
        [] y = 3 -> Took(JumpRelative(c), 12)
        [] OTHER -> IF Condition(c, y - 4) THEN Took(JumpRelative(c), 12) ELSE Took(Skip(c, 1), 7)

\* What is stored or read next to A leaves its trace in WZ.
TraceA(c, a) == 256 * c.g.a + Low(Low16(a + 1))

\* x = 0, z = 2
IndirectLoads(c, p, q) ==
  LET a == IF p < 2 THEN Pair(c, RP[p + 1]) ELSE Imm16(c)
      n == IF p < 2 THEN c ELSE Skip(c, 2)
      next == Low16(a + 1)
      time == CASE p < 2 -> 7 [] p = 2 -> 16 [] OTHER -> 13
  IN  Took(CASE q = 0 /\ p = 2 -> WriteWord([n EXCEPT !.wz = next], a, HL(c))
             [] q = 0          -> Write([n EXCEPT !.wz = TraceA(c, a)], a, c.g.a)
             [] q = 1 /\ p = 2 -> SetPair([n EXCEPT !.wz = next], "hl", ReadWord(c, a))
             [] OTHER          -> [n EXCEPT !.wz = next, !.g.a = Read(c, a)],
           time)

\* x = 0
LoadsAndJumps(c, op) ==
  LET y == OpY(op)  p == RP[OpP(op) + 1]  q == OpQ(op)
      m == IF y = 6 THEN 11 ELSE 4
      v == ReadR(c, y)
  IN  CASE OpZ(op) = 0 -> RelativeJumps(c, y)
        [] OpZ(op) = 1 /\ q = 0 -> Took(SetPair(Skip(c, 2), p, Imm16(c)), 10)
        [] OpZ(op) = 1 /\ q = 1 ->
             Took(Add16([c EXCEPT !.wz = Low16(HL(c) + 1)], "hl", Pair(c, p)), 11)
        [] OpZ(op) = 2 -> IndirectLoads(c, OpP(op), q)
        [] OpZ(op) = 3 -> Took(Advance(c, p, IF q = 0 THEN 1 ELSE -1), 6)
        [] OpZ(op) = 4 -> Took(WriteR(Inc8(c, v), y, Low8(v + 1)), m)
        [] OpZ(op) = 5 -> Took(WriteR(Dec8(c, v), y, Low8(v - 1)), m)
        [] OpZ(op) = 6 -> Took(WriteR(Skip(c, 1), y, Imm(c)), IF y = 6 THEN 10 ELSE 7)
        [] y < 4 -> Took(RotateAccumulator(c, y), 4)
        [] y = 4 -> Took(Daa(c), 4)
        [] y = 5 -> Took(Cpl(c), 4)
        [] y = 6 -> Took(Scf(c), 4)
        [] y = 7 -> Took(Ccf(c), 4)

\* x = 1
LoadOrHalt(c, op) ==
  IF op = 118 THEN Took([c EXCEPT !.halted = TRUE], 4)
  ELSE Took(WriteR(c, OpY(op), ReadR(c, OpZ(op))), IF 6 \in {OpY(op), OpZ(op)} THEN 7 ELSE 4)

Call(c, a) == Jump(Push(c, c.pc), a)
Return(c) == Jump(AfterPop(c), Popped(c))

\* EX (SP),HL and its indexed forms
ExchangeStack(c, p) ==
  [SetPair(WriteWord(c, c.sp, Pair(c, p)), p, Popped(c)) EXCEPT !.wz = Popped(c)]

\* Mutant: EI lets the next boundary accept.
EagerEi(c) == [c EXCEPT !.iff1 = TRUE, !.iff2 = TRUE]
Ei(c) == [c EXCEPT !.iff1 = TRUE, !.iff2 = TRUE, !.ei_delay = TRUE]
Di(c) == [c EXCEPT !.iff1 = FALSE, !.iff2 = FALSE]

\* OUT (n),A and IN A,(n)
OutImmediate(c) ==
  OutTo([Skip(c, 1) EXCEPT !.wz = 256 * c.g.a + Low8(Imm(c) + 1)], 256 * c.g.a + Imm(c), c.g.a)
InImmediate(c) ==
  [Skip(c, 1) EXCEPT !.wz = Low16(256 * c.g.a + Imm(c) + 1), !.g.a = PortInput]

\* x = 3, z = 3 without the CB prefix
Exchanges(c, y) ==
  CASE y = 0 -> Took(Jump(c, Imm16(c)), 10)
    [] y = 2 -> Took(OutImmediate(c), 11)
    [] y = 3 -> Took(InImmediate(c), 11)
    [] y = 4 -> Took(ExchangeStack(c, "hl"), 19)
    [] y = 5 -> Took(SetPair(SetPair(c, "de", HL(c)), "hl", Pair(c, "de")), 4)
    [] y = 6 -> Took(Di(c), 4)
    [] y = 7 -> Took(Ei(c), 4)

\* x = 3 without the prefixes
Control(c, op) ==
  LET y == OpY(op)  p == OpP(op)  q == OpQ(op)
      target == [Skip(c, 2) EXCEPT !.wz = Imm16(c)]
  IN  CASE OpZ(op) = 0 -> IF Condition(c, y) THEN Took(Return(c), 11) ELSE Took(c, 5)
        [] OpZ(op) = 1 /\ q = 0 -> Took(SetPair(AfterPop(c), RP2[p + 1], Popped(c)), 10)
        [] OpZ(op) = 1 /\ q = 1 ->
             (CASE p = 0 -> Took(Return(c), 10)
                [] p = 1 -> Took(Exx(c), 4)
                [] p = 2 -> Took([c EXCEPT !.pc = HL(c)], 4)
                [] p = 3 -> Took([c EXCEPT !.sp = HL(c)], 6))
        [] OpZ(op) = 2 -> Took(IF Condition(c, y) THEN [target EXCEPT !.pc = Imm16(c)] ELSE target, 10)
        [] OpZ(op) = 3 -> Exchanges(c, y)
        [] OpZ(op) = 4 -> IF Condition(c, y) THEN Took(Call(target, Imm16(c)), 17) ELSE Took(target, 10)
        [] OpZ(op) = 5 /\ q = 0 -> Took(Push(c, Pair(c, RP2[p + 1])), 11)
        [] OpZ(op) = 5 /\ q = 1 -> Took(Call(target, Imm16(c)), 17)
        [] OpZ(op) = 6 -> Took(Alu(Skip(c, 1), y, Imm(c)), 7)
        [] OpZ(op) = 7 -> Took(Call(c, 8 * y), 11)

\* execute_unprefixed for everything but the four prefixes
Plain(c, op) ==
  CASE OpX(op) = 0 -> LoadsAndJumps(c, op)
    [] OpX(op) = 1 -> LoadOrHalt(c, op)
    [] OpX(op) = 2 -> Took(Alu(c, OpY(op), ReadR(c, OpZ(op))), IF OpZ(op) = 6 THEN 7 ELSE 4)
    [] OpX(op) = 3 -> Control(c, op)

-----------------------------------------------------------------------------
(***************************************************************************)
(* The prefixes.                                                           *)
(***************************************************************************)
\* The result of a CB operation on v, and the CPU with its flags.
CbResult(c, op, v) ==
  CASE OpX(op) = 0 -> Shifted(OpY(op), v, Carry(c))[1]
    [] OpX(op) = 2 -> ClearBit(v, OpY(op))
    [] OTHER       -> SetBit(v, OpY(op))
CbFlags(c, op, v) == IF OpX(op) = 0 THEN ShiftRotate(c, OpY(op), v) ELSE c

\* execute_cb_prefixed
CbPrefixed(c0) ==
  LET op == Imm(c0)
      c == Fetched(c0)
      z == OpZ(op)
      v == ReadR(c, z)
  IN  IF OpX(op) = 1
      THEN Took(BitTest(c, OpY(op), v, IF z = 6 THEN High(c.wz) ELSE v), IF z = 6 THEN 12 ELSE 8)
      ELSE Took(WriteR(CbFlags(c, op, v), z, CbResult(c, op, v)), IF z = 6 THEN 15 ELSE 8)

\* x = 1, z = 7 of the ED page
RegisterIR(c, y) ==
  CASE y = 0 -> Took([c EXCEPT !.i = c.g.a], 9)
    [] y = 1 -> Took([c EXCEPT !.r = c.g.a], 9)
    [] y = 2 -> Took(LoadIR(c, c.i), 9)
    [] y = 3 -> Took(LoadIR(c, c.r), 9)
    [] y = 4 -> Took(Rrd([c EXCEPT !.wz = Low16(HL(c) + 1)]), 18)
    [] y = 5 -> Took(Rld([c EXCEPT !.wz = Low16(HL(c) + 1)]), 18)
    [] OTHER -> Took(c, 8)

Retn(c) == [Return(c) EXCEPT !.iff1 = c.iff2]

\* x = 1 of the ED page
EdMisc(c, op) ==
  LET y == OpY(op)  p == RP[OpP(op) + 1]  q == OpQ(op)
      bc == [c EXCEPT !.wz = Low16(Pair(c, "bc") + 1)]
      hl == [c EXCEPT !.wz = Low16(HL(c) + 1)]
      nn == [Skip(c, 2) EXCEPT !.wz = Low16(Imm16(c) + 1)]
      in == InFlags(bc, PortInput)
  IN  CASE OpZ(op) = 0 -> Took(IF y = 6 THEN in ELSE WriteR(in, y, PortInput), 12)
        [] OpZ(op) = 1 -> Took(OutTo(bc, Pair(c, "bc"), IF y = 6 THEN 0 ELSE ReadR(c, y)), 12)
        [] OpZ(op) = 2 -> Took(IF q = 0 THEN Sbc16(hl, Pair(c, p)) ELSE Adc16(hl, Pair(c, p)), 15)
        [] OpZ(op) = 3 -> Took(IF q = 0 THEN WriteWord(nn, Imm16(c), Pair(c, p))
                               ELSE SetPair(nn, p, ReadWord(c, Imm16(c))), 20)
        [] OpZ(op) = 4 -> Took(Neg8(c), 8)
        [] OpZ(op) = 5 -> Took(Retn(c), 14)
        [] OpZ(op) = 6 -> Took([c EXCEPT !.im = <<0, 0, 1, 2>>[(y % 4) + 1]], 8)
        [] OpZ(op) = 7 -> RegisterIR(c, y)

\* execute_ed_prefixed
EdPrefixed(c0) ==
  LET op == Imm(c0)
      c == Fetched(c0)
      delta == IF OpQ(op) = 0 THEN 1 ELSE -1
      repeat == OpY(op) >= 6
      block == OpX(op) = 2 /\ OpZ(op) <= 3 /\ OpY(op) >= 4
  IN  CASE OpX(op) = 1           -> EdMisc(c, op)
        [] block /\ OpZ(op) = 0 -> BlockTransfer(c, delta, repeat)
        [] block /\ OpZ(op) = 1 -> BlockCompare(c, delta, repeat)
        [] block /\ OpZ(op) = 2 -> BlockInput(c, delta, repeat)
        [] block /\ OpZ(op) = 3 -> BlockOutput(c, delta, repeat)
        [] OTHER                -> Took(c, 8)

\* The halves of an index register stand in for H and L.
ReadHalf(c, n, x) ==
  CASE n = 4 -> High(c[x]) [] n = 5 -> Low(c[x]) [] OTHER -> ReadR(c, n)

WriteHalf(c, n, x, v) ==
  CASE n = 4 -> [c EXCEPT ![x] = WithHigh(@, v)]
    [] n = 5 -> [c EXCEPT ![x] = WithLow(@, v)]
    [] OTHER -> WriteR(c, n, v)

\* The address x + d that follows the opcode, and the CPU past the d.
Displaced(c, x) == Low16(c[x] + Signed8(Imm(c)))
PastDisplacement(c, x) == [Skip(c, 1) EXCEPT !.wz = Displaced(c, x)]

IncDec(c, v, q) == IF q = 0 THEN Inc8(c, v) ELSE Dec8(c, v)
Stepped8(v, q) == IF q = 0 THEN Low8(v + 1) ELSE Low8(v - 1)

\* indexed_inc_dec; q is 1 for DEC
IndexedIncDec(c, y, x, q) ==
  LET a == Displaced(c, x)
      n == IF y = 6 THEN PastDisplacement(c, x) ELSE c
      v == IF y = 6 THEN Read(c, a) ELSE ReadHalf(c, y, x)
  IN  IF y = 6 THEN Took(Write(IncDec(n, v, q), a, Stepped8(v, q)), 19)
      ELSE Took(WriteHalf(IncDec(n, v, q), y, x, Stepped8(v, q)), 4)

\* execute_indexed_cb
IndexedCb(c, x) ==
  LET a == Displaced(c, x)
      op == Read(c, Low16(c.pc + 1))
      n == Skip(PastDisplacement(c, x), 1)
      v == Read(c, a)
      r == CbResult(c, op, v)
      w == Write(CbFlags(n, op, v), a, r)
  IN  IF OpX(op) = 1 THEN Took(BitTest(n, OpY(op), v, High(a)), 16)
      ELSE Took(IF OpZ(op) = 6 THEN w ELSE WriteR(w, OpZ(op), r), 19)

\* x = 0
IndexedLoads(c, op, x) ==
  LET y == OpY(op)  p == OpP(op)  q == OpQ(op)
      a == Displaced(c, x)
      n == PastDisplacement(c, x)
      operand == IF p = 2 THEN x ELSE RP[p + 1]
  IN  CASE OpZ(op) = 1 /\ q = 0 /\ p = 2 -> Took([Skip(c, 2) EXCEPT ![x] = Imm16(c)], 10)
        [] OpZ(op) = 1 /\ q = 1 ->
             Took(Add16([c EXCEPT !.wz = Low16(c[x] + 1)], x, Pair(c, operand)), 11)
        [] OpZ(op) = 2 /\ p = 2 ->
             Took(IF q = 0 THEN WriteWord(Skip(c, 2), Imm16(c), c[x])
                  ELSE [Skip(c, 2) EXCEPT ![x] = ReadWord(c, Imm16(c))], 16)
        [] OpZ(op) = 3 /\ p = 2 -> Took(Advance(c, x, IF q = 0 THEN 1 ELSE -1), 6)
        [] OpZ(op) \in {4, 5} /\ y \in {4, 5, 6} -> IndexedIncDec(c, y, x, OpZ(op) - 4)
        [] OpZ(op) = 6 /\ y = 6 -> Took(Write(Skip(n, 1), a, Imm(n)), 15)
        [] OpZ(op) = 6 /\ y \in {4, 5} -> Took(WriteHalf(Skip(c, 1), y, x, Imm(c)), 7)
        [] OTHER -> Plain(c, op)

\* x = 1: with a displaced operand, H and L are themselves.
IndexedMoves(c, op, x) ==
  LET y == OpY(op)  z == OpZ(op)
      a == Displaced(c, x)
      n == PastDisplacement(c, x)
  IN  CASE op = 118 -> Took([c EXCEPT !.halted = TRUE], 4)
        [] y = 6 /\ z # 6 -> Took(Write(n, a, ReadR(c, z)), 15)
        [] z = 6 /\ y # 6 -> Took(WriteR(n, y, Read(c, a)), 15)
        [] OTHER -> Took(WriteHalf(c, y, x, ReadHalf(c, z, x)), 4)

\* x = 2
IndexedAlu(c, op, x) ==
  IF OpZ(op) = 6
  THEN Took(Alu(PastDisplacement(c, x), OpY(op), Read(c, Displaced(c, x))), 15)
  ELSE Took(Alu(c, OpY(op), ReadHalf(c, OpZ(op), x)), 4)

\* x = 3: POP, JP, LD SP, EX (SP), the CB page and PUSH
IndexedControl(c, op, x) ==
  CASE op = 225 -> Took([AfterPop(c) EXCEPT ![x] = Popped(c)], 10)
    [] op = 233 -> Took([c EXCEPT !.pc = c[x]], 4)
    [] op = 249 -> Took([c EXCEPT !.sp = c[x]], 6)
    [] op = 227 -> Took(ExchangeStack(c, x), 19)
    [] op = 203 -> IndexedCb(c, x)
    [] op = 229 -> Took(Push(c, c[x]), 11)
    [] OTHER    -> Plain(c, op)

IndexedOpcode(c, op, x) ==
  CASE OpX(op) = 0 -> IndexedLoads(c, op, x)
    [] OpX(op) = 1 -> IndexedMoves(c, op, x)
    [] OpX(op) = 2 -> IndexedAlu(c, op, x)
    [] OpX(op) = 3 -> IndexedControl(c, op, x)

\* DD and FD
IndexOf == [op \in {221, 253} |-> IF op = 221 THEN "ix" ELSE "iy"]

\* execute_indexed: of a run of prefixes the last one counts, and each costs
\* a fetch.
MorePrefixes(c) ==
  CHOOSE k \in 0 .. Cardinality(DOMAIN c.mem) :
    /\ \A j \in 0 .. k - 1 : Read(c, Low16(c.pc + j)) \in {221, 253}
    /\ Read(c, Low16(c.pc + k)) \notin {221, 253}
Refetched(c, k) ==
  [c EXCEPT !.pc = Low16(@ + k), !.r = ((@ \div 128) * 128) + ((@ + k) % 128), !.m1 = @ + k]
IndexedPrefix(c0, prefix) ==
  LET k == MorePrefixes(c0)
      last == IF k = 0 THEN prefix ELSE Read(c0, Low16(c0.pc + k - 1))
      op == Read(c0, Low16(c0.pc + k))
      c == Took(Refetched(c0, k + 1), 4 + 4 * k)
  IN  IF op = 237 THEN EdPrefixed(c) ELSE IndexedOpcode(c, op, IndexOf[last])

\* execute_unprefixed
ExecuteOpcode(c, op) ==
  CASE op = 203          -> CbPrefixed(c)
    [] op = 237          -> EdPrefixed(c)
    [] op \in {221, 253} -> IndexedPrefix(c, op)
    [] OTHER             -> Plain(c, op)

-----------------------------------------------------------------------------
(***************************************************************************)
(* step                                                                    *)
(***************************************************************************)
\* The acknowledge cycles count for R but not as opcode fetches.
ServiceNmi(c) ==
  Took([Push([TickRefresh(c) EXCEPT !.nmi = FALSE, !.halted = FALSE], c.pc)
          EXCEPT !.iff1 = FALSE, !.pc = 102], 11)

Acknowledged(c) ==
  [c EXCEPT !.pending = FALSE, !.vector = 255, !.supplied = FALSE, !.halted = FALSE,
            !.iff1 = FALSE, !.iff2 = FALSE]

\* service_maskable_interrupt
ServiceInterrupt(c) ==
  LET n == TickRefresh(Acknowledged(c))
  IN  CASE c.im = 0 -> Took(ExecuteOpcode(n, IF c.supplied THEN c.vector ELSE 255), 2)
        [] c.im = 2 -> Took(Call(n, ReadWord(c, 256 * c.i + c.vector)), 19)
        [] OTHER    -> Took(Call(n, 56), 13)

BeginStep(c) == [c EXCEPT !.m1 = 0, !.t = 0, !.q_prev = c.q, !.q = {}]
EndStep(c, blocked) == IF blocked THEN [c EXCEPT !.ei_delay = FALSE] ELSE c

StepZ80(c) ==
  LET b == BeginStep(c)
  IN  EndStep(CASE c.nmi -> ServiceNmi(b)
                [] ~c.nmi /\ ~c.ei_delay /\ c.pending /\ c.iff1 -> ServiceInterrupt(b)
                [] ~c.nmi /\ (c.ei_delay \/ ~c.pending \/ ~c.iff1) /\ c.halted ->
                     Took([TickRefresh(b) EXCEPT !.m1 = @ + 1], 4)
                [] OTHER -> ExecuteOpcode(Fetched(b), Imm(b)),
              c.ei_delay)

-----------------------------------------------------------------------------
\* A program runs for the given number of boundaries, and the requests it
\* allows may come at any of them.
Z80Init ==
  \E p \in Z80Programs : z80 = p.cpu /\ z80_program = p /\ z80_left = p.steps

Z80Step ==
  /\ z80_left > 0
  /\ z80' = StepZ80(z80)
  /\ z80_left' = z80_left - 1
  /\ UNCHANGED z80_program

\* request_maskable_interrupt, without and with a vector
Z80Request ==
  /\ "int" \in z80_program.requests /\ ~z80.pending /\ z80_left > 0
  /\ z80' = [z80 EXCEPT !.pending = TRUE, !.vector = 255, !.supplied = FALSE]
  /\ UNCHANGED <<z80_program, z80_left>>
Z80RequestVector ==
  /\ "vector" \in z80_program.requests /\ ~z80.pending /\ z80_left > 0
  /\ \E v \in {8, 223} : z80' = [z80 EXCEPT !.pending = TRUE, !.vector = v, !.supplied = TRUE]
  /\ UNCHANGED <<z80_program, z80_left>>

\* The request line drops before it was served.
Z80Withdraw ==
  /\ "int" \in z80_program.requests /\ z80.pending /\ z80_left > 0
  /\ z80' = [z80 EXCEPT !.pending = FALSE, !.vector = 255, !.supplied = FALSE]
  /\ UNCHANGED <<z80_program, z80_left>>

Z80RequestNmi ==
  /\ "nmi" \in z80_program.requests /\ ~z80.nmi /\ z80_left > 0
  /\ z80' = [z80 EXCEPT !.nmi = TRUE]
  /\ UNCHANGED <<z80_program, z80_left>>

Z80Next == Z80Step \/ Z80Request \/ Z80RequestVector \/ Z80Withdraw \/ Z80RequestNmi

Z80Spec == Z80Init /\ [][Z80Next]_z80_vars

-----------------------------------------------------------------------------
(***************************************************************************)
(* Properties.                                                             *)
(***************************************************************************)

Start == z80_program.cpu
Finished(kind) == z80_program.kind = kind /\ z80_left = 0

\* The flags that the sum or difference true of two numbers of a given size
\* calls for: limit is 256 or 65536, r the result that was stored, signed the
\* result as signed numbers give it, digits what the lower digits give, and
\* digit the size of these.
Sign(v, limit) == IF 2 * v >= limit THEN v - limit ELSE v
CalledFor(f, limit, true, r, signed, digits, digit) ==
  /\ FS \in f <=> Sign(r, limit) < 0
  /\ FZ \in f <=> r = 0
  /\ FC \in f <=> true \notin 0 .. limit - 1
  /\ FP \in f <=> (2 * signed < -limit \/ 2 * signed >= limit)
  /\ FH \in f <=> digits \notin 0 .. digit - 1
  /\ r = true % limit

\* An addition, sign 1, or subtraction, sign -1, of n and the carry k.
Computes(f, limit, digit, v, n, k, sign, r) ==
  CalledFor(f, limit, v + sign * (n + k), r, Sign(v, limit) + sign * (Sign(n, limit) + k),
            (v % digit) + sign * ((n % digit) + k), digit)

\* After every 8-bit ADD, ADC, SUB, SBC, CP, NEG, INC and DEC and every
\* 16-bit ADC and SBC the flags say what happened to the numbers: C that the
\* unsigned result did not fit, P/V that the signed one did not, H the same
\* of the low digits, and INC and DEC leave C alone.
FlagsTellResult ==
  Finished("arithmetic") =>
    LET op == Read(Start, Start.pc)
        ed == Read(Start, Low16(Start.pc + 1))
        k == Carry(Start)
        f == z80.g.f
        a == Start.g.a
        n == ReadR(Start, OpZ(op))
    IN  CASE op \in 128 .. 135 -> Computes(f, 256, 16, a, n, 0, 1, z80.g.a)
          [] op \in 136 .. 143 -> Computes(f, 256, 16, a, n, k, 1, z80.g.a)
          [] op \in 144 .. 151 -> Computes(f, 256, 16, a, n, 0, -1, z80.g.a)
          [] op \in 152 .. 159 -> Computes(f, 256, 16, a, n, k, -1, z80.g.a)
          [] op \in 184 .. 191 -> /\ Computes(f, 256, 16, a, n, 0, -1, Low8(a - n))
                                  /\ z80.g.a = a
          [] op = 60 -> Computes((f \ {FC}) \cup If(a = 255, FC), 256, 16, a, 1, 0, 1, z80.g.a)
                          /\ (FC \in f <=> k = 1)
          [] op = 61 -> Computes((f \ {FC}) \cup If(a = 0, FC), 256, 16, a, 1, 0, -1, z80.g.a)
                          /\ (FC \in f <=> k = 1)
          [] op = 237 /\ ed = 68 -> Computes(f, 256, 16, 0, a, 0, -1, z80.g.a)
          [] op = 237 /\ OpZ(ed) = 2 ->
               Computes(f, 65536, 4096, HL(Start), Pair(Start, RP[OpP(ed) + 1]), k,
                        IF OpQ(ed) = 1 THEN 1 ELSE -1, HL(z80))

\* DAA after an addition or a subtraction of two decimal numbers leaves the
\* decimal result, and C its carry or borrow.
Decimal(v) == (10 * (v \div 16)) + (v % 16)
DecimalExact ==
  Finished("decimal") =>
    LET op == Read(Start, Start.pc)
        k == IF OpY(op) \in {1, 3} THEN Carry(Start) ELSE 0
        n == Decimal(Start.g.b)
        exact == IF OpY(op) < 2 THEN Decimal(Start.g.a) + n + k ELSE Decimal(Start.g.a) - n - k
    IN  /\ Decimal(z80.g.a) = exact % 100
        /\ FC \in z80.g.f <=> exact \notin 0 .. 99

\* The prefixes DD and FD turn every opcode without a memory operand into the
\* same operation on IX or IY: running it is running the plain opcode with
\* HL and the index register exchanged, and 4 cycles and one refresh more.
SwapIndex(c, x) == [SetPair(c, "hl", c[x]) EXCEPT ![x] = HL(c)]
IndexIsHL ==
  Finished("indexed") =>
    LET x == IndexOf[Read(Start, Start.pc)]
        plain == StepZ80(SwapIndex(Skip(TickRefresh(Start), 1), x))
    IN  [SwapIndex(plain, x) EXCEPT !.t = @ + 4, !.m1 = @ + 1, !.wz = z80.wz] = z80

\* A repeated transfer that interrupts break up again and again still copies
\* as if nothing had happened, one byte after the other: what an overlapping
\* source reads is what was written before.  A search stops behind the first
\* match.
Copied(from, to, n) ==
  \A i \in 0 .. n - 1 :
    Read(z80, to + i) = Read(Start, from + (IF from < to THEN i % (to - from) ELSE i))
BlocksResume ==
  (z80_program.kind = "block" /\ z80.pc = Start.pc + 2) =>
    LET n == Pair(Start, "bc")
        from == HL(Start)
        to == Pair(Start, "de")
        match == {i \in 1 .. n : Read(Start, from + i - 1) = Start.g.a}
        stop == IF match = {} THEN n ELSE CHOOSE i \in match : \A j \in match : i <= j
    IN  CASE Read(Start, Start.pc + 1) = 176 ->
               /\ Copied(from, to, n)
               /\ HL(z80) = from + n /\ Pair(z80, "de") = to + n /\ Pair(z80, "bc") = 0
          [] Read(Start, Start.pc + 1) = 177 ->
               /\ HL(z80) = from + stop /\ Pair(z80, "bc") = n - stop
               /\ FZ \in z80.g.f <=> match # {}

\* A handler that ends in EI and RET is left before the next interrupt is
\* taken, however fast the requests come: the stack never holds two returns.
HandlersDoNotNest ==
  z80_program.kind = "handler" => z80.sp \in {Start.sp, Low16(Start.sp - 2)}

\* Outside an NMI handler the two enable bits agree, whatever order
\* interrupts, EI, DI and NMIs come in: RETN gives back what the NMI found.
EnablesAgree ==
  (z80_program.kind = "nmi" /\ z80.pc \notin 102 .. 105) => z80.iff1 = z80.iff2
=============================================================================
