-------------------------------- MODULE Words --------------------------------
(***************************************************************************)
(* The bytes and words the devices compute with.  A byte is a number; And, *)
(* Or, Xor and Not go through the set of its bits.                         *)
(***************************************************************************)
EXTENDS Integers, FiniteSets

Byte == 0 .. 255
Word == {n \in Nat : n < 65536}

Low8(n) == n % 256
Low16(n) == n % 65536
High(w) == w \div 256
Low(w) == w % 256
WithHigh(w, b) == 256 * b + Low(w)
WithLow(w, b) == 256 * High(w) + b

\* A byte read as a displacement.
Signed8(b) == IF b < 128 THEN b ELSE b - 256

\* The weights of the bits 0 to 7.
Weight == <<1, 2, 4, 8, 16, 32, 64, 128>>
Bits == [v \in Byte |-> {i \in 0 .. 7 : (v \div Weight[i + 1]) % 2 = 1}]
ByteOf == [S \in SUBSET (0 .. 7) |-> CHOOSE v \in Byte : Bits[v] = S]

And(a, b) == ByteOf[Bits[a] \cap Bits[b]]
AndWord(a, b) == 256 * And(a \div 256, b \div 256) + And(a % 256, b % 256)
Or(a, b) == ByteOf[Bits[a] \cup Bits[b]]
Xor(a, b) == ByteOf[(Bits[a] \cup Bits[b]) \ (Bits[a] \cap Bits[b])]
Not(a) == 255 - a
SetBit(a, i) == ByteOf[Bits[a] \cup {i}]
ClearBit(a, i) == ByteOf[Bits[a] \ {i}]

\* compute_even_parity
EvenParity(b) == Cardinality(Bits[b]) % 2 = 0
=============================================================================
