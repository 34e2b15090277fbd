----------------------------- MODULE BitFields -----------------------------
(* A register, a byte or a word is the set of its bit positions that are     *)
(* one, and a block of them an image: a function from addresses to sets of   *)
(* positions.  Masking is intersection, OR is union, XOR is the symmetric    *)
(* difference and a shift moves every position.                              *)
EXTENDS Integers, FiniteSets, FiniteSetsExt

\* The number whose ones are at the positions in bits.
Unsigned(bits) == MapThenSumSet(LAMBDA b : 2^b, bits)

\* The positions of the ones of a number of at most 16 bits.
BitsOf(n) == {b \in 0..15 : (n \div 2^b) % 2 = 1}

ShiftUp(bits, k) == {b + k : b \in bits}
ShiftDown(bits, k) == {b - k : b \in {b \in bits : b >= k}}

Xor(a, b) == (a \ b) \union (b \ a)

\* A 32-bit two's-complement word as a number.
Signed32(bits) ==
    IF 31 \in bits THEN -1 - Unsigned((0..30) \ bits) ELSE Unsigned(bits)

(* A field of a block of registers: its wires say which bit of which unit is *)
(* which bit of the value.                                                   *)
Wires(unit, low, count, place) == {<<unit, low + i, place + i>> : i \in 0..count - 1}

Gathered(image, wires) == {w[3] : w \in {w \in wires : w[2] \in image[w[1]]}}
=============================================================================
