------------------------------- MODULE Words -------------------------------
(***************************************************************************)
(* The machine's numbers, to scale. The source has bytes of 8 bits, wydes  *)
(* of two bytes, tetras of four and octas of eight; here a byte has B      *)
(* bits, and everything that counts bytes, wydes or instructions keeps the *)
(* source's numbers: an octa has four wydes, an instruction is four bytes  *)
(* long. Words are unsigned; Signed and Cut convert.                       *)
(***************************************************************************)
EXTENDS Integers, Sequences

CONSTANT B          \* bits of a byte: 8 in the source

ASSUME BAssumption == B \in Nat \ {0}

(* Powers of two. *)
Pow2[n \in Nat] == IF n = 0 THEN 1 ELSE 2 * Pow2[n - 1]

(* The operations on bits, lowest bit first; each bit that two numbers     *)
(* share is counted twice in their sum.                                    *)
And[x \in Nat] ==
  [y \in Nat |-> IF x = 0 THEN 0 ELSE 2 * And[x \div 2][y \div 2] + ((x % 2) * (y % 2))]
x & y == And[x][y]
x | y == x + y - (x & y)
x ^^ y == x + y - 2 * (x & y)

Bits(bytes) == B * bytes
XLEN == Bits(8)
M == Pow2[XLEN]
Octa == 0 .. M - 1

(* Two's complement of n bits. *)
CutTo(n, x) == x % Pow2[n]
SignedIn(n, x) == IF x >= Pow2[n - 1] THEN x - Pow2[n] ELSE x
Cut(x) == CutTo(XLEN, x)
Signed(x) == SignedIn(XLEN, x)

(* A signed field of n bits: does x fit, and what does it read as? *)
Fits(n, x) == x \in -Pow2[n - 1] .. Pow2[n - 1] - 1

Inv(x) == M - 1 - x

(* The wydes of an octa, 0 the lowest. *)
WydeBits == Bits(2)
Wyde(x, w) == (x \div Pow2[w * WydeBits]) % Pow2[WydeBits]
AtWyde(imm, w) == imm * Pow2[w * WydeBits]
Ones == Pow2[WydeBits] - 1

(* Quotient and remainder as C has them: truncated. *)
Abs(x) == IF x < 0 THEN -x ELSE x
Quot(x, y) == (IF (x < 0) = (y < 0) THEN 1 ELSE -1) * (Abs(x) \div Abs(y))
Rem(x, y) == x - y * Quot(x, y)
============================================================================
