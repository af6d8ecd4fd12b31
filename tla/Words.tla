------------------------------- MODULE Words -------------------------------
(***************************************************************************)
(* Machine words of W bits.  The registers, addresses and immediates of    *)
(* src/rtl are logic [31:0]; every operator here wraps at 2^W as those     *)
(* vectors do, so a small W keeps the overflow behaviour.                  *)
(***************************************************************************)
EXTENDS Integers, FiniteSetsExt

CONSTANT W          \* width of a word in bits (32 in src/rtl)

ASSUME WAssumption == W \in Nat \ {0}

(* 2^k for the k a double word needs, as a function the proofs can unfold. *)
Pow2[k \in 0 .. 2*W] == IF k = 0 THEN 1 ELSE 2 * Pow2[k-1]

WordMod == Pow2[W]
HalfMod == Pow2[W-1]
Word == 0 .. WordMod - 1

Add(a, b) == (a + b) % WordMod
Sub(a, b) == (a - b) % WordMod
Neg(a)    == (WordMod - a) % WordMod           \* ~a + 1

Signed(a) == IF a >= HalfMod THEN a - WordMod ELSE a

(* A word as the set of its one bits, which makes the bitwise operators    *)
(* set operations.                                                         *)
Bits(a)     == {i \in 0 .. W-1 : (a \div Pow2[i]) % 2 = 1}
FromBits(S) ==
  LET Sum[n \in 0 .. W] ==
        IF n = 0 THEN 0 ELSE Sum[n-1] + (IF n-1 \in S THEN Pow2[n-1] ELSE 0)
  IN Sum[W]

And(a, b)    == FromBits(Bits(a) \cap Bits(b))
Or(a, b)     == FromBits(Bits(a) \cup Bits(b))
Xor(a, b)    == FromBits(SymDiff(Bits(a), Bits(b)))
AndNot(a, b) == FromBits(Bits(a) \ Bits(b))

(* Variant: the whole amount counts.                                       *)
ShiftRAWhole(a, n) == (Signed(a) \div 2^n) % WordMod

(* The three shifts; src/rtl takes the low log2(32) bits of the amount.    *)
ShiftL(a, n)  == (a * Pow2[n % W]) % WordMod
ShiftR(a, n)  == a \div Pow2[n % W]
ShiftRA(a, n) == (Signed(a) \div Pow2[n % W]) % WordMod
=============================================================================
