----------------------------- MODULE LoadStore -----------------------------
(***************************************************************************)
(* Byte, halfword and word accesses to the data memory: the byte lanes of  *)
(* the pipelined core's word memory, and the byte memory of the single-    *)
(* cycle core.  A word is four bytes of W/4 bits.                          *)
(***************************************************************************)
EXTENDS ISA

ASSUME LoadStoreAssumption == W % 4 = 0

ByteMod == Pow2[W \div 4]
HalfwordMod == ByteMod * ByteMod
Lane == 0 .. 3
LaneMod(k) == Pow2[k * (W \div 4)]     \* the weight of byte k

ByteOf(x, k) == (x \div LaneMod(k)) % ByteMod
WordOf(byte) ==
  byte[0] + byte[1] * LaneMod(1) + byte[2] * LaneMod(2) + byte[3] * LaneMod(3)

Truncate(width, x) ==
  CASE width = "byte" -> x % ByteMod
    [] width = "half" -> x % HalfwordMod
    [] OTHER -> x

SignExtend(x, mod) == IF x >= mod \div 2 THEN x + WordMod - mod ELSE x

(* What a load of this width makes of the bytes from its address on.       *)
Extend(width, unsigned, x) ==
  CASE width = "byte" /\ ~unsigned -> SignExtend(x % ByteMod, ByteMod)
    [] width = "half" /\ ~unsigned -> SignExtend(x % HalfwordMod, HalfwordMod)
    [] OTHER -> Truncate(width, x)

-----------------------------------------------------------------------------
(* The pipelined core.  Lanes do not leave the word: a halfword in the     *)
(* last lane loses its upper byte, and a word access ignores the lane.     *)
ByteEnable(width, lane) ==
  CASE width = "byte" -> {lane}
    [] width = "half" -> {lane, lane + 1} \cap Lane
    [] OTHER -> Lane

StoreLanes(old, width, lane, x) ==
  LET data == IF width = "word" THEN x ELSE (Truncate(width, x) * LaneMod(lane)) % WordMod
  IN WordOf([k \in Lane |-> ByteOf(IF k \in ByteEnable(width, lane) THEN data ELSE old, k)])

LoadLanes(raw, width, unsigned, lane) ==
  IF width = "word" THEN raw ELSE Extend(width, unsigned, raw \div LaneMod(lane))

-----------------------------------------------------------------------------
(* The single-cycle core: mem is an array of bytes, and any address will   *)
(* do for any width.                                                       *)
ReadBytes(mem, off, width, unsigned) ==
  Extend(width, unsigned, WordOf([k \in Lane |-> mem[(off + k) % Cardinality(DOMAIN mem)]]))

WriteBytes(mem, off, width, x) ==
  LET size == CASE width = "byte" -> 1 [] width = "half" -> 2 [] OTHER -> 4
      Place(j) == (j - off) % Cardinality(DOMAIN mem)
  IN [j \in DOMAIN mem |-> IF Place(j) < size THEN ByteOf(x, Place(j)) ELSE mem[j]]
=============================================================================
