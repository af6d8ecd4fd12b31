------------------------------ MODULE Encoding ------------------------------
(***************************************************************************)
(* Instructions as 32-bit words: imm_gen.sv, the field slices of           *)
(* decoder.sv, and the encoders of tb_imm_gen.cpp and tb_decoder.cpp.  A   *)
(* word is the set of its one bits, since TLC's integers stop short of it. *)
(***************************************************************************)
EXTENDS ISA

Bit == 0 .. 31

(* Bits hi..lo of word w, moved down (or up) to start at bit "at".         *)
Slice(w, hi, lo, at) == {i - lo + at : i \in w \cap (lo .. hi)}
(* Copies of the top bit from position "from" up.                          *)
Sext(w, from) == IF 31 \in w THEN from .. 31 ELSE {}
(* 2^k for the bits below the sign, as a function the proofs can unfold.   *)
Exp2[k \in 0 .. 30] == IF k = 0 THEN 1 ELSE 2 * Exp2[k-1]

(* The number in a slice of at most seven bits.                            *)
Value(S) ==
  LET Sum[n \in 0 .. 7] ==
        IF n = 0 THEN 0 ELSE Sum[n-1] + (IF n-1 \in S THEN Exp2[n-1] ELSE 0)
  IN Sum[7]
(* The two's complement of x, |x| < 2^31.                                  *)
BitsOf(x) == {i \in 0 .. 30 : (x \div Exp2[i]) % 2 = 1} \cup (IF x < 0 THEN {31} ELSE {})

OpcodeNumber(op) ==
  CASE op = "LOAD" -> 3 [] op = "CUSTOM0" -> 11 [] op = "OPIMM" -> 19 [] op = "AUIPC" -> 23
    [] op = "STORE" -> 35 [] op = "OP" -> 51 [] op = "LUI" -> 55 [] op = "BRANCH" -> 99
    [] op = "JALR" -> 103 [] op = "JAL" -> 111 [] op = "SYSTEM" -> 115 [] OTHER -> 127

(* Any opcode that is not decoded stands with FENCE.                       *)
OpcodeOf(w) ==
  LET n == Value(Slice(w, 6, 0, 0))
      known == {op \in Opcode \ {"FENCE"} : OpcodeNumber(op) = n}
  IN IF known = {} THEN "FENCE" ELSE CHOOSE op \in known : TRUE

-----------------------------------------------------------------------------
(* imm_gen.sv: the immediate of an instruction word.                       *)
ImmGen(w) ==
  LET op == OpcodeOf(w) IN
  CASE op \in {"LOAD", "OPIMM", "JALR"} -> Sext(w, 12) \cup Slice(w, 31, 20, 0)
    [] op = "STORE" -> Sext(w, 12) \cup Slice(w, 31, 25, 5) \cup Slice(w, 11, 7, 0)
    [] op = "BRANCH" -> Sext(w, 12) \cup Slice(w, 7, 7, 11) \cup Slice(w, 30, 25, 5)
                          \cup Slice(w, 11, 8, 1)
    [] op \in {"LUI", "AUIPC"} -> Slice(w, 31, 12, 12)
    [] op = "JAL" -> Sext(w, 20) \cup Slice(w, 19, 12, 12) \cup Slice(w, 20, 20, 11)
                       \cup Slice(w, 30, 21, 1)
    [] OTHER -> {}

(* Variant: the second copy of the branch layout has bits 7 and 31 swapped.*)
LookaheadImmSwapped(w) ==
  IF OpcodeOf(w) = "BRANCH"
  THEN (IF 7 \in w THEN 12 .. 31 ELSE {}) \cup Slice(w, 31, 31, 11) \cup Slice(w, 30, 25, 5)
         \cup Slice(w, 11, 8, 1)
  ELSE Sext(w, 12) \cup Slice(w, 31, 20, 0)

(* The immediate of the second instruction of a pair, which the fusion     *)
(* logic extracts by slices of its own.                                    *)
LookaheadImm(w) ==
  IF OpcodeOf(w) = "BRANCH"
  THEN Sext(w, 12) \cup Slice(w, 7, 7, 11) \cup Slice(w, 30, 25, 5) \cup Slice(w, 11, 8, 1)
  ELSE Sext(w, 12) \cup Slice(w, 31, 20, 0)

(* The fields decoder.sv takes from the word.                              *)
Fields(w) ==
  [op |-> OpcodeOf(w), f3 |-> Value(Slice(w, 14, 12, 0)), f7 |-> Value(Slice(w, 31, 25, 0))]

-----------------------------------------------------------------------------
(* tb_imm_gen.cpp: an immediate, as a set of bits, placed in its format.   *)
OpcodeBits(op) == BitsOf(OpcodeNumber(op))

enc_I(u, op) == Slice(u, 11, 0, 20) \cup OpcodeBits(op)
enc_S(u, op) == Slice(u, 11, 5, 25) \cup Slice(u, 4, 0, 7) \cup OpcodeBits(op)
enc_B(u, op) == Slice(u, 12, 12, 31) \cup Slice(u, 10, 5, 25) \cup Slice(u, 4, 1, 8)
                  \cup Slice(u, 11, 11, 7) \cup OpcodeBits(op)
enc_U(u, op) == Slice(u, 31, 12, 12) \cup OpcodeBits(op)
enc_J(u, op) == Slice(u, 20, 20, 31) \cup Slice(u, 19, 12, 12) \cup Slice(u, 11, 11, 20)
                  \cup Slice(u, 10, 1, 21) \cup OpcodeBits(op)

(* tb_decoder.cpp: the register fields of a word and its function codes.   *)
r_type(f7, rs2, rs1, f3, rd, op) ==
  Slice(BitsOf(f7), 6, 0, 25) \cup Slice(BitsOf(rs2), 4, 0, 20) \cup Slice(BitsOf(rs1), 4, 0, 15)
    \cup Slice(BitsOf(f3), 2, 0, 12) \cup Slice(BitsOf(rd), 4, 0, 7) \cup OpcodeBits(op)
i_type(imm12, rs1, f3, rd, op) ==
  Slice(BitsOf(imm12), 11, 0, 20) \cup r_type(0, 0, rs1, f3, rd, op)
=============================================================================
