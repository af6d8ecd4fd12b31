----------------------------- MODULE UnitBench -----------------------------
(***************************************************************************)
(* The unit testbenches of src/sim: each drives one module of src/rtl with *)
(* its vectors and compares with what it expects.  The combinational units *)
(* keep nothing from one vector to the next, so a behaviour takes one      *)
(* vector; tb_muldiv_iter and tb_regfile run through theirs in order.  A   *)
(* vector's "free" bits, which the benches leave 0, may be set here.       *)
(***************************************************************************)
EXTENDS Encoding, MuldivUnit, Sequences

LastReg == Cardinality(Reg) - 1

(* The register numbers have no gap, as rd_addr in regfile.sv has none; the*)
(* word is wide enough for the benches' small numbers, and for the polls   *)
(* to cover an operation (tb_muldiv_iter.cpp:67).                          *)
ASSUME UnitBenchAssumption ==
  W >= 6 /\ LastReg \in Nat \ {0} /\ Reg = 0 .. LastReg

VARIABLES
  bench,      \* the unit under test
  vec,        \* the vector of a combinational unit
  dut,        \* the registers of a clocked unit
  n,          \* position in a clocked unit's list of vectors
  cyc,        \* polls since the start pulse of tb_muldiv_iter
  verdict     \* "none", then "PASS", or "FAIL" for good

ubvars == <<bench, vec, dut, n, cyc, verdict>>

-----------------------------------------------------------------------------
(* tb_imm_gen.cpp.  Besides the bench's immediates, every power of two.    *)
ImmVector(word, x, free) == [word |-> word, expect |-> BitsOf(x), free |-> free]

Powers(lo, hi) == {Exp2[k] : k \in lo .. hi}

ImmI == {2047, -2048, 0, -1} \cup Powers(0, 10)
ImmB == {4094, -4096, 0, -2} \cup Powers(1, 11)
ImmU == {-4096, 0, 305418240, -1412571136} \cup Powers(12, 30)
ImmJ == {1048574, -1048576, 0, -2} \cup Powers(1, 19)

ImmVectors ==
  {ImmVector(enc_I(BitsOf(x), op), x, 7 .. 19) : op \in {"OPIMM", "LOAD", "JALR"}, x \in ImmI}
  \cup {ImmVector(enc_S(BitsOf(x), "STORE"), x, 12 .. 24) : x \in ImmI}
  \cup {ImmVector(enc_B(BitsOf(x), "BRANCH"), x, 12 .. 24) : x \in ImmB}
  \cup {ImmVector(enc_U(BitsOf(x), op), x, 7 .. 11) : op \in {"LUI", "AUIPC"}, x \in ImmU}
  \cup {ImmVector(enc_J(BitsOf(x), "JAL"), x, 7 .. 11) : x \in ImmJ}
  \cup {[word |-> OpcodeBits("none"), expect |-> {}, free |-> 7 .. 31]}

(* Nothing, one bit or all bits of a vector's free ones.                   *)
Noise(v) == {{}, v.free} \cup {{i} : i \in v.free}

-----------------------------------------------------------------------------
(* tb_decoder.cpp: what the bench expects of the control signals.          *)
Exp ==
  [reg_write |-> FALSE, mem_read |-> FALSE, mem_write |-> FALSE, mem_width |-> "word",
   mem_unsigned |-> FALSE, alu_op |-> "ADD", src_a_pc |-> FALSE, src_b_imm |-> FALSE,
   result_src |-> "alu", is_muldiv |-> FALSE, is_branch |-> FALSE, is_jal |-> FALSE,
   is_jalr |-> FALSE, fisol_bound |-> FALSE, fisol_off |-> FALSE, illegal |-> FALSE,
   is_csr |-> FALSE]
Writes == [Exp EXCEPT !.reg_write = TRUE]
WritesImm == [Writes EXCEPT !.src_b_imm = TRUE]

Registers == (7 .. 11) \cup (15 .. 24)        \* rd, rs1, rs2
Operands  == (7 .. 11) \cup (15 .. 31)        \* rd, rs1 and a 12-bit immediate

DecoderVector(word, free, expect) == [word |-> word, free |-> free, expect |-> expect, csr_op |-> 0]
CsrVector(word, free, csr_op) ==
  [word |-> word, free |-> free, expect |-> [Writes EXCEPT !.is_csr = TRUE], csr_op |-> csr_op]

(* funct7, funct3 and the operation they stand for.                        *)
AluCodes == {<<0, 0, "ADD">>, <<32, 0, "SUB">>, <<0, 1, "SLL">>, <<0, 2, "SLT">>, <<0, 3, "SLTU">>,
             <<0, 4, "XOR">>, <<0, 5, "SRL">>, <<32, 5, "SRA">>, <<0, 6, "OR">>, <<0, 7, "AND">>}

LoadCodes == {<<0, "byte", FALSE>>, <<1, "half", FALSE>>, <<2, "word", FALSE>>,
              <<4, "byte", TRUE>>, <<5, "half", TRUE>>}

DecoderVectors ==
  {DecoderVector(r_type(c[1], 1, 2, c[2], 3, "OP"), Registers, [Writes EXCEPT !.alu_op = c[3]]) :
     c \in AluCodes}
  \cup {DecoderVector(r_type(1, 1, 2, 0, 3, "OP"), Registers, [Writes EXCEPT !.is_muldiv = TRUE])}
  \cup {DecoderVector(i_type(32 * c[1] + 5, 1, c[2], 3, "OPIMM"),
                      Operands \ (IF c[2] = 5 THEN {30} ELSE {}), [WritesImm EXCEPT !.alu_op = c[3]]) :
          c \in AluCodes \ {<<32, 0, "SUB">>}}
  \cup {DecoderVector(i_type(0, 1, c[1], 3, "LOAD"), Operands,
                      [WritesImm EXCEPT !.mem_read = TRUE, !.result_src = "mem", !.mem_width = c[2],
                                        !.mem_unsigned = c[3]]) : c \in LoadCodes}
  \cup {DecoderVector(r_type(0, 1, 2, 2, 0, "STORE"), Operands,
                      [Exp EXCEPT !.mem_write = TRUE, !.src_b_imm = TRUE]),
        DecoderVector(r_type(0, 1, 2, 0, 0, "BRANCH"), Operands, [Exp EXCEPT !.is_branch = TRUE]),
        DecoderVector(OpcodeBits("JAL"), 7 .. 31,
                      [Writes EXCEPT !.is_jal = TRUE, !.result_src = "pc4"]),
        DecoderVector(i_type(0, 1, 0, 3, "JALR"), Operands,
                      [WritesImm EXCEPT !.is_jalr = TRUE, !.result_src = "pc4"]),
        DecoderVector(OpcodeBits("LUI"), 7 .. 31, [Writes EXCEPT !.result_src = "imm"]),
        DecoderVector(OpcodeBits("AUIPC"), 7 .. 31, [WritesImm EXCEPT !.src_a_pc = TRUE]),
        DecoderVector(i_type(0, 0, 0, 0, "CUSTOM0"), Operands, [Exp EXCEPT !.fisol_bound = TRUE]),
        DecoderVector(i_type(0, 0, 1, 0, "CUSTOM0"), Operands, [Exp EXCEPT !.fisol_off = TRUE]),
        DecoderVector(OpcodeBits("none"), 7 .. 31, Exp)}
  \cup {DecoderVector(i_type(0, 0, f3, 0, "CUSTOM0"), Operands, [Exp EXCEPT !.illegal = TRUE]) :
          f3 \in 2 .. 7}
  \cup {CsrVector(i_type(0, 1, op, 3, "SYSTEM"), Operands, op) : op \in 1 .. 3}
  \cup {DecoderVector(i_type(0, 1, f3, 3, "SYSTEM"), Operands, [Exp EXCEPT !.illegal = TRUE]) :
          f3 \in {0, 4}}

(* The bench compares csr_op where it expects a CSR instruction.           *)
DecodesTo(v) ==
  LET i == Fields(v.word) IN Decode(i) = v.expect /\ (v.expect.is_csr => CsrOp(i.f3) = v.csr_op)

-----------------------------------------------------------------------------
(* tb_alu.cpp, with its 32-bit patterns at width W.                        *)
Ones == WordMod - 1
SMin == HalfMod
SMax == HalfMod - 1
Stripes == Ones \div 3                         \* 0101...01

AluVector(op, a, b, expect) == [op |-> op, a |-> a, b |-> b, expect |-> expect]

Boundaries ==
  {AluVector("ADD", 0, 0, 0), AluVector("ADD", SMax, 1, SMin), AluVector("ADD", Ones, 1, 0),
   AluVector("ADD", SMin, SMin, 0), AluVector("ADD", 5, Ones - 2, 2),
   AluVector("SUB", 0, 1, Ones), AluVector("SUB", SMin, 1, SMax), AluVector("SUB", SMax, Ones, SMin),
   AluVector("SUB", 5, 5, 0),
   AluVector("SLT", SMin, SMax, 1), AluVector("SLT", SMax, SMin, 0), AluVector("SLT", Ones, 0, 1),
   AluVector("SLT", 5, 5, 0),
   AluVector("SLTU", SMin, SMax, 0), AluVector("SLTU", SMax, SMin, 1),
   AluVector("SLTU", 0, Ones, 1), AluVector("SLTU", Ones, 0, 0),
   AluVector("XOR", Stripes, Ones - Stripes, Ones), AluVector("XOR", Stripes, Stripes, 0),
   AluVector("AND", Ones, 0, 0), AluVector("AND", Ones, Ones, Ones),
   AluVector("OR", Stripes, Ones - Stripes, Ones)}

(* The sweep over every shift amount; an amount of W or more counts modulo *)
(* W.  The results as the bits they set.                                   *)
Shifts ==
  UNION {{AluVector("SLL", Ones, amt + over, FromBits(amt .. W-1)),
          AluVector("SRL", Ones, amt + over, FromBits(0 .. W-1-amt)),
          AluVector("SRA", SMin, amt + over, FromBits(W-1-amt .. W-1)),
          AluVector("SRA", SMax, amt + over, FromBits(0 .. W-2-amt))} :
            amt \in 0 .. W-1, over \in {0, W}}

-----------------------------------------------------------------------------
(* tb_muldiv.cpp and tb_muldiv_iter.cpp: the reference computes in twice   *)
(* the width, with C's truncating division.                                *)
ref(au, bu, op) ==
  LET a == Signed(au)
      b == Signed(bu)
      High(product) == (product % DoubleMod) \div WordMod
  IN CASE op = 0 -> (a * b) % WordMod
       [] op = 1 -> High(a * b)
       [] op = 2 -> High(a * bu)
       [] op = 3 -> High(au * bu)
       [] op \in {4, 5} /\ bu = 0 -> Ones
       [] op \in {6, 7} /\ bu = 0 -> au
       [] op = 4 /\ bu # 0 -> IF au = SMin /\ bu = Ones THEN SMin ELSE Quot(a, b) % WordMod
       [] op = 5 /\ bu # 0 -> au \div bu
       [] op = 6 /\ bu # 0 -> IF au = SMin /\ bu = Ones THEN 0 ELSE Rem(a, b) % WordMod
       [] OTHER -> au % bu

ab == <<<<0, 0>>, <<1, 1>>, <<Ones, Ones>>, <<SMin, SMin>>, <<SMax, SMax>>, <<SMin, Ones>>,
        <<SMin, 1>>, <<SMax, Ones>>, <<Stripes, 0>>, <<SMin, 0>>, <<Ones, 1>>, <<5, Ones - 2>>,
        <<SMin, 2>>>>

MuldivVector(k) ==
  LET p == ab[1 + (k - 1) \div 8] IN [op |-> (k - 1) % 8, a |-> p[1], b |-> p[2]]
MuldivVectors == 8 * Len(ab)

(* The bench's bound of 60 polls on a 32-bit unit.                         *)
Polls == 2 * W - 4

-----------------------------------------------------------------------------
(* regfile.sv, where x0 is not stored, and tb_regfile.cpp.                 *)
RegfileRead(rf, r) == IF r = 0 THEN 0 ELSE rf[r]

(* Variant: the write enable is not looked at.                             *)
RegfileWriteAlways(rf, we, rd, x) == IF rd # 0 THEN [rf EXCEPT ![rd] = x] ELSE rf

RegfileWrite(rf, we, rd, x) == IF we /\ rd # 0 THEN [rf EXCEPT ![rd] = x] ELSE rf

Pattern(r) == (16 * r + 7) % WordMod

Edge(we, rd, x)     == [do |-> "tick", we |-> we, rd |-> rd, x |-> x]
Check(rs1, rs2)     == [do |-> "check", rs1 |-> rs1, rs2 |-> rs2]
RegfileVectors ==
  <<Check(0, 0), Edge(TRUE, 0, Ones), Check(0, 0)>>
    \o [r \in 1 .. LastReg |-> Edge(TRUE, r, Pattern(r))]
    \o [r \in 1 .. LastReg |-> Check(r, LastReg + 1 - r)]
    \o <<Edge(FALSE, 1, Ones), Check(1, 0)>>

-----------------------------------------------------------------------------
(* A clocked unit starts from reset; the register file has none, and may   *)
(* come up with anything.                                                  *)
UbInit ==
  /\ n = 1 /\ cyc = 0 /\ verdict = "none"
  /\ \/ /\ bench = "imm_gen" /\ dut = <<>>
        /\ \E v \in ImmVectors : \E s \in Noise(v) : vec = [v EXCEPT !.word = @ \cup s]
     \/ /\ bench = "decoder" /\ dut = <<>>
        /\ \E v \in DecoderVectors : \E s \in Noise(v) : vec = [v EXCEPT !.word = @ \cup s]
     \/ bench = "alu" /\ dut = <<>> /\ vec \in Boundaries \cup Shifts
     \/ bench = "muldiv" /\ dut = <<>> /\ vec \in {MuldivVector(k) : k \in 1 .. MuldivVectors}
     \/ bench = "muldiv_iter" /\ dut = MuldivReset /\ vec = <<>>
     \/ bench = "regfile" /\ dut \in [Reg \ {0} -> {0, Ones}] /\ vec = <<>>

Compare(ok) == verdict' = IF ok /\ verdict # "FAIL" THEN "PASS" ELSE "FAIL"

Eval ==
  /\ verdict = "none"
  /\ \/ bench = "imm_gen" /\ Compare(ImmGen(vec.word) = vec.expect)
     \/ bench = "decoder" /\ Compare(DecodesTo(vec))
     \/ bench = "alu" /\ Compare(Alu(vec.op, vec.a, vec.b) = vec.expect)
     \/ bench = "muldiv" /\ Compare(MuldivResult(vec.op, vec.a, vec.b) = ref(vec.a, vec.b, vec.op))
  /\ UNCHANGED <<bench, vec, dut, n, cyc>>

(* tb_muldiv_iter: one edge with start, then edges without until done.     *)
IterEdge(start) ==
  LET v == MuldivVector(n) IN dut' = MuldivNext(dut, start, TRUE, v.a, v.b, v.op)

IterStart ==
  /\ bench = "muldiv_iter" /\ n <= MuldivVectors /\ cyc = 0
  /\ IterEdge(TRUE) /\ cyc' = 1
  /\ UNCHANGED <<bench, vec, n, verdict>>

IterPoll ==
  /\ bench = "muldiv_iter" /\ cyc > 0
  /\ IterEdge(FALSE)
  /\ IF dut.done \/ cyc = Polls
     THEN LET v == MuldivVector(n) IN
          /\ Compare(dut.done /\ MuldivBus(dut) = ref(v.a, v.b, v.op))
          /\ n' = n + 1 /\ cyc' = 0
     ELSE cyc' = cyc + 1 /\ UNCHANGED <<n, verdict>>
  /\ UNCHANGED <<bench, vec>>

(* What the bench has written to r when it checks it; x0 reads zero.       *)
Written(r) == IF r = 0 THEN 0 ELSE Pattern(r)

RegfileStep ==
  /\ bench = "regfile" /\ n <= Len(RegfileVectors)
  /\ LET v == RegfileVectors[n] IN
     IF v.do = "tick"
     THEN dut' = RegfileWrite(dut, v.we, v.rd, v.x) /\ UNCHANGED verdict
     ELSE /\ Compare(/\ RegfileRead(dut, v.rs1) = Written(v.rs1)
                     /\ RegfileRead(dut, v.rs2) = Written(v.rs2))
          /\ UNCHANGED dut
  /\ n' = n + 1
  /\ UNCHANGED <<bench, vec, cyc>>

UbNext == Eval \/ IterStart \/ IterPoll \/ RegfileStep

UbSpec == UbInit /\ [][UbNext]_ubvars

-----------------------------------------------------------------------------
(* The decoded immediate is the encoded one, sign and scattered bits       *)
(* included, whatever the register and function fields next to it hold:    *)
(* tb_imm_gen.cpp leaves those 0 (imm_gen.sv:8-20).  The fusion logic's    *)
(* own extraction of the second instruction's immediate agrees, for the    *)
(* opcodes it fuses (core_top_pipelined.sv:189,218,236-238).               *)
ImmediatesRoundTrip ==
  bench = "imm_gen" =>
    /\ verdict # "FAIL"
    /\ OpcodeOf(vec.word) \in {"OPIMM", "JALR", "LOAD", "BRANCH"} =>
         LookaheadImm(vec.word) = ImmGen(vec.word)

(* The control signals are those the bench lists for the instruction, csr_op*)
(* included where it compares it, and no bit of a register number or of an *)
(* immediate changes them: a negative immediate does not turn ADDI into SUB*)
(* (decoder.sv:41-121, tb_decoder.cpp:99-120).                             *)
ControlsDecoded == bench = "decoder" => verdict # "FAIL"

(* The ALU is right at its boundaries and shifts by every amount; both     *)
(* multiply/divide units give the reference's result, the iterative one    *)
(* within the bench's bound and with what the operation before left in its *)
(* registers (alu.sv, tb_alu.cpp:18-58,78-97, tb_muldiv_iter.cpp:60-71).   *)
UnitsAsReference == bench \in {"alu", "muldiv", "muldiv_iter"} => verdict # "FAIL"

(* Every register reads back what was written last, whatever it came up    *)
(* with; x0 reads zero, and a disabled write changes nothing               *)
(* (tb_regfile.cpp:30-62).                                                 *)
RegistersReadBack == bench = "regfile" => verdict # "FAIL"
=============================================================================
