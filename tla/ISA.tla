-------------------------------- MODULE ISA --------------------------------
(***************************************************************************)
(* What one instruction asks of the machine: decoder.sv and alu.sv, which  *)
(* the pipelined core and the single-cycle reference core both instantiate,*)
(* and the branch comparator and the CSR write function of EX.             *)
(*                                                                         *)
(* An instruction is a record of its fields.  "op" names the opcode, "imm" *)
(* is the immediate imm_gen.sv extracts for that opcode (reduced to W      *)
(* bits), and "enc" is the encoded word, which only mtval sees.            *)
(***************************************************************************)
EXTENDS Words

CONSTANT Reg        \* register numbers; x0 is 0

ASSUME RegAssumption == Reg \subseteq Nat /\ 0 \in Reg

Opcode == {"LOAD", "OPIMM", "AUIPC", "STORE", "OP", "LUI", "BRANCH",
           "JALR", "JAL", "CUSTOM0", "SYSTEM", "FENCE"}

CsrAddr == {"mepc", "mcause", "mtval", "mtvec",
            "muldiv_active", "isol_active", "fusion_active", "mcycle", "none"}

Instr == [op : Opcode, f3 : 0..7, f7 : {0, 1, 32}, rd : Reg, rs1 : Reg,
          rs2 : Reg, imm : Word, csr : CsrAddr, enc : Word]

NOP == [op |-> "OPIMM", f3 |-> 0, f7 |-> 0, rd |-> 0, rs1 |-> 0, rs2 |-> 0,
        imm |-> 0, csr |-> "none", enc |-> 0]

-----------------------------------------------------------------------------
AluOp == {"ADD", "SUB", "SLL", "SLT", "SLTU", "XOR", "SRL", "SRA", "OR", "AND"}

(* Variant: bit 5 of funct7 is looked at for OPIMM too, where it belongs to*)
(* the immediate.                                                          *)
AluFunctionAnySub(op, f3, f7) ==
  CASE f3 = 0 -> IF (f7 \div 32) % 2 = 1 THEN "SUB" ELSE "ADD"
    [] f3 = 1 -> "SLL"
    [] f3 = 2 -> "SLT"
    [] f3 = 3 -> "SLTU"
    [] f3 = 4 -> "XOR"
    [] f3 = 5 -> IF (f7 \div 32) % 2 = 1 THEN "SRA" ELSE "SRL"
    [] f3 = 6 -> "OR"
    [] OTHER  -> "AND"

(* The operation funct3 selects for OP and OPIMM, with bit 5 of funct7; SUB*)
(* only exists for OP.                                                     *)
AluFunction(op, f3, f7) ==
  CASE f3 = 0 -> IF op = "OP" /\ (f7 \div 32) % 2 = 1 THEN "SUB" ELSE "ADD"
    [] f3 = 1 -> "SLL"
    [] f3 = 2 -> "SLT"
    [] f3 = 3 -> "SLTU"
    [] f3 = 4 -> "XOR"
    [] f3 = 5 -> IF (f7 \div 32) % 2 = 1 THEN "SRA" ELSE "SRL"
    [] f3 = 6 -> "OR"
    [] OTHER  -> "AND"

IsCsr(i) == i.op = "SYSTEM" /\ i.f3 \in {1, 2, 3}

(* The access width and the extension of a load, in funct3.                *)
MemWidth(f3) == CASE f3 % 4 = 0 -> "byte" [] f3 % 4 = 1 -> "half" [] OTHER -> "word"

(* The control signals of decoder.sv.                                      *)
Decode(i) ==
  LET muldiv == i.op = "OP" /\ i.f7 = 1 IN
  [reg_write   |-> \/ i.op \in {"OP", "OPIMM", "LOAD", "JAL", "JALR", "LUI", "AUIPC"}
                   \/ IsCsr(i),
   mem_read    |-> i.op = "LOAD",
   mem_write   |-> i.op = "STORE",
   mem_width   |-> IF i.op \in {"LOAD", "STORE"} THEN MemWidth(i.f3) ELSE "word",
   mem_unsigned |-> i.op = "LOAD" /\ i.f3 >= 4,
   alu_op      |-> IF i.op \in {"OP", "OPIMM"} /\ ~muldiv
                   THEN AluFunction(i.op, i.f3, i.f7) ELSE "ADD",
   src_a_pc    |-> i.op = "AUIPC",
   src_b_imm   |-> i.op \in {"OPIMM", "LOAD", "STORE", "JALR", "AUIPC"},
   result_src  |-> CASE i.op = "LOAD" -> "mem"
                     [] i.op \in {"JAL", "JALR"} -> "pc4"
                     [] i.op = "LUI" -> "imm"
                     [] OTHER -> "alu",
   is_muldiv   |-> muldiv,
   is_branch   |-> i.op = "BRANCH",
   is_jal      |-> i.op = "JAL",
   is_jalr     |-> i.op = "JALR",
   fisol_bound |-> i.op = "CUSTOM0" /\ i.f3 = 0,
   fisol_off   |-> i.op = "CUSTOM0" /\ i.f3 = 1,
   illegal     |-> \/ i.op = "CUSTOM0" /\ i.f3 > 1
                   \/ i.op = "SYSTEM" /\ ~IsCsr(i),
   is_csr      |-> IsCsr(i)]

-----------------------------------------------------------------------------
Alu(op, a, b) ==
  CASE op = "ADD"  -> Add(a, b)
    [] op = "SUB"  -> Sub(a, b)
    [] op = "SLL"  -> ShiftL(a, b)
    [] op = "SLT"  -> IF Signed(a) < Signed(b) THEN 1 ELSE 0
    [] op = "SLTU" -> IF a < b THEN 1 ELSE 0
    [] op = "XOR"  -> Xor(a, b)
    [] op = "SRL"  -> ShiftR(a, b)
    [] op = "SRA"  -> ShiftRA(a, b)
    [] op = "OR"   -> Or(a, b)
    [] OTHER       -> And(a, b)

(* The dedicated branch comparator; funct3 2 and 3 are never taken.        *)
BranchTaken(f3, a, b) ==
  CASE f3 = 0 -> a = b
    [] f3 = 1 -> a # b
    [] f3 = 4 -> Signed(a) < Signed(b)
    [] f3 = 5 -> Signed(a) >= Signed(b)
    [] f3 = 6 -> a < b
    [] f3 = 7 -> a >= b
    [] OTHER  -> FALSE

(* What a CSR instruction does to the register, in funct3.                 *)
CsrOp(f3) == f3 % 4

(* CSRRW, CSRRS and CSRRC: the value written for the value read.           *)
CsrWriteValue(f3, old, a) ==
  CASE CsrOp(f3) = 1 -> a
    [] CsrOp(f3) = 2 -> Or(old, a)
    [] CsrOp(f3) = 3 -> AndNot(old, a)
    [] OTHER  -> 0

(* JALR clears bit 0 of its target.                                        *)
JalrTarget(a, imm) == Add(a, imm) - (Add(a, imm) % 2)
=============================================================================
