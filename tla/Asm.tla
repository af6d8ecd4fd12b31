-------------------------------- MODULE Asm --------------------------------
(***************************************************************************)
(* Assembler for the small programs the model runs execute.  "enc" numbers *)
(* an instruction only where mtval is looked at.                           *)
(***************************************************************************)
EXTENDS ISA

I(op, f3, rd, rs1, imm) ==
  [NOP EXCEPT !.op = op, !.f3 = f3, !.rd = rd, !.rs1 = rs1, !.imm = imm % WordMod]
R(f3, f7, rd, rs1, rs2) ==
  [NOP EXCEPT !.op = "OP", !.f3 = f3, !.f7 = f7, !.rd = rd, !.rs1 = rs1, !.rs2 = rs2]

ADDI(rd, rs1, imm) == I("OPIMM", 0, rd, rs1, imm)
SLTI(rd, rs1, imm) == I("OPIMM", 2, rd, rs1, imm)
ADD(rd, rs1, rs2)  == R(0, 0, rd, rs1, rs2)
SUBR(rd, rs1, rs2) == R(0, 32, rd, rs1, rs2)
SLT(rd, rs1, rs2)  == R(2, 0, rd, rs1, rs2)
SLTU(rd, rs1, rs2) == R(3, 0, rd, rs1, rs2)
XORR(rd, rs1, rs2) == R(4, 0, rd, rs1, rs2)
MUL(rd, rs1, rs2)  == R(0, 1, rd, rs1, rs2)
MULHU(rd, rs1, rs2) == R(3, 1, rd, rs1, rs2)
DIV(rd, rs1, rs2)  == R(4, 1, rd, rs1, rs2)
REM(rd, rs1, rs2)  == R(6, 1, rd, rs1, rs2)
LUI(rd, imm)       == I("LUI", 0, rd, 0, imm)
AUIPC(rd, imm)     == I("AUIPC", 0, rd, 0, imm)
LW(rd, rs1, imm)   == I("LOAD", 2, rd, rs1, imm)
LB(rd, rs1, imm)   == I("LOAD", 0, rd, rs1, imm)
LH(rd, rs1, imm)   == I("LOAD", 1, rd, rs1, imm)
LBU(rd, rs1, imm)  == I("LOAD", 4, rd, rs1, imm)
LHU(rd, rs1, imm)  == I("LOAD", 5, rd, rs1, imm)
SB(rs2, rs1, imm)  == [I("STORE", 0, 0, rs1, imm) EXCEPT !.rs2 = rs2]
SH(rs2, rs1, imm)  == [I("STORE", 1, 0, rs1, imm) EXCEPT !.rs2 = rs2]
SW(rs2, rs1, imm)  == [I("STORE", 2, 0, rs1, imm) EXCEPT !.rs2 = rs2]
B(f3, rs1, rs2, off) == [I("BRANCH", f3, 0, rs1, off) EXCEPT !.rs2 = rs2]
BEQ(rs1, rs2, off) == B(0, rs1, rs2, off)
BNE(rs1, rs2, off) == B(1, rs1, rs2, off)
BLT(rs1, rs2, off) == B(4, rs1, rs2, off)
BGEU(rs1, rs2, off) == B(7, rs1, rs2, off)
JAL(rd, off)       == I("JAL", 0, rd, 0, off)
JALR(rd, rs1, imm) == I("JALR", 0, rd, rs1, imm)
HALT               == JAL(0, 0)
CSRRW(rd, a, rs1)  == [I("SYSTEM", 1, rd, rs1, 0) EXCEPT !.csr = a]
CSRRS(rd, a, rs1)  == [I("SYSTEM", 2, rd, rs1, 0) EXCEPT !.csr = a]
CSRRC(rd, a, rs1)  == [I("SYSTEM", 3, rd, rs1, 0) EXCEPT !.csr = a]
FISOLBOUND         == I("CUSTOM0", 0, 0, 0, 0)
FISOLOFF           == I("CUSTOM0", 1, 0, 0, 0)
ILLEGAL            == [I("CUSTOM0", 7, 0, 0, 0) EXCEPT !.enc = 5]
=============================================================================
