---------------------------- MODULE SingleCycle ----------------------------
(***************************************************************************)
(* The machine a program sees: core_top.sv, the single-cycle core the      *)
(* repository verifies against the Spike simulator, with what only the     *)
(* pipelined core has, executed in program order: the traps and CSRs of    *)
(* trap_unit.sv and csr_file.sv, and the UART address a store leaves by.   *)
(* One step retires one instruction, or the two of a fusible pair.         *)
(***************************************************************************)
EXTENDS Machine

VARIABLES imem,      \* the program
          arch       \* pc, regs, mem, csr (the trap CSRs) and uart

scvars == <<imem, arch>>

Init ==
  /\ imem \in [0 .. NW-1 -> Instr]
  /\ arch = [pc |-> MemBase, regs |-> BootRegs, mem |-> BytesOf(BootDmem),
             csr |-> [a \in TrapCsr |-> CsrReset[a]], uart |-> UartInit]

(* The event counters are not part of the architectural state kept here:   *)
(* they read as zero.                                                      *)
ArchCsrRead(s, a) == IF a \in TrapCsr THEN s.csr[a] ELSE 0

(* The value instruction i writes to rd in state s.                        *)
RdData(s, i) ==
  LET d  == Decode(i)
      a  == s.regs[i.rs1]
      b  == s.regs[i.rs2]
      alu == Alu(d.alu_op, IF d.src_a_pc THEN s.pc ELSE a, IF d.src_b_imm THEN i.imm ELSE b)
  IN CASE d.is_csr -> ArchCsrRead(s, i.csr)
       [] d.is_muldiv -> MuldivResult(i.f3, a, b)
       [] d.result_src = "mem" -> ReadBytes(s.mem, Sub(alu, MemBase), d.mem_width, d.mem_unsigned)
       [] d.result_src = "pc4" -> Add(s.pc, 4)
       [] d.result_src = "imm" -> i.imm
       [] OTHER -> alu

NextPc(s, i) ==
  CASE i.op = "JAL" -> Add(s.pc, i.imm)
    [] i.op = "JALR" -> JalrTarget(s.regs[i.rs1], i.imm)
    [] i.op = "BRANCH" /\ BranchTaken(i.f3, s.regs[i.rs1], s.regs[i.rs2]) -> Add(s.pc, i.imm)
    [] OTHER -> Add(s.pc, 4)

Retire(s) ==
  LET i == imem[MemIndex(s.pc)]
      d == Decode(i)
      addr == Add(s.regs[i.rs1], i.imm)
      store == d.mem_write /\ addr # UartAddr
      send  == d.mem_write /\ addr = UartAddr
  IN IF d.illegal
     THEN [s EXCEPT !.pc = s.csr["mtvec"], !.csr = CsrTrap(@, s.pc, i)]
     ELSE [pc   |-> NextPc(s, i),
           regs |-> RegWrite(s.regs, d.reg_write, i.rd, RdData(s, i)),
           mem  |-> IF store
                    THEN WriteBytes(s.mem, Sub(addr, MemBase), d.mem_width, s.regs[i.rs2])
                    ELSE s.mem,
           csr  |-> IF d.is_csr
                    THEN CsrWrite(s.csr, i.csr, CsrWriteValue(i.f3, ArchCsrRead(s, i.csr),
                                                              s.regs[i.rs1]))
                    ELSE s.csr,
           uart |-> IF send THEN UartSend(s.uart, s.regs[i.rs2]) ELSE s.uart]

RetireOne == arch' = Retire(arch)

(* A fused pair retires as a unit, with the effect of its instructions in  *)
(* program order.                                                          *)
RetirePair ==
  /\ \E k \in Idiom : Matches(k, imem[MemIndex(arch.pc)], imem[MemIndex(Add(arch.pc, 4))])
  /\ arch' = Retire(Retire(arch))

(* Instructions are fetched from word boundaries.                          *)
Next == MemLane(arch.pc) = 0 /\ (RetireOne \/ RetirePair) /\ UNCHANGED imem

Spec == Init /\ [][Next]_scvars
=============================================================================
