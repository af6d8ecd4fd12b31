------------------------------ MODULE Lockstep ------------------------------
(***************************************************************************)
(* The pipelined core implements the single-cycle machine.  An instruction *)
(* takes effect when it leaves EX: by then it can no longer be flushed,    *)
(* and everything ahead of it has a fixed result.  So the architectural    *)
(* state of a pipeline state is what the memories hold once the operations *)
(* in MEM and WB have drained, and the program counter is that of the      *)
(* oldest instruction that has not left EX.                                *)
(***************************************************************************)
EXTENDS Pipeline

(* A slot of the pipeline holds an instruction of the program, and neither *)
(* a bubble (pc 0) nor the NOP a flush leaves in the fetch register (pc    *)
(* MemBase).  A program has no NOP at these two addresses; with NW a power *)
(* of two they are the same word (see MachineAssumption).                  *)
ASSUME LockstepAssumption == \A p \in Programs : p[MemIndex(0)] # NOP

IsReal(at, i) == ~(at \in {0, MemBase} /\ i = NOP)

ExReal == IsReal(idex.pc, idex.instr)

(* Idiom 3 carries the pc of its second instruction.                       *)
ExPc == IF idex.pend2.valid /\ idex.ctl.is_jalr THEN Sub(idex.pc, 4) ELSE idex.pc

AbsPc ==
  CASE ExReal -> ExPc
    [] ~ExReal /\ IsReal(ifid.pc, ifid.instr) -> ifid.pc
    [] ~ExReal /\ ~IsReal(ifid.pc, ifid.instr) /\ IsReal(fetch.pc, fetch.instr) -> fetch.pc
    [] OTHER -> pc

(* Register writes still to come, oldest first, one per clock edge that is *)
(* not frozen: the write port now, then what is behind it.                 *)
MemResult ==
  IF exmem.result_src = "mem"
  THEN LoadLanes(dmem[MemIndex(exmem.alu_result)], exmem.mem_width, exmem.mem_unsigned,
                 MemLane(exmem.alu_result))
  ELSE MemForwardValue

PendWrite(r, p) == RegWrite(r, p.valid, p.addr, p.data)

AbsRegs ==
  LET afterWb  == IF pend2_fire.valid THEN PendWrite(regs, pend2_fire)
                  ELSE RegWrite(regs, memwb.reg_write, memwb.rd, WbData)
      afterMem == IF memwb.pend2.valid THEN PendWrite(afterWb, memwb.pend2)
                  ELSE RegWrite(afterWb, exmem.reg_write, exmem.rd, MemResult)
  IN PendWrite(afterMem, exmem.pend2)

(* The data memory byte by byte, with a store that is still in MEM.        *)
AbsMem ==
  BytesOf(IF exmem.mem_write /\ exmem.alu_result # UartAddr THEN StoreInMem ELSE dmem)

AbsUart ==
  IF exmem.mem_write /\ exmem.alu_result = UartAddr THEN UartSend(uart, exmem.rs2_data) ELSE uart

AbsCsr ==
  LET afterWb  == IF memwb.is_csr THEN CsrWrite(csr, memwb.csr_addr, memwb.muldiv_result)
                  ELSE csr
      afterMem == IF exmem.is_csr THEN CsrWrite(afterWb, exmem.csr_addr, exmem.muldiv_result)
                  ELSE afterWb
  IN [a \in TrapCsr |-> afterMem[a]]

AbsArch == [pc |-> AbsPc, regs |-> AbsRegs, mem |-> AbsMem, csr |-> AbsCsr, uart |-> AbsUart]

(* The operation in EX leaves it at this edge; it may stand for two        *)
(* instructions.                                                           *)
LeavesEx == ExReal /\ ~MuldivActive

ExFused ==
  \/ idex.pend2.valid
  \/ idex.fuse4.valid
  \/ idex.instr.op \in {"LUI", "AUIPC"} /\ idex.imm # idex.instr.imm

SC == INSTANCE SingleCycle WITH arch <- AbsArch

(* Every clock edge retires nothing, the next instruction, or the next     *)
(* fusible pair, with exactly the effect the single-cycle machine gives    *)
(* it: forwarding, stalls, flushes, the muldiv freeze and fusion are       *)
(* invisible to the program.                                               *)
InOrderRetirement == SC!Spec

(* Idiom 3 has its own base address for an operand, which ID computed.     *)
ExIdiom3 == idex.pend2.valid /\ idex.ctl.is_jalr

(* An operand in EX is what its register holds once everything ahead has   *)
(* written, the deferred write of a fused pair and a load that stalled it  *)
(* included (hazard_unit.sv:48-81, core_top_pipelined.sv:348-360).         *)
ForwardingIsCurrent ==
  /\ FwdB = AbsRegs[idex.rs2]
  /\ ~ExIdiom3 => FwdA = AbsRegs[idex.rs1]

-----------------------------------------------------------------------------
(* What InOrderRetirement takes for granted of the programs and of what    *)
(* they do on the single-cycle machine: each hypothesis has its            *)
(* counterexample in MCDivergence.                                         *)

(* An access of this width that starts in this lane is aligned.            *)
AlignedLane(width, lane) ==
  CASE width = "byte" -> TRUE
    [] width = "half" -> lane % 2 = 0
    [] OTHER -> lane = 0

(* The next instruction of the machine stays within a word of memory if it *)
(* is a load or a store, and goes to a word boundary.                      *)
KeepsAligned(s) ==
  LET i == imem[MemIndex(s.pc)]
      d == Decode(i)
  IN /\ d.mem_read \/ d.mem_write =>
          AlignedLane(d.mem_width, MemLane(Add(s.regs[i.rs1], i.imm)))
     /\ MemLane(SC!Retire(s).pc) = 0

(* So do the next two: of a pair, the machine skips the state between.     *)
MachineTame == KeepsAligned(AbsArch) /\ KeepsAligned(SC!Retire(AbsArch))

(* The CSR instructions of the programs are those of the trap unit.        *)
TrapCsrsOnly ==
  \A p \in Programs, x \in Word : IsCsr(p[MemIndex(x)]) => p[MemIndex(x)].csr \in TrapCsr

(* None of the three instructions behind one of them is illegal; of three, *)
(* two may be a pair.                                                      *)
Successor(x) == Add(x, 4)

TrapsApart ==
  \A p \in Programs, x \in Word :
    IsCsr(p[MemIndex(x)]) =>
      \A y \in {Successor(x), Successor(Successor(x)), Successor(Successor(Successor(x)))} :
        ~Decode(p[MemIndex(y)]).illegal

(* The two destinations of a pair differ, and no comparison that is fused  *)
(* writes x0.                                                              *)
PairsSeparate ==
  FUSION_EN => \A p \in Programs, x \in Word :
                 LET i == p[MemIndex(x)]
                     n == p[MemIndex(Add(x, 4))]
                 IN /\ Pattern3(i, n) \/ Pattern5(i, n) => n.rd # i.rd
                    /\ Pattern4(i, n) => i.rd # 0

(* What keeps the pipeline on the path of the program, and what keeps the  *)
(* values there the same as well.                                          *)
PathsTame == ProductsNotCompared /\ PairsSeparate /\ TrapsApart
ProgramsTame == PathsTame /\ TrapCsrsOnly

-----------------------------------------------------------------------------
(* What that means in the pipeline.                                        *)

(* A load or store in EX stays within its word of memory.                  *)
Aligned ==
  ~MuldivActive /\ (idex.ctl.mem_read \/ idex.ctl.mem_write) =>
    AlignedLane(idex.ctl.mem_width, MemLane(AluResult))

(* A trap finds no CSR instruction ahead of it.                            *)
NoCsrAheadOfTrap == TrapTaken => ~exmem.is_csr /\ ~memwb.is_csr

(* Jumps and traps go to word boundaries.                                  *)
TargetsAligned == Redirect => MemLane(RedirectTarget) = 0

(* Only the path a program takes gets as far as EX: what the programs keep *)
(* to on the single-cycle machine, every state of the pipeline keeps to,   *)
(* whatever words its wrong paths hold (core_top_pipelined.sv:460-470,     *)
(* hazard_unit.sv:80-81).                                                  *)
Tame == MachineTame /\ Aligned /\ NoCsrAheadOfTrap /\ TargetsAligned
=============================================================================
