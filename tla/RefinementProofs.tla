-------------------------- MODULE RefinementProofs --------------------------
(***************************************************************************)
(* How the pipelined core implements the single-cycle machine (Lockstep),  *)
(* for every word width that is a multiple of four, register file, memory  *)
(* size, program and setting of the core's parameters.                     *)
(***************************************************************************)
EXTENDS Lockstep, PipelineProofs

-----------------------------------------------------------------------------
(* Registers.                                                              *)

(* The operands in EX are what the register file holds, no load in MEM is  *)
(* going to write one of them, and only a bubble follows a second write.   *)
OperandInv ==
  /\ idex.rs2_data = regs[idex.rs2]
  /\ ~ExIdiom3 => idex.rs1_data = regs[idex.rs1]
  /\ ExIdiom3 => /\ ~(exmem.reg_write /\ exmem.rd = idex.rs1)
                 /\ ~(memwb.reg_write /\ memwb.rd = idex.rs1)
  /\ exmem.reg_write /\ exmem.mem_read /\ exmem.rd # 0 => exmem.rd # idex.rs1 /\ exmem.rd # idex.rs2
  /\ idex.ctl.result_src = "mem" => idex.ctl.mem_read
  /\ exmem.result_src = "mem" => exmem.mem_read
  /\ exmem.pend2.valid \/ memwb.pend2.valid \/ pend2_fire.valid => idex = IdExBubble

RegsInv == Pend2Inv /\ DataInv /\ OperandInv

(* What a write leaves in a register.                                      *)
LEMMA RegWriteAt ==
  ASSUME NEW r, r \in [Reg -> Word], r[0] = 0, NEW we \in BOOLEAN, NEW rd \in Reg, NEW x \in Word
  PROVE  /\ RegWrite(r, we, rd, x) \in [Reg -> Word]
         /\ RegWrite(r, we, rd, x)[0] = 0
         /\ \A q \in Reg : RegWrite(r, we, rd, x)[q] = IF we /\ rd # 0 /\ rd = q THEN x ELSE r[q]
  BY RegAssumption DEF RegWrite

(* A read in ID is a read of the register file after the edge.             *)
LEMMA ReadSeesWrite ==
  ASSUME TypeOK, ControlTypes, ClockEdge, NEW q \in Reg
  PROVE  RegRead(q) = regs'[q] /\ regs'[0] = 0
  <1>1. regs \in [Reg -> Word] /\ regs[0] = 0 /\ regs' = RegWrite(regs, PortWrite.we, PortWrite.rd, PortWrite.data)
    BY DEF TypeOK, ClockEdge, NextRegs
  <1>2. PortWrite.we \in BOOLEAN
    BY DEF PortWrite, ControlTypes
  <1> QED BY <1>1, <1>2, RegReadType, RegWriteAt DEF RegRead

(* A second write on its way keeps EX empty and the pipeline moving.       *)
LEMMA PendingClears ==
  ASSUME Pend2Inv,
         idex.pend2.valid \/ exmem.pend2.valid \/ memwb.pend2.valid \/ pend2_fire.valid
  PROVE  ClearEx /\ ~MuldivActive
  <1>1. pend2_active /\ ~muldiv.busy /\ (Pend2InEx \/ Pend2InMem \/ Pend2InWb \/ Pend2Fires)
    BY DEF Pend2Inv, Pend2Protocol, Pend2None
  <1>2. ~idex.ctl.is_muldiv
    BY <1>1 DEF Pend2InEx, Pend2InMem, Pend2InWb, Pend2Fires, ExIdle
  <1>3. ~MuldivActive
    BY <1>1, <1>2 DEF MuldivActive, MuldivStart
  <1> QED BY <1>1, <1>3 DEF ClearEx, FlushEx

(* Nothing is written while the pipeline is frozen.                        *)
LEMMA FrozenRegs ==
  ASSUME Pend2Inv, ClockEdge, MuldivActive
  PROVE  regs' = regs
  <1>1. ~pend2_fire.valid
    BY PendingClears
  <1> QED BY <1>1 DEF ClockEdge, NextRegs, PortWrite, RegWrite

(* After reset there is nothing in the pipeline.                           *)
LEMMA InitRegs == Init => RegsInv
  <1> SUFFICES ASSUME Init PROVE RegsInv
    OBVIOUS
  <1>1. Pend2Inv /\ DataInv
    BY InitPend2Inv, InitData
  <1>2. regs[0] = 0
    BY <1>1 DEF DataInv, TypeOK
  <1>3. OperandInv
    BY <1>2 DEF Init, OperandInv, IdExBubble, ExMemReset, MemWbReset, NoPend2, NoControl, ExIdiom3
  <1> QED BY <1>1, <1>3 DEF RegsInv

(* What distinguishes the two kinds of pair with a second write.           *)
LEMMA PairControl ==
  /\ Fuse(3) => IssuedControl.is_jalr
  /\ Fuse(5) /\ ~Fuse(3) => ~IssuedControl.is_jalr
  /\ IssuedControl.result_src = "mem" => IssuedControl.mem_read
  <1> DEFINE d == Decode(ifid.instr)
  <1>1. /\ {"is_jalr", "mem_read", "result_src"} \subseteq DOMAIN d
        /\ d.is_jalr = (ifid.instr.op = "JALR") /\ d.mem_read = (ifid.instr.op = "LOAD")
        /\ d.result_src = "mem" => d.mem_read
    BY DEF Decode
  <1>2. IssuedControl =
          IF Fuse(3) THEN [d EXCEPT !.reg_write = TRUE, !.result_src = "pc4", !.is_jalr = TRUE]
          ELSE IF Fuse(5) THEN [d EXCEPT !.mem_read = TRUE, !.mem_width = "word",
                                         !.result_src = "mem"]
          ELSE d
    BY DEF IssuedControl
  <1>3. Fuse(5) => ifid.instr.op # "JALR"
    BY DEF Fuse, Matches, Pattern5
  <1> HIDE DEF d
  <1> QED BY <1>1, <1>2, <1>3

(* What is issued reads the register file and not a load on its way.       *)
LEMMA IssuedOperands ==
  ASSUME RegsInv, ClockEdge, ~ClearEx, ~MuldivActive
  PROVE  OperandInv'
  <1>0. TypeOK /\ ControlTypes
    BY DEF RegsInv, DataInv, Pend2Inv
  <1>1. idex' = Issued
    BY DEF ClockEdge, NextIdEx
  <1>2. ifid.instr.rs1 \in Reg /\ ifid.instr.rs2 \in Reg
    BY <1>0, InstrTypes DEF TypeOK
  <1>3. /\ exmem'.reg_write = idex.ctl.reg_write /\ exmem'.rd = idex.rd
        /\ exmem'.mem_read = idex.ctl.mem_read /\ exmem'.result_src = idex.ctl.result_src
    BY DEF ClockEdge, NextExMem
  <1>4. memwb'.reg_write = exmem.reg_write /\ memwb'.rd = exmem.rd
    BY DEF ClockEdge, NextMemWb
  <1>5. /\ Issued.rs1 = IF Fuse(3) THEN ifid.instr.rd ELSE ifid.instr.rs1
        /\ Issued.rs2 = ifid.instr.rs2 /\ Issued.rs2_data = RegRead(ifid.instr.rs2)
        /\ ~Fuse(3) => Issued.rs1_data = RegRead(ifid.instr.rs1)
        /\ Issued.ctl = IssuedControl
    BY DEF Issued
  <1>6. idex'.rs2_data = regs'[idex'.rs2]
    BY <1>0, <1>1, <1>2, <1>5, ReadSeesWrite
  <1>7. ExIdiom3' <=> Fuse(3)
    BY <1>1, <1>5, PairControl, IssuedPend2 DEF ExIdiom3
  <1>8. ~ExIdiom3' => idex'.rs1_data = regs'[idex'.rs1]
    BY <1>0, <1>1, <1>2, <1>5, <1>7, ReadSeesWrite
  <1>9. Fuse(3) => ~InFlight(ifid.instr.rd)
    BY DEF Fuse, HazardClear
  <1>10. ExIdiom3' => /\ ~(exmem'.reg_write /\ exmem'.rd = idex'.rs1)
                      /\ ~(memwb'.reg_write /\ memwb'.rd = idex'.rs1)
    BY <1>1, <1>3, <1>4, <1>5, <1>7, <1>9 DEF InFlight
  <1>11. exmem'.reg_write /\ exmem'.mem_read /\ exmem'.rd # 0 =>
           exmem'.rd # idex'.rs1 /\ exmem'.rd # idex'.rs2
    <2>1. ~LoadUse(idex.ctl.mem_read, idex.rd, ifid.instr.rs1, ifid.instr.rs2)
      BY DEF ClearEx, FlushEx, LoadUseHazard
    <2> QED BY <1>1, <1>3, <1>5, <1>9, <2>1 DEF LoadUse, InFlight
  <1>12. idex'.ctl.result_src = "mem" => idex'.ctl.mem_read
    BY <1>1, <1>5, PairControl
  <1>13. exmem'.result_src = "mem" => exmem'.mem_read
    BY <1>3 DEF RegsInv, OperandInv
  <1>14. ~exmem'.pend2.valid /\ ~memwb'.pend2.valid /\ ~pend2_fire'.valid
    BY PendingClears, StepAdvances DEF RegsInv
  <1> QED BY <1>6, <1>8, <1>10, <1>11, <1>12, <1>13, <1>14 DEF OperandInv

(* A bubble reads x0, and nothing moves behind a frozen EX.                *)
LEMMA HeldOperands ==
  ASSUME RegsInv, ClockEdge, ClearEx \/ MuldivActive
  PROVE  OperandInv'
  <1>0. TypeOK /\ ControlTypes /\ Pend2Inv
    BY DEF RegsInv, DataInv, Pend2Inv
  <1>1. 0 \in Reg
    BY RegAssumption
  <1>2. regs'[0] = 0
    BY <1>0, <1>1, ReadSeesWrite
  <1>3. exmem'.result_src = "mem" => exmem'.mem_read
    <2>1. CASE MuldivActive
      BY <2>1 DEF ClockEdge, NextExMem, RegsInv, OperandInv
    <2>2. CASE ~MuldivActive
      <3>1. exmem'.mem_read = idex.ctl.mem_read /\ exmem'.result_src = idex.ctl.result_src
        BY <2>2 DEF ClockEdge, NextExMem
      <3> QED BY <3>1 DEF RegsInv, OperandInv
    <2> QED BY <2>1, <2>2
  <1>4. CASE ClearEx
    <2>1. idex' = IdExBubble
      BY <1>4 DEF ClockEdge, NextIdEx
    <2>2. /\ idex'.rs1 = 0 /\ idex'.rs2 = 0 /\ idex'.rs1_data = 0 /\ idex'.rs2_data = 0
          /\ ~idex'.pend2.valid /\ idex'.ctl.result_src # "mem"
      BY <2>1 DEF IdExBubble, NoPend2, NoControl
    <2> QED BY <1>2, <1>3, <2>1, <2>2 DEF OperandInv, ExIdiom3
  <1>5. CASE ~ClearEx /\ MuldivActive
    <2>1. idex' = idex /\ exmem' = exmem /\ memwb' = memwb /\ pend2_fire' = pend2_fire
      BY <1>5 DEF ClockEdge, NextIdEx, NextExMem, NextMemWb, NextPend2Fire
    <2>2. regs' = regs
      BY <1>0, <1>5, FrozenRegs
    <2> QED BY <2>1, <2>2 DEF RegsInv, OperandInv, ExIdiom3
  <1> QED BY <1>4, <1>5

(* Every edge keeps all this.                                              *)
LEMMA StepRegs == RegsInv /\ [Next]_vars => RegsInv'
  <1> SUFFICES ASSUME RegsInv, [Next]_vars PROVE RegsInv'
    OBVIOUS
  <1>1. Pend2Inv' /\ DataInv'
    BY StepPend2Inv, StepData DEF RegsInv
  <1>2. CASE ClockEdge
    BY <1>1, <1>2, IssuedOperands, HeldOperands DEF RegsInv
  <1>3. CASE UNCHANGED vars
    <2>1. OperandInv'
      BY <1>3 DEF vars, RegsInv, OperandInv, ExIdiom3
    <2> QED BY <1>1, <2>1 DEF RegsInv
  <1> QED BY <1>2, <1>3 DEF Next

(* The register file, and what is left of it once WB has written, and MEM. *)
AfterWb ==
  IF pend2_fire.valid THEN PendWrite(regs, pend2_fire)
  ELSE RegWrite(regs, memwb.reg_write, memwb.rd, WbData)

AfterMem ==
  IF memwb.pend2.valid THEN PendWrite(AfterWb, memwb.pend2)
  ELSE RegWrite(AfterWb, exmem.reg_write, exmem.rd, MemResult)

(* A result in MEM is a word.                                              *)
LEMMA MemResultType ==
  ASSUME TypeOK
  PROVE  MemResult \in Word
  <1>1. dmem[MemIndex(exmem.alu_result)] \in Word /\ MemLane(exmem.alu_result) \in Lane
    BY ExMemTypes, MemIndexType DEF TypeOK
  <1>2. LoadLanes(dmem[MemIndex(exmem.alu_result)], exmem.mem_width, exmem.mem_unsigned,
                  MemLane(exmem.alu_result)) \in Word
    BY <1>1, ExMemTypes, LoadLanesType
  <1> QED BY <1>2, ForwardedTypes DEF MemResult

(* The registers a program sees, and what they were on the way.            *)
LEMMA DrainedRegs ==
  ASSUME TypeOK, ControlTypes
  PROVE  /\ AbsRegs = PendWrite(AfterMem, exmem.pend2)
         /\ AfterWb \in [Reg -> Word] /\ AfterWb[0] = 0
         /\ AfterMem \in [Reg -> Word] /\ AfterMem[0] = 0
         /\ AbsRegs \in [Reg -> Word] /\ AbsRegs[0] = 0
  <1>1. AbsRegs = PendWrite(AfterMem, exmem.pend2)
    BY DEF AbsRegs, AfterMem, AfterWb
  <1>2. regs \in [Reg -> Word] /\ regs[0] = 0
    BY DEF TypeOK
  <1>3. WbData \in Word /\ MemResult \in Word
    BY ForwardedTypes, MemResultType
  <1>4. /\ memwb.reg_write \in BOOLEAN /\ memwb.rd \in Reg
        /\ exmem.reg_write \in BOOLEAN /\ exmem.rd \in Reg
    BY ExMemTypes, MemWbTypes DEF ControlTypes
  <1>5. \A p \in Pend2 : \A r \in [Reg -> Word] :
          r[0] = 0 => PendWrite(r, p) \in [Reg -> Word] /\ PendWrite(r, p)[0] = 0
    BY RegWriteAt DEF Pend2, PendWrite
  <1>6. pend2_fire \in Pend2 /\ memwb.pend2 \in Pend2 /\ exmem.pend2 \in Pend2
    BY ExMemTypes, MemWbTypes DEF TypeOK
  <1>7. AfterWb \in [Reg -> Word] /\ AfterWb[0] = 0
    <2>1. /\ RegWrite(regs, memwb.reg_write, memwb.rd, WbData) \in [Reg -> Word]
          /\ RegWrite(regs, memwb.reg_write, memwb.rd, WbData)[0] = 0
      BY <1>2, <1>3, <1>4 DEF RegWrite
    <2> QED BY <1>2, <1>5, <1>6, <2>1 DEF AfterWb
  <1>8. AfterMem \in [Reg -> Word] /\ AfterMem[0] = 0
    <2>1. /\ RegWrite(AfterWb, exmem.reg_write, exmem.rd, MemResult) \in [Reg -> Word]
          /\ RegWrite(AfterWb, exmem.reg_write, exmem.rd, MemResult)[0] = 0
      BY <1>3, <1>4, <1>7 DEF RegWrite
    <2> QED BY <1>5, <1>6, <1>7, <2>1 DEF AfterMem
  <1> QED BY <1>1, <1>5, <1>6, <1>7, <1>8

(* With the operands from the register file, forwarding makes up for what  *)
(* MEM and WB have not written.                                            *)
LEMMA OperandsAreCurrent == RegsInv => ForwardingIsCurrent
  <1> SUFFICES ASSUME RegsInv PROVE ForwardingIsCurrent
    OBVIOUS
  <1>0. TypeOK /\ ControlTypes /\ OperandInv
    BY DEF RegsInv, DataInv, Pend2Inv
  <1>1. CASE exmem.pend2.valid \/ memwb.pend2.valid \/ pend2_fire.valid
    <2>1. /\ idex.rs1 = 0 /\ idex.rs2 = 0 /\ idex.rs1_data = 0 /\ idex.rs2_data = 0
      BY <1>0, <1>1 DEF OperandInv, IdExBubble
    <2>2. FwdA = 0 /\ FwdB = 0
      BY <2>1 DEF FwdA, FwdB, Forwarded, ForwardSelect
    <2> QED BY <1>0, <2>1, <2>2, DrainedRegs DEF ForwardingIsCurrent
  <1>2. CASE ~(exmem.pend2.valid \/ memwb.pend2.valid \/ pend2_fire.valid)
    <2>1. /\ AbsRegs = AfterMem
          /\ AfterMem = RegWrite(AfterWb, exmem.reg_write, exmem.rd, MemResult)
          /\ AfterWb = RegWrite(regs, memwb.reg_write, memwb.rd, WbData)
      BY <1>0, <1>2, DrainedRegs DEF AfterMem, AfterWb, PendWrite, RegWrite
    <2>2. /\ memwb.reg_write \in BOOLEAN /\ memwb.rd \in Reg /\ WbData \in Word
          /\ exmem.reg_write \in BOOLEAN /\ exmem.rd \in Reg /\ MemResult \in Word
          /\ regs \in [Reg -> Word] /\ regs[0] = 0
      BY <1>0, ExMemTypes, MemWbTypes, ForwardedTypes, MemResultType DEF ControlTypes, TypeOK
    <2>3. \A q \in Reg :
            AbsRegs[q] = IF exmem.reg_write /\ exmem.rd # 0 /\ exmem.rd = q THEN MemResult
                         ELSE IF memwb.reg_write /\ memwb.rd # 0 /\ memwb.rd = q THEN WbData
                         ELSE regs[q]
      <3>1. AfterWb \in [Reg -> Word] /\ AfterWb[0] = 0
        BY <1>0, DrainedRegs
      <3>2. \A q \in Reg :
              AfterWb[q] = IF memwb.reg_write /\ memwb.rd # 0 /\ memwb.rd = q THEN WbData ELSE regs[q]
        <4>1. \A q \in Reg : RegWrite(regs, memwb.reg_write, memwb.rd, WbData)[q] =
                IF memwb.reg_write /\ memwb.rd # 0 /\ memwb.rd = q THEN WbData ELSE regs[q]
          BY <2>2 DEF RegWrite
        <4> QED BY <2>1, <4>1
      <3>3. \A q \in Reg :
              AbsRegs[q] = IF exmem.reg_write /\ exmem.rd # 0 /\ exmem.rd = q THEN MemResult
                           ELSE AfterWb[q]
        <4>1. \A q \in Reg : RegWrite(AfterWb, exmem.reg_write, exmem.rd, MemResult)[q] =
                IF exmem.reg_write /\ exmem.rd # 0 /\ exmem.rd = q THEN MemResult ELSE AfterWb[q]
          BY <2>2, <3>1 DEF RegWrite
        <4> QED BY <2>1, <4>1
      <3> QED BY <3>2, <3>3
    <2>4. idex.rs1 \in Reg /\ idex.rs2 \in Reg
      BY <1>0, IdExTypes
    <2>5. exmem.result_src # "mem" => MemResult = MemForwardValue
      BY DEF MemResult
    <2>6. \A q \in {idex.rs1, idex.rs2} :
            exmem.reg_write /\ exmem.rd # 0 /\ exmem.rd = q => exmem.result_src # "mem"
      BY <1>0 DEF OperandInv
    <2>7. \A q \in {idex.rs1, idex.rs2} : Forwarded(q, regs[q]) = AbsRegs[q]
      BY <2>3, <2>4, <2>5, <2>6 DEF Forwarded, ForwardSelect
    <2>8. FwdB = AbsRegs[idex.rs2]
      BY <1>0, <2>7 DEF OperandInv, FwdB
    <2>9. ~ExIdiom3 => FwdA = AbsRegs[idex.rs1]
      BY <1>0, <2>7 DEF OperandInv, FwdA
    <2> QED BY <2>8, <2>9 DEF ForwardingIsCurrent
  <1> QED BY <1>1, <1>2

(* An operand in EX, wherever it comes from, is the value the register     *)
(* holds once every older instruction has written it: a load-use stall     *)
(* keeps a load out of MEM when its value is needed, a frozen EX keeps     *)
(* MEM and WB beside it, and a second write still pending lets nothing     *)
(* past it (core_top_pipelined.sv:345-372, hazard_unit.sv:40-82).          *)
THEOREM ForwardingAlwaysCurrent == Spec => []ForwardingIsCurrent
  BY InitRegs, StepRegs, OperandsAreCurrent, PTL DEF Spec

-----------------------------------------------------------------------------
(* A clock edge, as the program sees it: what is behind EX drains without  *)
(* being seen, and what EX hands on takes effect.                          *)

(* The write port does what WB has to do.                                  *)
LEMMA PortDrainsWb ==
  ASSUME ClockEdge, ~MuldivActive
  PROVE  regs' = AfterWb
  BY DEF ClockEdge, NextRegs, PortWrite, AfterWb, PendWrite, RegWrite

(* A result reaches WB as it is in MEM, through the registered read of the *)
(* data memory if it is a load's.                                          *)
LEMMA ResultMovesOn ==
  ASSUME ClockEdge, ~MuldivActive, TypeOK
  PROVE  WbData' = MemResult
  <1>1. /\ memwb'.alu_result = exmem.alu_result /\ memwb'.muldiv_result = exmem.muldiv_result
        /\ memwb'.pc4 = exmem.pc4 /\ memwb'.imm = exmem.imm
        /\ memwb'.mem_width = exmem.mem_width /\ memwb'.mem_unsigned = exmem.mem_unsigned
        /\ memwb'.result_src = exmem.result_src /\ memwb'.is_muldiv = exmem.is_muldiv
    BY DEF ClockEdge, NextMemWb
  <1>2. /\ mem_rdata'.raw = dmem[MemIndex(exmem.alu_result)]
        /\ mem_rdata'.byte_sel = MemLane(exmem.alu_result)
    BY DEF ClockEdge, NextMemRdata, MemRead
  <1>3. exmem.result_src \in {"alu", "mem", "pc4", "imm"}
    BY ExMemTypes
  <1>4. WbData' = CASE memwb'.result_src = "alu" -> IF memwb'.is_muldiv THEN memwb'.muldiv_result
                                                    ELSE memwb'.alu_result
                    [] memwb'.result_src = "mem" -> LoadLanes(mem_rdata'.raw, memwb'.mem_width,
                                                      memwb'.mem_unsigned, mem_rdata'.byte_sel)
                    [] memwb'.result_src = "pc4" -> memwb'.pc4
                    [] OTHER -> memwb'.imm
    BY DEF WbData
  <1> QED BY <1>1, <1>2, <1>3, <1>4 DEF MemResult, MemForwardValue

(* The registers change by what leaves EX, its first write and then its    *)
(* second.                                                                 *)
LEMMA RegsDrain ==
  ASSUME RegsInv, ClockEdge, ~MuldivActive
  PROVE  AbsRegs' = PendWrite(RegWrite(AbsRegs, idex.ctl.reg_write, idex.rd, MemResult'),
                              idex.pend2)
  <1>0. TypeOK /\ ControlTypes /\ TypeOK' /\ ControlTypes' /\ OperandInv
    BY StepPend2Inv, StepData DEF RegsInv, Pend2Inv, DataInv, Next
  <1>1. /\ exmem'.reg_write = idex.ctl.reg_write /\ exmem'.pend2 = idex.pend2
        /\ memwb'.reg_write = exmem.reg_write /\ memwb'.pend2 = exmem.pend2
        /\ pend2_fire' = memwb.pend2
    BY StepAdvances
  <1>2. exmem'.rd = idex.rd /\ memwb'.rd = exmem.rd
    BY DEF ClockEdge, NextExMem, NextMemWb
  <1>3. AfterWb' = AfterMem
    <2>1. AfterWb' = IF pend2_fire'.valid THEN PendWrite(regs', pend2_fire')
                     ELSE RegWrite(regs', memwb'.reg_write, memwb'.rd, WbData')
      BY DEF AfterWb
    <2> QED BY <1>0, <1>1, <1>2, <2>1, PortDrainsWb, ResultMovesOn DEF AfterMem
  <1>4. AfterMem' = IF exmem.pend2.valid THEN PendWrite(AfterMem, exmem.pend2)
                    ELSE RegWrite(AfterMem, idex.ctl.reg_write, idex.rd, MemResult')
    <2>1. AfterMem' = IF memwb'.pend2.valid THEN PendWrite(AfterWb', memwb'.pend2)
                      ELSE RegWrite(AfterWb', exmem'.reg_write, exmem'.rd, MemResult')
      BY DEF AfterMem
    <2> QED BY <1>1, <1>2, <1>3, <2>1
  <1>5. AbsRegs = PendWrite(AfterMem, exmem.pend2)
    BY <1>0, DrainedRegs
  <1>6. AbsRegs' = PendWrite(AfterMem', exmem'.pend2)
    BY DEF AbsRegs, AfterMem, AfterWb
  <1>7. AfterMem' = RegWrite(AbsRegs, idex.ctl.reg_write, idex.rd, MemResult')
    <2>1. CASE exmem.pend2.valid
      <3>1. ~idex.ctl.reg_write
        BY <1>0, <2>1 DEF OperandInv, IdExBubble, NoControl
      <3> QED BY <1>4, <1>5, <2>1, <3>1 DEF RegWrite
    <2>2. CASE ~exmem.pend2.valid
      <3>1. AbsRegs = AfterMem
        BY <1>5, <2>2 DEF PendWrite, RegWrite
      <3> QED BY <1>4, <2>2, <3>1
    <2> QED BY <2>1, <2>2
  <1> QED BY <1>1, <1>6, <1>7

(* A store that is in MEM has been done already.                           *)
LEMMA MemoryDrains ==
  ASSUME ClockEdge, ~MuldivActive
  PROVE  AbsMem = BytesOf(dmem') /\ AbsUart = uart'
  <1>1. dmem' = IF exmem.mem_write /\ exmem.alu_result # UartAddr THEN StoreInMem ELSE dmem
    BY DEF ClockEdge, NextDmem, StoreLeavesMem
  <1>2. uart' = IF exmem.mem_write /\ exmem.alu_result = UartAddr
                THEN UartSend(uart, exmem.rs2_data) ELSE uart
    BY DEF ClockEdge, NextUart, StoreLeavesMem
  <1> QED BY <1>1, <1>2 DEF AbsMem, AbsUart

(* What a store in EX is going to do.                                      *)
LEMMA StoreTakesEffect ==
  ASSUME ClockEdge, ~MuldivActive
  PROVE  /\ AbsMem' = BytesOf(
              IF idex.ctl.mem_write /\ exmem'.alu_result # UartAddr
              THEN [dmem' EXCEPT ![MemIndex(exmem'.alu_result)] =
                      StoreLanes(@, idex.ctl.mem_width, MemLane(exmem'.alu_result), FwdB)]
              ELSE dmem')
         /\ AbsUart' = IF idex.ctl.mem_write /\ exmem'.alu_result = UartAddr
                       THEN UartSend(AbsUart, FwdB) ELSE AbsUart
  <1>1. /\ exmem'.mem_write = idex.ctl.mem_write /\ exmem'.mem_width = idex.ctl.mem_width
        /\ exmem'.rs2_data = FwdB
    BY DEF ClockEdge, NextExMem
  <1>2. AbsMem' = BytesOf(IF exmem'.mem_write /\ exmem'.alu_result # UartAddr
                          THEN StoreInMem' ELSE dmem')
    BY DEF AbsMem, BytesOf
  <1>3. StoreInMem' = [dmem' EXCEPT ![MemIndex(exmem'.alu_result)] =
                         StoreLanes(@, exmem'.mem_width, MemLane(exmem'.alu_result), exmem'.rs2_data)]
    BY DEF StoreInMem
  <1>4. AbsUart' = IF exmem'.mem_write /\ exmem'.alu_result = UartAddr
                   THEN UartSend(uart', exmem'.rs2_data) ELSE uart'
    BY DEF AbsUart
  <1>5. uart' = AbsUart
    BY MemoryDrains
  <1> QED BY <1>1, <1>2, <1>3, <1>4, <1>5

(* A frozen edge changes nothing a program sees.                           *)
LEMMA FrozenDrain ==
  ASSUME RegsInv, ClockEdge, MuldivActive
  PROVE  AbsRegs' = AbsRegs /\ AbsMem' = AbsMem /\ AbsUart' = AbsUart
  <1>1. /\ exmem' = exmem /\ memwb' = memwb /\ pend2_fire' = pend2_fire
        /\ mem_rdata' = mem_rdata /\ dmem' = dmem /\ uart' = uart
    BY DEF ClockEdge, NextExMem, NextMemWb, NextPend2Fire, NextMemRdata, NextDmem, NextUart,
           StoreLeavesMem
  <1>2. regs' = regs
    BY FrozenRegs DEF RegsInv
  <1>3. WbData' = WbData
    BY <1>1 DEF WbData
  <1>4. MemResult' = MemResult
    BY <1>1 DEF MemResult, MemForwardValue
  <1>5. AbsRegs' = AbsRegs
    BY <1>1, <1>2, <1>3, <1>4 DEF AbsRegs
  <1>6. AbsMem' = AbsMem
    BY <1>1 DEF AbsMem, StoreInMem
  <1> QED BY <1>1, <1>5, <1>6 DEF AbsUart

-----------------------------------------------------------------------------
(* The trap CSRs.                                                          *)

(* A write in WB, and one in MEM, have been done already.                  *)
CsrAfterWb == IF memwb.is_csr THEN CsrWrite(csr, memwb.csr_addr, memwb.muldiv_result) ELSE csr

CsrAfterMem ==
  IF exmem.is_csr THEN CsrWrite(CsrAfterWb, exmem.csr_addr, exmem.muldiv_result) ELSE CsrAfterWb

(* One by one.                                                             *)
CsrDrained ==
  \A a \in TrapCsr :
    /\ CsrAfterWb[a] = IF memwb.is_csr /\ memwb.csr_addr = a THEN memwb.muldiv_result ELSE csr[a]
    /\ AbsCsr[a] = IF exmem.is_csr /\ exmem.csr_addr = a THEN exmem.muldiv_result
                   ELSE CsrAfterWb[a]

(* The values a program sees in them.                                      *)
LEMMA DrainedCsr == DataInv => CsrDrained
  <1> SUFFICES ASSUME DataInv PROVE CsrDrained
    OBVIOUS
  <1>1. AbsCsr = [a \in TrapCsr |-> CsrAfterMem[a]]
    BY DEF AbsCsr, CsrAfterMem, CsrAfterWb
  <1>2. TrapCsr \subseteq DOMAIN csr
    BY DEF DataInv, TypeOK
  <1>3. TrapCsr \subseteq DOMAIN CsrAfterWb
    BY <1>2 DEF CsrAfterWb, CsrWrite
  <1>4. \A a \in TrapCsr :
          CsrAfterWb[a] = IF memwb.is_csr /\ memwb.csr_addr = a THEN memwb.muldiv_result ELSE csr[a]
    BY <1>2 DEF CsrAfterWb, CsrWrite
  <1>5. \A a \in TrapCsr :
          CsrAfterMem[a] = IF exmem.is_csr /\ exmem.csr_addr = a THEN exmem.muldiv_result
                           ELSE CsrAfterWb[a]
    BY <1>3 DEF CsrAfterMem, CsrWrite
  <1> QED BY <1>1, <1>4, <1>5 DEF CsrDrained

(* And after an edge.                                                      *)
LEMMA DrainedCsrNext == DataInv' => CsrDrained'
  BY DrainedCsr, PTL

(* A CSR read in EX finds the value of the youngest older write.           *)
LEMMA CsrReadIsCurrent ==
  ASSUME DataInv, idex.instr.csr \in TrapCsr
  PROVE  CsrReadEx = AbsCsr[idex.instr.csr]
  <1>1. csr[idex.instr.csr] % WordMod = csr[idex.instr.csr]
    <2>1. csr[idex.instr.csr] \in Word
      BY DEF DataInv
    <2> QED BY <2>1, WordHalves DEF Word
  <1>2. CsrRead(csr, idex.instr.csr) = csr[idex.instr.csr]
    BY <1>1 DEF CsrRead, TrapCsr
  <1> QED BY <1>2, DrainedCsr DEF CsrReadEx, CsrDrained

(* The counters count beside the trap CSRs.                                *)
LEMMA CountersApart ==
  ASSUME NEW c, TrapCsr \cup CounterCsr \subseteq DOMAIN c, NEW m, NEW i, NEW f
  PROVE  \A a \in TrapCsr : CsrCount(c, m, i, f)[a] = c[a]
  BY DEF CsrCount, TrapCsr, CounterCsr

(* What the trap CSRs hold after an edge without a trap, and with one.     *)
LEMMA CsrDrain ==
  ASSUME DataInv, ClockEdge, ~MuldivActive
  PROVE  /\ ~TrapTaken =>
              AbsCsr' = IF idex.ctl.is_csr
                        THEN CsrWrite(AbsCsr, idex.instr.csr,
                                      CsrWriteValue(idex.instr.f3, CsrReadEx, FwdA))
                        ELSE AbsCsr
         /\ TrapTaken /\ ~idex.ctl.is_csr /\ ~exmem.is_csr /\ ~memwb.is_csr =>
              AbsCsr' = CsrTrap(AbsCsr, idex.pc, idex.instr)
  <1>0. DataInv'
    BY StepData DEF Next
  <1>1. /\ exmem'.is_csr = idex.ctl.is_csr /\ exmem'.csr_addr = idex.instr.csr
        /\ idex.ctl.is_csr =>
             exmem'.muldiv_result = CsrWriteValue(idex.instr.f3, CsrReadEx, FwdA)
    BY DEF ClockEdge, NextExMem
  <1>2. /\ memwb'.is_csr = exmem.is_csr /\ memwb'.csr_addr = exmem.csr_addr
        /\ memwb'.muldiv_result = exmem.muldiv_result
    BY DEF ClockEdge, NextMemWb
  <1> DEFINE written == CsrPort(csr, TrapTaken, idex.pc, idex.instr,
                                memwb.is_csr /\ ~MuldivActive, memwb.csr_addr, memwb.muldiv_result)
  <1>3. csr' = CsrCount(written, MuldivStart, IsolActive, FusionActive)
    BY DEF ClockEdge, NextCsr
  <1>4. TrapCsr \cup CounterCsr \subseteq DOMAIN csr
    BY DEF DataInv, TypeOK
  <1>5. TrapCsr \cup CounterCsr \subseteq DOMAIN written
    BY <1>4 DEF CsrPort, CsrTrap, CsrWrite
  <1> HIDE DEF written
  <1>6. \A a \in TrapCsr : csr'[a] = written[a]
    BY <1>3, <1>5, CountersApart
  <1>7. \A a \in TrapCsr :
          AbsCsr'[a] = IF idex.ctl.is_csr /\ idex.instr.csr = a THEN exmem'.muldiv_result
                       ELSE IF exmem.is_csr /\ exmem.csr_addr = a THEN exmem.muldiv_result
                       ELSE written[a]
    <2>1. \A a \in TrapCsr :
            /\ CsrAfterWb'[a] = IF memwb'.is_csr /\ memwb'.csr_addr = a THEN memwb'.muldiv_result
                                ELSE csr'[a]
            /\ AbsCsr'[a] = IF exmem'.is_csr /\ exmem'.csr_addr = a THEN exmem'.muldiv_result
                            ELSE CsrAfterWb'[a]
      BY <1>0, DrainedCsrNext DEF CsrDrained
    <2> QED BY <1>1, <1>2, <1>6, <2>1
  <1>8. AbsCsr = [a \in TrapCsr |-> AbsCsr[a]] /\ AbsCsr' = [a \in TrapCsr |-> AbsCsr'[a]]
    BY DEF AbsCsr
  <1>9. CASE ~TrapTaken
    <2>1. written = CsrAfterWb
      BY <1>9 DEF written, CsrPort, CsrAfterWb
    <2>2. \A a \in TrapCsr :
            AbsCsr'[a] = IF idex.ctl.is_csr /\ idex.instr.csr = a THEN exmem'.muldiv_result
                         ELSE AbsCsr[a]
      BY <1>7, <2>1, DrainedCsr DEF CsrDrained
    <2>3. CASE idex.ctl.is_csr
      <3>1. CsrWrite(AbsCsr, idex.instr.csr, exmem'.muldiv_result) =
              [a \in TrapCsr |-> IF idex.instr.csr = a THEN exmem'.muldiv_result ELSE AbsCsr[a]]
        BY <1>8 DEF CsrWrite
      <3> QED BY <1>1, <1>8, <1>9, <2>2, <2>3, <3>1
    <2>4. CASE ~idex.ctl.is_csr
      BY <1>8, <1>9, <2>2, <2>4
    <2> QED BY <2>3, <2>4
  <1>10. CASE TrapTaken /\ ~idex.ctl.is_csr /\ ~exmem.is_csr /\ ~memwb.is_csr
    <2>1. written = CsrTrap(csr, idex.pc, idex.instr)
      BY <1>10 DEF written, CsrPort
    <2>2. \A a \in TrapCsr : AbsCsr'[a] = written[a] /\ AbsCsr[a] = csr[a]
      BY <1>7, <1>10, DrainedCsr DEF CsrDrained
    <2>3. \A a \in TrapCsr : CsrTrap(AbsCsr, idex.pc, idex.instr)[a] = AbsCsr'[a]
      BY <1>4, <1>8, <2>1, <2>2 DEF CsrTrap, TrapCsr
    <2>4. CsrTrap(AbsCsr, idex.pc, idex.instr) =
            [a \in TrapCsr |-> CsrTrap(AbsCsr, idex.pc, idex.instr)[a]]
      BY <1>8 DEF CsrTrap
    <2> QED BY <1>8, <1>10, <2>3, <2>4
  <1> QED BY <1>9, <1>10

(* A frozen edge leaves them alone.                                        *)
LEMMA FrozenCsr ==
  ASSUME DataInv, ClockEdge, MuldivActive, ~TrapTaken
  PROVE  AbsCsr' = AbsCsr
  <1>1. exmem' = exmem /\ memwb' = memwb
    BY DEF ClockEdge, NextExMem, NextMemWb
  <1>2. csr' = CsrCount(csr, MuldivStart, IsolActive, FusionActive)
    BY DEF ClockEdge, NextCsr, CsrPort
  <1>3. \A a \in TrapCsr : csr'[a] = csr[a]
    BY <1>2, CountersApart DEF DataInv, TypeOK
  <1>4. \A a \in TrapCsr : AbsCsr'[a] = AbsCsr[a]
    <2>1. DataInv'
      BY StepData DEF Next
    <2>2. \A a \in TrapCsr :
            /\ CsrAfterWb'[a] = IF memwb'.is_csr /\ memwb'.csr_addr = a THEN memwb'.muldiv_result
                                ELSE csr'[a]
            /\ AbsCsr'[a] = IF exmem'.is_csr /\ exmem'.csr_addr = a THEN exmem'.muldiv_result
                            ELSE CsrAfterWb'[a]
      BY <2>1, DrainedCsrNext DEF CsrDrained
    <2> QED BY <1>1, <1>3, <2>2, DrainedCsr DEF CsrDrained
  <1>5. AbsCsr = [a \in TrapCsr |-> AbsCsr[a]] /\ AbsCsr' = [a \in TrapCsr |-> AbsCsr'[a]]
    BY DEF AbsCsr
  <1> QED BY <1>4, <1>5

-----------------------------------------------------------------------------
(* Byte lanes and bytes: the word memory with its lanes is the byte memory *)
(* of the single-cycle core, for accesses that stay inside a word.         *)

(* The low digit of a number and the rest.                                 *)
LEMMA LowDigit ==
  ASSUME NEW b \in Nat, b > 0, NEW q \in Nat, NEW r \in 0 .. b-1
  PROVE  (r + b * q) % b = r /\ (r + b * q) \div b = q
  <1>1. b * q \in Int /\ r + b * q = b * q + r /\ r + b * q \in Int
    OBVIOUS
  <1> QED BY <1>1, DivModUnique

(* A word is made of four bytes.                                           *)
LEMMA FourBytes ==
  ASSUME NEW x \in Word
  PROVE  \E b0, b1, b2, b3 \in 0 .. ByteMod-1 :
           x = b0 + b1 * ByteMod + b2 * (ByteMod * ByteMod) + b3 * (ByteMod * (ByteMod * ByteMod))
  <1>1. PICK b \in Nat : b = ByteMod /\ b > 1
    BY LaneWeights
  <1>2. x \in Nat /\ x < (b * b) * (b * b)
    BY <1>1, LaneWeights, WordHalves DEF Word
  <1>3. PICK q1 \in Int, b0 \in 0 .. b-1 : x = b * q1 + b0
    <2>1. x \div b \in Int /\ x % b \in 0 .. b-1 /\ x = b * (x \div b) + (x % b)
      BY <1>1, <1>2, DivMod
    <2> QED BY <2>1
  <1>4. PICK q2 \in Int, b1 \in 0 .. b-1 : q1 = b * q2 + b1
    <2>1. q1 \div b \in Int /\ q1 % b \in 0 .. b-1 /\ q1 = b * (q1 \div b) + (q1 % b)
      BY <1>1, DivMod
    <2> QED BY <2>1
  <1>5. PICK b3 \in Int, b2 \in 0 .. b-1 : q2 = b * b3 + b2
    <2>1. q2 \div b \in Int /\ q2 % b \in 0 .. b-1 /\ q2 = b * (q2 \div b) + (q2 % b)
      BY <1>1, DivMod
    <2> QED BY <2>1
  <1>6. PICK c \in Nat : c = b * b /\ c > 0
    BY <1>1, TimesPositive
  <1>7. x = c * q2 + (b0 + b1 * b)
    <2>1. b * (b * q2 + b1) = c * q2 + b1 * b
      BY <1>1, <1>6
    <2> QED BY <1>3, <1>4, <2>1
  <1>8. b0 + b1 * b \in 0 .. c-1
    <2>1. b0 + b1 * b \in 0 .. b * b - 1
      BY <1>1, TwoDigits
    <2> QED BY <1>6, <2>1
  <1>9. q2 >= 0
    <2> SUFFICES ASSUME q2 <= -1 PROVE FALSE
      OBVIOUS
    <2>1. c * q2 <= -c
      BY <1>6
    <2> QED BY <1>2, <1>6, <1>7, <1>8, <2>1
  <1>10. q2 < c
    <2> SUFFICES ASSUME q2 >= c PROVE FALSE
      BY <1>6
    <2>1. c * q2 >= c * c
      BY <1>6
    <2> QED BY <1>2, <1>6, <1>7, <1>8, <2>1
  <1>11. b3 >= 0
    <2> SUFFICES ASSUME b3 <= -1 PROVE FALSE
      OBVIOUS
    <2>1. b * b3 <= -b
      BY <1>1
    <2> QED BY <1>1, <1>5, <1>9, <2>1
  <1>12. b3 < b
    <2> SUFFICES ASSUME b3 >= b PROVE FALSE
      BY <1>1
    <2>1. b * b3 >= b * b
      BY <1>1
    <2> QED BY <1>1, <1>5, <1>6, <1>10, <2>1
  <1>13. x = b0 + b1 * b + b2 * (b * b) + b3 * (b * (b * b))
    <2>1. c * (b * b3 + b2) = b2 * (b * b) + b3 * (b * (b * b))
      BY <1>1, <1>6
    <2> QED BY <1>5, <1>7, <2>1
  <1>14. b3 \in 0 .. b-1
    BY <1>11, <1>12
  <1> QED BY <1>1, <1>13, <1>14

(* What the lanes of a word are.                                           *)
LEMMA Lanes ==
  ASSUME NEW b0 \in 0 .. ByteMod-1, NEW b1 \in 0 .. ByteMod-1,
         NEW b2 \in 0 .. ByteMod-1, NEW b3 \in 0 .. ByteMod-1, NEW x,
         x = b0 + b1 * ByteMod + b2 * (ByteMod * ByteMod) + b3 * (ByteMod * (ByteMod * ByteMod))
  PROVE  /\ x \in Word
         /\ ByteOf(x, 0) = b0 /\ ByteOf(x, 1) = b1 /\ ByteOf(x, 2) = b2 /\ ByteOf(x, 3) = b3
         /\ x % ByteMod = b0 /\ x % HalfwordMod = b0 + b1 * ByteMod
         /\ (x \div LaneMod(0)) % HalfwordMod = b0 + b1 * ByteMod
         /\ (x \div LaneMod(2)) % HalfwordMod = b2 + b3 * ByteMod
  <1>1. PICK b \in Nat : b = ByteMod /\ b > 1
    BY LaneWeights
  <1>2. /\ b0 \in 0 .. b-1 /\ b1 \in 0 .. b-1 /\ b2 \in 0 .. b-1 /\ b3 \in 0 .. b-1
        /\ x = b0 + b1 * b + b2 * (b * b) + b3 * (b * (b * b)) /\ b > 1
    BY <1>1
  <1>3. /\ x \in 0 .. (b * b) * (b * b) - 1
        /\ x % b = b0 /\ x % (b * b) = b0 + b1 * b
        /\ (x \div b) % b = b1
        /\ (x \div (b * b)) % b = b2 /\ (x \div (b * b)) % (b * b) = b2 + b3 * b
        /\ (x \div (b * (b * b))) % b = b3
    <2>1. PICK c \in Nat : c = b * b /\ c > 0
      BY <1>2, TimesPositive
    <2>2. PICK d \in Nat : d = b * c /\ d > 0
      BY <1>2, <2>1, TimesPositive
    <2>3. PICK lo \in 0 .. c-1 : lo = b0 + b1 * b
      <3>1. b0 + b1 * b \in 0 .. b * b - 1
        BY <1>2, TwoDigits
      <3> QED BY <1>2, <2>1, <3>1
    <2>4. PICK hi \in 0 .. c-1 : hi = b2 + b3 * b
      <3>1. b2 + b3 * b \in 0 .. b * b - 1
        BY <1>2, TwoDigits
      <3> QED BY <1>2, <2>1, <3>1
    <2>5. PICK mid \in 0 .. c-1 : mid = b1 + b2 * b
      <3>1. b1 + b2 * b \in 0 .. b * b - 1
        BY <1>2, TwoDigits
      <3> QED BY <1>2, <2>1, <3>1
    <2>6. x = lo + c * hi
      <3>1. c * (b2 + b3 * b) = b2 * c + b3 * (b * c)
        BY <1>2, <2>1
      <3> QED BY <1>2, <2>1, <2>3, <2>4, <3>1
    <2>7. x \in 0 .. c * c - 1
      <3>1. lo + hi * c \in 0 .. c * c - 1
        BY <1>2, <2>1, TwoDigits
      <3>2. hi * c = c * hi
        BY <1>2, <2>1
      <3> QED BY <2>6, <3>1, <3>2
    <2>8. x % c = lo /\ x \div c = hi
      <3>1. hi \in Nat
        OBVIOUS
      <3> QED BY <2>1, <2>6, <3>1, LowDigit
    <2>9. hi % b = b2 /\ b3 * b = b * b3 /\ b1 * b = b * b1
      <3>1. b3 * b = b * b3 /\ b1 * b = b * b1
        BY <1>2
      <3> QED BY <1>2, <2>4, <3>1, LowDigit
    <2>10. hi % c = hi
      BY <1>2, <2>1
    <2>11. x = b0 + b * (b1 + b * hi)
      <3>1. b * (b1 + b * hi) = b * b1 + (b * b) * hi
        BY <1>2, <2>1
      <3> QED BY <1>2, <2>1, <2>3, <2>6, <2>9, <3>1
    <2>12. b1 + b * hi \in Nat
      BY <1>2, <2>4
    <2>13. x % b = b0 /\ x \div b = b1 + b * hi
      BY <1>2, <2>11, <2>12, LowDigit
    <2>14. (b1 + b * hi) % b = b1
      BY <1>2, <2>4, LowDigit
    <2>15. PICK low \in 0 .. d-1 : low = b0 + mid * b
      <3>1. b0 + mid * b \in 0 .. b * c - 1
        BY <1>2, <2>1, TwoDigits
      <3> QED BY <1>2, <2>2, <3>1
    <2>16. x = low + d * b3
      <3>1. mid * b = b1 * b + b2 * (b * b)
        BY <1>2, <2>5
      <3>2. d * b3 = b3 * (b * (b * b))
        BY <1>2, <2>1, <2>2
      <3> QED BY <1>2, <2>15, <3>1, <3>2
    <2>17. x \div d = b3
      BY <1>2, <2>2, <2>16, LowDigit
    <2>18. b3 % b = b3
      BY <1>2
    <2> QED BY <1>2, <2>1, <2>2, <2>3, <2>4, <2>7, <2>8, <2>9, <2>10, <2>13, <2>14, <2>17, <2>18
  <1>4. x \in Word
    BY <1>1, <1>3, LaneWeights DEF Word
  <1>5. x \div 1 = x
    BY <1>4, SmallWords
  <1> QED BY <1>1, <1>3, <1>4, <1>5, LaneWeights DEF ByteOf, HalfwordMod

-----------------------------------------------------------------------------
(* Where the bytes of a word are.                                          *)

(* The bytes of the memory are bytes.                                      *)
LEMMA BytesType ==
  ASSUME NEW mem \in [0 .. NW-1 -> Word]
  PROVE  /\ DOMAIN BytesOf(mem) = 0 .. 4*NW - 1
         /\ Cardinality(DOMAIN BytesOf(mem)) = 4*NW
         /\ \A j \in 0 .. 4*NW - 1 : j \div 4 \in 0 .. NW-1 /\ j % 4 \in Lane
                                   /\ BytesOf(mem)[j] = ByteOf(mem[j \div 4], j % 4)
                                   /\ BytesOf(mem)[j] \in 0 .. ByteMod-1
  <1>1. NW \in Nat /\ NW > 0
    BY MachineAssumption
  <1>2. DOMAIN BytesOf(mem) = 0 .. 4*NW - 1
    BY DEF BytesOf
  <1>3. Cardinality(0 .. 4*NW - 1) = 4*NW
    <2>1. 0 \in Int /\ 4*NW - 1 \in Int /\ ~(0 > 4*NW - 1)
      BY <1>1
    <2>2. Cardinality(0 .. 4*NW - 1) = (4*NW - 1) - 0 + 1
      BY <2>1, FS_Interval
    <2> QED BY <1>1, <2>2
  <1>4. ASSUME NEW j \in 0 .. 4*NW - 1
        PROVE  j \div 4 \in 0 .. NW-1 /\ j % 4 \in Lane
               /\ BytesOf(mem)[j] = ByteOf(mem[j \div 4], j % 4)
               /\ BytesOf(mem)[j] \in 0 .. ByteMod-1
    <2>1. j \div 4 \in 0 .. NW-1 /\ j % 4 \in Lane
      BY <1>1 DEF Lane
    <2>2. BytesOf(mem)[j] = ByteOf(mem[j \div 4], j % 4)
      BY DEF BytesOf
    <2>3. mem[j \div 4] \in Nat
      BY <2>1, SmallWords
    <2> QED BY <2>1, <2>2, <2>3, ByteOfType
  <1> QED BY <1>2, <1>3, <1>4

(* The k-th byte from an offset on, as long as it is in the same word.     *)
LEMMA ByteInWord ==
  ASSUME NEW off \in Nat, NEW k \in 0 .. 3, (off % 4) + k <= 3
  PROVE  /\ (off + k) % (4*NW) \in 0 .. 4*NW - 1
         /\ ((off + k) % (4*NW)) \div 4 = (off \div 4) % NW
         /\ ((off + k) % (4*NW)) % 4 = (off % 4) + k
  <1>1. NW \in Nat /\ NW > 0
    BY MachineAssumption
  <1>2. PICK q \in Nat, l \in 0 .. 3 : q = off \div 4 /\ l = off % 4 /\ off = 4*q + l
    OBVIOUS
  <1>3. PICK t \in Int, u \in 0 .. NW-1 : u = q % NW /\ q = NW * t + u
    <2>1. q \div NW \in Int /\ q % NW \in 0 .. NW-1 /\ q = NW * (q \div NW) + (q % NW)
      BY <1>1, DivMod
    <2> QED BY <2>1
  <1>4. PICK v \in 0 .. 4*NW - 1 : v = 4*u + (l + k)
    BY <1>1, <1>2
  <1>5. PICK m \in Nat : m = 4*NW /\ m > 0
    BY <1>1
  <1>6. (off + k) % m = v
    <2>1. PICK w \in Int : w = NW * t
      BY <1>1
    <2>2. m * t = 4 * w
      BY <1>1, <1>5, <2>1
    <2>3. q = w + u
      BY <1>3, <2>1
    <2>4. PICK a \in Int : a = off + k
      OBVIOUS
    <2>5. a = m * t + v
      BY <1>2, <1>4, <2>2, <2>3, <2>4
    <2>6. v \in 0 .. m-1 /\ m > 0
      BY <1>5
    <2>7. a % m = v
      BY <2>5, <2>6, DivModUnique
    <2> QED BY <2>4, <2>7
  <1>7. v \div 4 = u /\ v % 4 = l + k
    BY <1>2, <1>4
  <1> QED BY <1>2, <1>3, <1>5, <1>6, <1>7

(* A load that stays in its word brings what the bytes of memory are.      *)
LEMMA LoadsAgree ==
  ASSUME NEW mem \in [0 .. NW-1 -> Word], NEW addr \in Word,
         NEW width \in {"byte", "half", "word"}, NEW unsigned \in BOOLEAN,
         AlignedLane(width, MemLane(addr))
  PROVE  ReadBytes(BytesOf(mem), Sub(addr, MemBase), width, unsigned) =
           LoadLanes(mem[MemIndex(addr)], width, unsigned, MemLane(addr))
  <1>1. PICK off \in Nat : off = Sub(addr, MemBase)
    BY AddType, SmallWords, MachineAssumption
  <1>2. PICK raw \in Word : raw = mem[MemIndex(addr)]
    BY MemIndexType
  <1>3. PICK lane \in 0 .. 3 : lane = off % 4 /\ lane = MemLane(addr)
    BY <1>1 DEF MemLane
  <1> DEFINE at(k) == (off + k) % (4*NW)
             byte == [k \in Lane |-> BytesOf(mem)[at(k)]]
  <1>4. NW \in Nat /\ NW > 0
    BY MachineAssumption
  <1>5. \A k \in Lane : at(k) \in 0 .. 4*NW - 1
    <2> TAKE k \in Lane
    <2>1. off + k \in Int /\ 4*NW \in Nat /\ 4*NW > 0
      BY <1>4 DEF Lane
    <2> QED BY <2>1, DivMod
  <1>6. \A k \in Lane : byte[k] \in 0 .. ByteMod-1
    BY <1>5, BytesType
  <1>7. \A k \in Lane : lane + k <= 3 => byte[k] = ByteOf(raw, lane + k)
    <2> SUFFICES ASSUME NEW k \in Lane, lane + k <= 3 PROVE byte[k] = ByteOf(raw, lane + k)
      OBVIOUS
    <2>1. at(k) \in 0 .. 4*NW - 1 /\ at(k) \div 4 = (off \div 4) % NW /\ at(k) % 4 = (off % 4) + k
      BY <1>3, ByteInWord DEF Lane
    <2>2. (off \div 4) % NW = MemIndex(addr)
      BY <1>1 DEF MemIndex
    <2>3. BytesOf(mem)[at(k)] = ByteOf(mem[at(k) \div 4], at(k) % 4)
      BY <2>1, BytesType
    <2> QED BY <1>2, <1>3, <2>1, <2>2, <2>3
  <1>8. ReadBytes(BytesOf(mem), Sub(addr, MemBase), width, unsigned) =
          Extend(width, unsigned, WordOf(byte))
    BY <1>1, BytesType DEF ReadBytes
  <1> HIDE DEF byte, at
  <1>9. PICK b0, b1, b2, b3 \in 0 .. ByteMod-1 :
          raw = b0 + b1 * ByteMod + b2 * (ByteMod * ByteMod) + b3 * (ByteMod * (ByteMod * ByteMod))
    BY FourBytes
  <1>10. /\ ByteOf(raw, 0) = b0 /\ ByteOf(raw, 1) = b1 /\ ByteOf(raw, 2) = b2 /\ ByteOf(raw, 3) = b3
         /\ (raw \div LaneMod(0)) % HalfwordMod = b0 + b1 * ByteMod
         /\ (raw \div LaneMod(2)) % HalfwordMod = b2 + b3 * ByteMod
    BY <1>9, Lanes
  <1>11. PICK c0, c1, c2, c3 \in 0 .. ByteMod-1 :
           c0 = byte[0] /\ c1 = byte[1] /\ c2 = byte[2] /\ c3 = byte[3]
    BY <1>6 DEF Lane
  <1>12. WordOf(byte) = c0 + c1 * ByteMod + c2 * (ByteMod * ByteMod)
                        + c3 * (ByteMod * (ByteMod * ByteMod))
    BY <1>11, LaneWeights DEF WordOf
  <1>13. WordOf(byte) % ByteMod = c0 /\ WordOf(byte) % HalfwordMod = c0 + c1 * ByteMod
    BY <1>12, Lanes
  <1>14. CASE width = "word"
    <2>1. lane = 0
      BY <1>3, <1>14 DEF AlignedLane
    <2>2. c0 = b0 /\ c1 = b1 /\ c2 = b2 /\ c3 = b3
      BY <1>7, <1>10, <1>11, <2>1 DEF Lane
    <2>3. WordOf(byte) = raw
      BY <1>9, <1>12, <2>2
    <2> QED BY <1>2, <1>8, <1>14, <2>3 DEF Extend, Truncate, LoadLanes
  <1>15. CASE width = "byte"
    <2>1. c0 = ByteOf(raw, lane)
      BY <1>7, <1>11 DEF Lane
    <2>2. (raw \div LaneMod(lane)) % ByteMod = c0
      BY <2>1 DEF ByteOf
    <2> QED BY <1>2, <1>3, <1>8, <1>13, <1>15, <2>2 DEF Extend, Truncate, LoadLanes
  <1>16. CASE width = "half"
    <2>1. lane = 0 \/ lane = 2
      BY <1>3, <1>16 DEF AlignedLane
    <2>2. c0 = ByteOf(raw, lane) /\ c1 = ByteOf(raw, lane + 1)
      BY <1>7, <1>11, <2>1 DEF Lane
    <2>3. (raw \div LaneMod(lane)) % HalfwordMod = c0 + c1 * ByteMod
      BY <1>10, <2>1, <2>2
    <2> QED BY <1>2, <1>3, <1>8, <1>13, <1>16, <2>3 DEF Extend, Truncate, LoadLanes
  <1> QED BY <1>14, <1>15, <1>16

(* What a store puts on the enabled lanes, and what the others keep.       *)
LEMMA StoredLanes ==
  ASSUME NEW old \in Word, NEW x \in Word, NEW width \in {"byte", "half", "word"},
         NEW lane \in 0 .. 3, AlignedLane(width, lane), NEW l \in 0 .. 3
  PROVE  ByteOf(StoreLanes(old, width, lane, x), l) =
           IF l \in ByteEnable(width, lane) THEN ByteOf(x, l - lane) ELSE ByteOf(old, l)
  <1> DEFINE data == IF width = "word" THEN x ELSE (Truncate(width, x) * LaneMod(lane)) % WordMod
             byte == [k \in Lane |-> ByteOf(IF k \in ByteEnable(width, lane) THEN data ELSE old, k)]
  <1>1. PICK x0, x1, x2, x3 \in 0 .. ByteMod-1 :
          x = x0 + x1 * ByteMod + x2 * (ByteMod * ByteMod) + x3 * (ByteMod * (ByteMod * ByteMod))
    BY FourBytes
  <1>2. /\ ByteOf(x, 0) = x0 /\ ByteOf(x, 1) = x1
        /\ x % ByteMod = x0 /\ x % HalfwordMod = x0 + x1 * ByteMod
    BY <1>1, Lanes
  <1>3. 0 \in 0 .. ByteMod-1 /\ ByteMod \in Nat
    BY LaneWeights
  <1>4. \A k \in ByteEnable(width, lane) :
          k \in Lane /\ k - lane \in 0 .. 3 /\ ByteOf(data, k) = ByteOf(x, k - lane)
    <2>1. CASE width = "word"
      <3>1. lane = 0 /\ data = x
        BY <2>1 DEF AlignedLane
      <3> HIDE DEF data
      <3> QED BY <2>1, <3>1 DEF ByteEnable, Lane
    <2>2. CASE width = "byte"
      <3>1. PICK d \in Nat : d = x0 * LaneMod(lane)
        <4>1. LaneMod(lane) \in Nat
          <5>1. ByteMod * ByteMod \in Nat /\ ByteMod * (ByteMod * ByteMod) \in Nat
            BY <1>3
          <5>2. lane = 0 \/ lane = 1 \/ lane = 2 \/ lane = 3
            OBVIOUS
          <5> QED BY <1>3, <5>1, <5>2, LaneWeights
        <4> QED BY <4>1
      <3>2. d \in Word /\ ByteOf(d, lane) = x0
        <4>1. CASE lane = 0
          <5>1. d = x0 + 0 * ByteMod + 0 * (ByteMod * ByteMod) + 0 * (ByteMod * (ByteMod * ByteMod))
            BY <1>3, <3>1, <4>1, LaneWeights
          <5> QED BY <1>3, <4>1, <5>1, Lanes
        <4>2. CASE lane = 1
          <5>1. d = 0 + x0 * ByteMod + 0 * (ByteMod * ByteMod) + 0 * (ByteMod * (ByteMod * ByteMod))
            BY <1>3, <3>1, <4>2, LaneWeights
          <5> QED BY <1>3, <4>2, <5>1, Lanes
        <4>3. CASE lane = 2
          <5>1. d = 0 + 0 * ByteMod + x0 * (ByteMod * ByteMod) + 0 * (ByteMod * (ByteMod * ByteMod))
            BY <1>3, <3>1, <4>3, LaneWeights
          <5> QED BY <1>3, <4>3, <5>1, Lanes
        <4>4. CASE lane = 3
          <5>1. d = 0 + 0 * ByteMod + 0 * (ByteMod * ByteMod) + x0 * (ByteMod * (ByteMod * ByteMod))
            BY <1>3, <3>1, <4>4, LaneWeights
          <5> QED BY <1>3, <4>4, <5>1, Lanes
        <4> QED BY <4>1, <4>2, <4>3, <4>4
      <3>3. d % WordMod = d
        BY <3>2, WordHalves DEF Word
      <3>4. data = d
        BY <1>2, <2>2, <3>1, <3>3 DEF Truncate
      <3> HIDE DEF data
      <3> QED BY <1>2, <2>2, <3>2, <3>4 DEF ByteEnable, Lane
    <2>3. CASE width = "half"
      <3>1. lane = 0 \/ lane = 2
        BY <2>3 DEF AlignedLane
      <3>2. PICK d \in Nat : d = (x0 + x1 * ByteMod) * LaneMod(lane)
        <4>1. LaneMod(lane) \in Nat
          <5>1. ByteMod * ByteMod \in Nat
            BY <1>3
          <5> QED BY <1>3, <3>1, <5>1, LaneWeights
        <4>2. x0 + x1 * ByteMod \in Nat
          BY <1>3
        <4> QED BY <4>1, <4>2
      <3>3. d \in Word /\ ByteOf(d, lane) = x0 /\ ByteOf(d, lane + 1) = x1
        <4>1. CASE lane = 0
          <5>1. PICK z \in 0 .. ByteMod-1 : z = 0
            BY <1>3
          <5>2. d = x0 + x1 * ByteMod + z * (ByteMod * ByteMod) + z * (ByteMod * (ByteMod * ByteMod))
            BY <1>3, <3>2, <4>1, <5>1, LaneWeights
          <5>3. d \in Word /\ ByteOf(d, 0) = x0 /\ ByteOf(d, 1) = x1
            BY <5>2, Lanes
          <5> QED BY <4>1, <5>3
        <4>2. CASE lane = 2
          <5>1. PICK z \in 0 .. ByteMod-1 : z = 0
            BY <1>3
          <5>2. PICK u, v \in Int : u = x0 * (ByteMod * ByteMod) /\ v = x1 * (ByteMod * (ByteMod * ByteMod))
            BY <1>3
          <5>3. d = u + v
            <6>1. (x0 + x1 * ByteMod) * (ByteMod * ByteMod) = u + v
              BY <1>3, <5>2
            <6> QED BY <3>2, <4>2, <6>1, LaneWeights
          <5>4. d = z + z * ByteMod + x0 * (ByteMod * ByteMod) + x1 * (ByteMod * (ByteMod * ByteMod))
            BY <1>3, <5>1, <5>2, <5>3
          <5>5. d \in Word /\ ByteOf(d, 2) = x0 /\ ByteOf(d, 3) = x1
            BY <5>4, Lanes
          <5> QED BY <4>2, <5>5
        <4> QED BY <3>1, <4>1, <4>2
      <3>4. d % WordMod = d
        BY <3>3, WordHalves DEF Word
      <3>5. data = d
        BY <1>2, <2>3, <3>2, <3>4 DEF Truncate
      <3> HIDE DEF data
      <3>6. \A k \in ByteEnable(width, lane) : k \in Lane /\ (k = lane \/ k = lane + 1)
        BY <2>3 DEF ByteEnable, Lane
      <3>7. lane - lane = 0 /\ lane + 1 - lane = 1
        OBVIOUS
      <3> QED BY <1>2, <3>3, <3>5, <3>6, <3>7
    <2> QED BY <2>1, <2>2, <2>3
  <1>5. \A k \in Lane : byte[k] = IF k \in ByteEnable(width, lane) THEN ByteOf(x, k - lane)
                                  ELSE ByteOf(old, k)
    BY <1>4
  <1> HIDE DEF data
  <1>6. \A k \in Lane : byte[k] \in 0 .. ByteMod-1
    <2>1. \A k \in Lane : ByteOf(x, k) \in 0 .. ByteMod-1 /\ ByteOf(old, k) \in 0 .. ByteMod-1
      BY ByteOfType, SmallWords
    <2> QED BY <1>4, <1>5, <2>1 DEF Lane
  <1>7. StoreLanes(old, width, lane, x) = WordOf(byte)
    BY DEF StoreLanes, data
  <1> HIDE DEF byte
  <1>8. PICK c0, c1, c2, c3 \in 0 .. ByteMod-1 :
          c0 = byte[0] /\ c1 = byte[1] /\ c2 = byte[2] /\ c3 = byte[3]
    BY <1>6 DEF Lane
  <1>9. WordOf(byte) = c0 + c1 * ByteMod + c2 * (ByteMod * ByteMod)
                       + c3 * (ByteMod * (ByteMod * ByteMod))
    BY <1>8, LaneWeights DEF WordOf
  <1>10. /\ ByteOf(WordOf(byte), 0) = c0 /\ ByteOf(WordOf(byte), 1) = c1
         /\ ByteOf(WordOf(byte), 2) = c2 /\ ByteOf(WordOf(byte), 3) = c3
    BY <1>9, Lanes
  <1>11. l = 0 \/ l = 1 \/ l = 2 \/ l = 3
    OBVIOUS
  <1>12. ByteOf(WordOf(byte), l) = byte[l]
    BY <1>8, <1>10, <1>11
  <1> QED BY <1>5, <1>7, <1>12 DEF Lane

(* How many bytes an access of this width has.                             *)
SizeOf(width) == CASE width = "byte" -> 1 [] width = "half" -> 2 [] OTHER -> 4

(* A store that stays in its word does what the bytes of memory show.      *)
LEMMA StoresAgree ==
  ASSUME NEW mem \in [0 .. NW-1 -> Word], NEW addr \in Word, NEW x \in Word,
         NEW width \in {"byte", "half", "word"}, AlignedLane(width, MemLane(addr))
  PROVE  BytesOf([mem EXCEPT ![MemIndex(addr)] = StoreLanes(@, width, MemLane(addr), x)]) =
           WriteBytes(BytesOf(mem), Sub(addr, MemBase), width, x)
  <1>1. PICK off \in Nat : off = Sub(addr, MemBase)
    BY AddType, SmallWords, MachineAssumption
  <1>2. PICK lane \in 0 .. 3 : lane = off % 4 /\ lane = MemLane(addr)
    BY <1>1 DEF MemLane
  <1>3. PICK mi \in 0 .. NW-1 : mi = MemIndex(addr) /\ mi = (off \div 4) % NW
    BY <1>1, MemIndexType DEF MemIndex
  <1>4. PICK m \in Nat : m = 4*NW /\ m >= 4
    BY MachineAssumption
  <1> DEFINE stored == [mem EXCEPT ![mi] = StoreLanes(@, width, lane, x)]
             place(j) == (j - off) % m
  <1>5. /\ DOMAIN BytesOf(stored) = 0 .. m-1 /\ DOMAIN BytesOf(mem) = 0 .. m-1
        /\ \A j \in 0 .. m-1 : BytesOf(stored)[j] = ByteOf(stored[j \div 4], j % 4)
                               /\ BytesOf(mem)[j] = ByteOf(mem[j \div 4], j % 4)
    BY <1>4 DEF BytesOf
  <1>6. WriteBytes(BytesOf(mem), Sub(addr, MemBase), width, x) =
          [j \in 0 .. m-1 |-> IF place(j) < SizeOf(width) THEN ByteOf(x, place(j))
                              ELSE BytesOf(mem)[j]]
    BY <1>1, <1>4, <1>5, BytesType DEF WriteBytes, SizeOf
  <1>7. \A p \in 0 .. 3 : p < SizeOf(width) => lane + p <= 3 /\ lane + p \in ByteEnable(width, lane)
    <2>1. CASE width = "byte"
      BY <2>1 DEF SizeOf, ByteEnable, Lane
    <2>2. CASE width = "half"
      <3>1. lane = 0 \/ lane = 2
        BY <1>2, <2>2 DEF AlignedLane
      <3>2. SizeOf(width) = 2 /\ ByteEnable(width, lane) = {lane, lane + 1} \cap Lane
        BY <2>2 DEF SizeOf, ByteEnable
      <3>3. \A p \in 0 .. 3 : p < 2 => lane + p \in Lane /\ (lane + p = lane \/ lane + p = lane + 1)
        BY <3>1 DEF Lane
      <3>4. \A p \in 0 .. 3 : p < 2 => lane + p <= 3 /\ lane + p \in {lane, lane + 1} \cap Lane
        <4> TAKE p \in 0 .. 3
        <4> HAVE p < 2
        <4>1. lane + p \in Lane /\ (lane + p = lane \/ lane + p = lane + 1)
          BY <3>3
        <4>2. lane + p <= 3
          BY <4>1 DEF Lane
        <4>3. PICK e : e = lane + p
          OBVIOUS
        <4>4. e \in {lane, lane + 1} \cap Lane
          BY <4>1, <4>3
        <4> QED BY <4>2, <4>3, <4>4
      <3>5. ASSUME NEW p \in 0 .. 3, p < SizeOf(width)
            PROVE  lane + p <= 3 /\ lane + p \in ByteEnable(width, lane)
        <4>1. p < 2
          BY <3>2, <3>5
        <4>2. lane + p <= 3 /\ lane + p \in {lane, lane + 1} \cap Lane
          BY <3>4, <4>1
        <4> QED BY <3>2, <4>2, Zenon
      <3> QED BY <3>5
    <2>3. CASE width = "word"
      <3>1. lane = 0
        BY <1>2, <2>3 DEF AlignedLane
      <3> QED BY <2>3, <3>1 DEF SizeOf, ByteEnable, Lane
    <2> QED BY <2>1, <2>2, <2>3
  <1>8. \A l \in ByteEnable(width, lane) : l - lane \in 0 .. 3 /\ l - lane < SizeOf(width)
    BY <1>2 DEF SizeOf, AlignedLane, ByteEnable, Lane
  <1>9. ASSUME NEW j \in 0 .. m-1
        PROVE  BytesOf(stored)[j] = IF place(j) < SizeOf(width) THEN ByteOf(x, place(j))
                                    ELSE BytesOf(mem)[j]
    <2>1. j \div 4 \in 0 .. NW-1 /\ j % 4 \in 0 .. 3 /\ j = 4 * (j \div 4) + (j % 4)
      BY <1>4, MachineAssumption
    <2>2. place(j) \in 0 .. m-1
      <3>1. j - off \in Int /\ m > 0
        BY <1>4
      <3> QED BY <3>1, DivMod
    <2>3. CASE place(j) < SizeOf(width)
      <3>1. PICK p \in 0 .. 3 : p = place(j) /\ p < SizeOf(width)
        BY <2>2, <2>3 DEF SizeOf
      <3>2. j = (off + p) % m
        <4>1. m > 0 /\ p \in 0 .. m-1
          BY <1>4
        <4>2. (j - off) % m = p
          BY <3>1
        <4>3. PICK a, t \in Int : a = off + p /\ a = m * t + j
          <5>1. PICK s \in Int : j - off = m * s + p
            <6>1. PICK d \in Int : d = j - off
              BY <1>4
            <6>2. d \div m \in Int /\ d = m * (d \div m) + (d % m)
              BY <4>1, DivMod
            <6> QED BY <4>2, <6>1, <6>2
          <5>2. off + p = m * (-s) + j
            <6>1. m * (-s) = -(m * s)
              OBVIOUS
            <6>2. PICK ms \in Int : ms = m * s
              OBVIOUS
            <6> QED BY <5>1, <6>1, <6>2
          <5>3. -s \in Int /\ off + p \in Int
            OBVIOUS
          <5> QED BY <5>2, <5>3
        <4>4. a % m = j
          <5>1. j \in 0 .. m-1 /\ m \in Nat /\ a \in Int /\ t \in Int
            OBVIOUS
          <5> HIDE DEF place, stored
          <5>2. \A s \in 0 .. m-1 : a = m * t + s => a % m = s
            BY <4>1, DivModUnique
          <5> QED BY <4>3, <5>1, <5>2
        <4> QED BY <4>3, <4>4
      <3>3. j \div 4 = mi /\ j % 4 = lane + p
        BY <1>2, <1>3, <1>4, <1>7, <3>1, <3>2, ByteInWord
      <3>4. mem[mi] \in Word /\ lane + p \in 0 .. 3 /\ AlignedLane(width, lane)
        BY <1>2, <1>7, <3>1
      <3>5. ByteOf(StoreLanes(mem[mi], width, lane, x), lane + p) = ByteOf(x, (lane + p) - lane)
        BY <1>7, <3>1, <3>4, StoredLanes
      <3>6. (lane + p) - lane = p
        OBVIOUS
      <3>7. stored[mi] = StoreLanes(mem[mi], width, lane, x)
        OBVIOUS
      <3> QED BY <1>5, <2>3, <3>1, <3>3, <3>5, <3>6, <3>7
    <2>4. CASE ~(place(j) < SizeOf(width))
      <3>1. CASE j \div 4 # mi
        BY <1>5, <2>1, <2>4, <3>1
      <3>2. CASE j \div 4 = mi
        <4>1. j % 4 \notin ByteEnable(width, lane)
          <5> SUFFICES ASSUME j % 4 \in ByteEnable(width, lane) PROVE FALSE
            OBVIOUS
          <5>1. PICK p \in 0 .. 3 : p = (j % 4) - lane /\ p < SizeOf(width)
            BY <1>8
          <5>2. lane + p <= 3 /\ lane + p = j % 4
            BY <1>7, <2>1, <5>1
          <5>3. PICK i \in 0 .. m-1 : i = (off + p) % m /\ i \div 4 = mi /\ i % 4 = lane + p
            BY <1>2, <1>3, <1>4, <5>2, ByteInWord
          <5>4. i = 4 * (i \div 4) + (i % 4)
            BY <5>3
          <5>5. j = i
            BY <2>1, <3>2, <5>2, <5>3, <5>4
          <5>6. (j - off) % m = p
            <6>1. m > 0 /\ p \in 0 .. m-1
              BY <1>4
            <6>2. PICK a \in Nat : a = off + p /\ a % m = j
              BY <5>3, <5>5
            <6>3. PICK q, d \in Int : d = j - off /\ d = m * q + p
              <7>1. PICK s \in Int : a = m * s + j
                <8>1. a \div m \in Int /\ a = m * (a \div m) + (a % m)
                  BY <6>1, DivMod
                <8> QED BY <6>2, <8>1
              <7>2. PICK ms \in Int : ms = m * s
                OBVIOUS
              <7>3. m * (-s) = -ms
                BY <7>2
              <7>4. -s \in Int /\ j - off \in Int
                BY <1>4
              <7>5. j - off = m * (-s) + p
                BY <6>2, <7>1, <7>2, <7>3, <7>4
              <7> QED BY <7>4, <7>5
            <6>4. d % m = p
              BY <6>1, <6>3, DivModUnique
            <6> QED BY <6>3, <6>4
          <5> QED BY <2>4, <5>1, <5>6
        <4>2. AlignedLane(width, lane) /\ mem[mi] \in Word
          BY <1>2
        <4>3. ByteOf(StoreLanes(mem[mi], width, lane, x), j % 4) = ByteOf(mem[mi], j % 4)
          BY <2>1, <4>1, <4>2, StoredLanes
        <4>4. stored[mi] = StoreLanes(mem[mi], width, lane, x)
          OBVIOUS
        <4> QED BY <1>5, <2>4, <3>2, <4>3, <4>4
      <3> QED BY <3>1, <3>2
    <2> QED BY <2>3, <2>4
  <1> HIDE DEF stored, place
  <1>10. BytesOf(stored) = [j \in 0 .. m-1 |-> BytesOf(stored)[j]]
    BY <1>4 DEF BytesOf
  <1>11. BytesOf(stored) = WriteBytes(BytesOf(mem), Sub(addr, MemBase), width, x)
    BY <1>6, <1>9, <1>10
  <1> QED BY <1>2, <1>3, <1>11 DEF stored

-----------------------------------------------------------------------------
(* The stream of instructions through the front end.                       *)

(* The word of the program at an address.                                  *)
At(x) == imem[MemIndex(x)]

IfReal == IsReal(ifid.pc, ifid.instr)
FetchReal == IsReal(fetch.pc, fetch.instr)

(* The oldest instruction that has not been issued.                        *)
FrontPc == IF IfReal THEN ifid.pc ELSE IF FetchReal THEN fetch.pc ELSE pc

(* ID, the fetch register and pc hold consecutive instructions, each with  *)
(* its successor beside it; what a flush has left there looks like a NOP.  *)
FrontInv ==
  /\ FetchReal => /\ fetch.instr = At(fetch.pc) /\ fetch.next = At(Add(fetch.pc, 4))
                  /\ pc = Add(fetch.pc, 4) /\ MemLane(fetch.pc) = 0
  /\ ~FetchReal => fetch.next = NOP
  /\ IfReal => /\ FetchReal /\ fetch.pc = Add(ifid.pc, 4) /\ MemLane(ifid.pc) = 0
               /\ ifid.instr = At(ifid.pc)
               /\ ifid.next = At(Add(ifid.pc, 4))
  /\ ~IfReal /\ ifid.lookahead_valid => ifid.next = NOP
  /\ MemLane(pc) = 0

(* The next word boundary.                                                 *)
LEMMA NextBoundary ==
  ASSUME NEW x \in Word, MemLane(x) = 0
  PROVE  Add(x, 4) \in Word /\ MemLane(Add(x, 4)) = 0
  <1>1. Add(x, 4) \in Word
    BY AddType, WideWord
  <1>2. PICK m \in Nat, h \in Nat : m = WordMod /\ m = 4 * h /\ m > 0
    <2>1. PICK k \in Nat : W = 4 * k /\ k >= 1
      BY WAssumption, LoadStoreAssumption
    <2>2. PICK b \in Nat, e \in Nat : b = ByteMod /\ b = 2 * e
      <3>1. k - 1 \in 0 .. 2*W - 1 /\ (k - 1) + 1 = k /\ W \div 4 = k /\ k - 1 \in 0 .. 2*W
        BY WAssumption, <2>1
      <3>2. Pow2[k] = 2 * Pow2[k-1] /\ Pow2[k-1] \in Nat
        BY <3>1, Pow2Step, Pow2Type
      <3> QED BY <3>1, <3>2 DEF ByteMod
    <2>3. PICK g \in Nat : g = b * b
      OBVIOUS
    <2>4. PICK f \in Nat : f = e * e
      OBVIOUS
    <2>5. g = 4 * f
      BY <2>2, <2>3, <2>4
    <2>6. WordMod = g * g
      BY <2>2, <2>3, LaneWeights
    <2>7. PICK h \in Nat : h = f * g
      OBVIOUS
    <2>8. g * g = 4 * h
      BY <2>5, <2>7
    <2> QED BY <2>6, <2>8, WordHalves
  <1>3. PICK d \in Int : d = x - MemBase
    BY SmallWords, MachineAssumption
  <1>4. PICK s \in Word : s = Add(x, 4) /\ s = (x + 4) % m
    BY <1>1, <1>2 DEF Add
  <1>5. PICK q \in Int : x + 4 = m * q + s
    <2>1. PICK y \in Int : y = x + 4
      BY SmallWords
    <2>2. y = m * (y \div m) + (y % m) /\ y \div m \in Int
      BY <1>2, DivMod
    <2> QED BY <1>4, <2>1, <2>2
  <1>6. PICK c \in Int, u \in Int : d = m * c + u /\ u = Sub(x, MemBase)
    <2>1. d = m * (d \div m) + (d % m) /\ d \div m \in Int /\ d % m \in Int
      BY <1>2, DivMod
    <2> QED BY <1>2, <1>3, <2>1 DEF Sub
  <1>7. PICK z \in Int, v \in Int, k \in Int : z = s - MemBase /\ z = m * k + v /\ v = Sub(s, MemBase)
    <2>1. PICK z \in Int : z = s - MemBase
      BY SmallWords, MachineAssumption
    <2>2. z = m * (z \div m) + (z % m) /\ z \div m \in Int /\ z % m \in Int
      BY <1>2, DivMod
    <2> QED BY <1>2, <2>1, <2>2 DEF Sub
  <1>8. u % 4 = 0
    BY <1>6 DEF MemLane
  <1>9. PICK mc, mq, mk \in Int : mc = h * c /\ mq = h * q /\ mk = h * k
    OBVIOUS
  <1>10. m * c = 4 * mc /\ m * q = 4 * mq /\ m * k = 4 * mk
    BY <1>2, <1>9
  <1>11. v = u + 4 * (mc - mq - mk + 1)
    <2>1. x \in Int /\ MemBase \in Int /\ s \in Int
      BY SmallWords, MachineAssumption
    <2> QED BY <2>1, <1>3, <1>5, <1>6, <1>7, <1>10
  <1>12. v % 4 = 0
    BY <1>8, <1>11
  <1> QED BY <1>1, <1>4, <1>7, <1>12 DEF MemLane

(* What is at the addresses of a flushed slot is not a NOP.                *)
LEMMA RealWords ==
  ASSUME imem \in Programs, NEW x \in Word
  PROVE  IsReal(x, At(x)) /\ At(x) \in Instr
  <1>1. At(0) # NOP
    BY LockstepAssumption DEF At
  <1>2. MemIndex(MemBase) = 0
    <2>1. MemBase \in Nat /\ NW \in Nat /\ NW > 0
      BY SmallWords, MachineAssumption
    <2>2. MemBase - MemBase = 0
      BY <2>1
    <2>3. Sub(MemBase, MemBase) = 0
      BY <2>2, WordHalves DEF Sub
    <2> QED BY <2>1, <2>3 DEF MemIndex
  <1>3. At(MemBase) # NOP
    BY <1>2, MachineAssumption DEF At
  <1>4. At(x) \in Instr
    BY MemIndexType, MachineAssumption DEF At
  <1> QED BY <1>1, <1>3, <1>4 DEF IsReal

(* A NOP of a flushed slot is with nothing a pair.                         *)
LEMMA NopsDoNotFuse ==
  ASSUME ~IfReal, FrontInv
  PROVE  ~AnyFuse /\ \A k \in Idiom : ~Fuse(k)
  <1>1. ifid.instr = NOP
    BY DEF IfReal, IsReal
  <1>2. ASSUME NEW k \in Idiom, Fuse(k) PROVE FALSE
    <2>1. ifid.next = NOP
      BY <1>2 DEF Fuse, FrontInv
    <2> QED BY <1>1, <1>2, <2>1
          DEF Fuse, Matches, Pattern1, Pattern2, Pattern3, Pattern4, Pattern5, AddiOnto, NOP
  <1> QED BY <1>2 DEF AnyFuse

(* A redirect empties the front end, a stall holds it, and else it moves   *)
(* on by one instruction, or by two if a pair fuses.                       *)
LEMMA FrontMoves ==
  ASSUME FrontInv, FreezeInv, ClockEdge, TargetsAligned
  PROVE  /\ FrontInv'
         /\ Redirect => FrontPc' = RedirectTarget
         /\ ~Redirect /\ StallFront => FrontPc' = FrontPc
         /\ ~Redirect /\ ~StallFront =>
              FrontPc' = IF ~IfReal THEN FrontPc
                         ELSE IF AnyFuse THEN Add(Add(ifid.pc, 4), 4) ELSE Add(ifid.pc, 4)
  <1>1. /\ imem \in Programs /\ imem' = imem /\ pc \in Word /\ fetch.pc \in Word /\ ifid.pc \in Word
    BY DEF FreezeInv, DataInv, TypeOK, ClockEdge
  <1>2. \A x : At(x)' = At(x)
    BY <1>1 DEF At
  <1>3. CASE Redirect
    <2>1. fetch' = FetchBubble /\ ifid' = IfIdBubble /\ pc' = RedirectTarget
      BY <1>3 DEF ClockEdge, NextPC, NextFetch, NextIfId, FlushFront
    <2>2. ~FetchReal' /\ ~IfReal' /\ fetch'.next = NOP /\ ~ifid'.lookahead_valid
      BY <2>1 DEF FetchReal, IfReal, IsReal, FetchBubble, IfIdBubble
    <2>3. MemLane(pc') = 0
      BY <1>3, <2>1 DEF TargetsAligned
    <2> QED BY <1>3, <2>1, <2>2, <2>3 DEF FrontInv, FrontPc
  <1>4. CASE ~Redirect /\ StallFront
    <2>1. fetch' = fetch /\ ifid' = ifid /\ pc' = pc
      BY <1>4 DEF ClockEdge, NextPC, NextFetch, NextIfId, FlushFront
    <2>2. (FetchReal' <=> FetchReal) /\ (IfReal' <=> IfReal)
      BY <2>1 DEF FetchReal, IfReal, IsReal
    <2> QED BY <1>1, <1>4, <2>1, <2>2 DEF FrontInv, FrontPc, At
  <1>5. CASE ~Redirect /\ ~StallFront
    <2>1. pc' = Add(pc, 4) /\ fetch' = [pc |-> pc, instr |-> At(pc), next |-> At(Add(pc, 4))]
      BY <1>5 DEF ClockEdge, NextPC, NextFetch, FlushFront, At
    <2>2. /\ fetch'.pc = pc /\ fetch'.instr = At(pc) /\ fetch'.next = At(Add(pc, 4))
      BY <2>1
    <2>3. FetchReal'
      BY <1>1, <2>2, RealWords DEF FetchReal
    <2>4. MemLane(pc) = 0 /\ MemLane(pc') = 0
      BY <1>1, <2>1, NextBoundary DEF FrontInv
    <2>5. CASE AnyFuse
      <3>1. ifid' = IfIdBubble
        BY <1>5, <2>5 DEF ClockEdge, NextIfId
      <3>2. ~IfReal' /\ ~ifid'.lookahead_valid
        BY <3>1 DEF IfReal, IsReal, IfIdBubble
      <3>3. IfReal /\ pc = Add(Add(ifid.pc, 4), 4)
        BY <2>5, NopsDoNotFuse DEF FrontInv
      <3> QED BY <1>1, <1>5, <2>1, <2>2, <2>3, <2>4, <2>5, <3>2, <3>3 DEF FrontInv, FrontPc, At
    <2>6. CASE ~AnyFuse
      <3>1. ifid' = [pc |-> fetch.pc, instr |-> fetch.instr, next |-> fetch.next,
                     lookahead_valid |-> TRUE]
        BY <1>5, <2>6 DEF ClockEdge, NextIfId, FlushFront
      <3>2. ifid'.pc = fetch.pc /\ ifid'.instr = fetch.instr /\ ifid'.next = fetch.next
        BY <3>1
      <3>3. IfReal' <=> FetchReal
        BY <3>2 DEF IfReal, FetchReal
      <3>4. FrontInv'
        BY <1>1, <2>1, <2>2, <2>3, <2>4, <3>2, <3>3 DEF FrontInv, At
      <3>5. FrontPc' = IF ~IfReal THEN FrontPc ELSE Add(ifid.pc, 4)
        BY <2>2, <2>3, <3>2, <3>3 DEF FrontInv, FrontPc
      <3> QED BY <1>5, <2>6, <3>4, <3>5
    <2> QED BY <2>5, <2>6
  <1> QED BY <1>3, <1>4, <1>5

-----------------------------------------------------------------------------
(* The operation in EX: an instruction of the program, a pair, or nothing. *)

(* The instruction after the one in EX.                                    *)
ExNext == At(Add(ExPc, 4))

(* One instruction.                                                        *)
ExSingle ==
  /\ idex.instr = At(ExPc) /\ MemLane(ExPc) = 0
  /\ idex.pc = ExPc /\ FrontPc = Add(ExPc, 4)
  /\ idex.ctl = Decode(idex.instr) /\ idex.imm = idex.instr.imm /\ idex.rd = idex.instr.rd
  /\ idex.rs1 = idex.instr.rs1 /\ idex.rs2 = idex.instr.rs2
  /\ ~idex.pend2.valid /\ ~idex.fuse4.valid

(* The first of two that are fused.                                        *)
ExPair ==
  /\ FUSION_EN
  /\ idex.instr = At(ExPc) /\ MemLane(ExPc) = 0
  /\ FrontPc = Add(Add(ExPc, 4), 4)

(* Idioms 1 and 2: the sum of the immediates.                              *)
ExAddi ==
  /\ ExPair /\ (Pattern1(idex.instr, ExNext) \/ Pattern2(idex.instr, ExNext))
  /\ idex.pc = ExPc /\ idex.ctl = Decode(idex.instr)
  /\ idex.imm = Add(idex.instr.imm, ExNext.imm) /\ idex.rd = idex.instr.rd
  /\ ~idex.pend2.valid /\ ~idex.fuse4.valid

(* Idiom 3: a jump from the base that ID computed.                         *)
ExCall ==
  /\ ExPair /\ Pattern3(idex.instr, ExNext)
  /\ idex.pc = Add(ExPc, 4)
  /\ idex.ctl = [Decode(idex.instr) EXCEPT !.reg_write = TRUE, !.result_src = "pc4",
                                           !.is_jalr = TRUE]
  /\ idex.imm = ExNext.imm /\ idex.rd = ExNext.rd
  /\ FwdA = Add(ExPc, idex.instr.imm)
  /\ idex.pend2 = [valid |-> TRUE, addr |-> idex.instr.rd, data |-> Add(ExPc, idex.instr.imm)]
  /\ ~idex.fuse4.valid

(* Idiom 4: a comparison, with the target of the branch on it.             *)
ExCompare ==
  /\ ExPair /\ Pattern4(idex.instr, ExNext)
  /\ idex.pc = ExPc /\ idex.ctl = Decode(idex.instr)
  /\ idex.imm = idex.instr.imm /\ idex.rd = idex.instr.rd
  /\ idex.rs1 = idex.instr.rs1 /\ idex.rs2 = idex.instr.rs2
  /\ ~idex.pend2.valid
  /\ idex.fuse4 = [valid |-> TRUE, bne |-> ExNext.f3 % 2 = 1,
                   target |-> Add(Add(ExPc, 4), ExNext.imm)]

(* Idiom 5: a load from the address that ID computed as well.              *)
ExIndexed ==
  /\ ExPair /\ Pattern5(idex.instr, ExNext)
  /\ idex.pc = ExPc
  /\ idex.ctl = [Decode(idex.instr) EXCEPT !.mem_read = TRUE, !.mem_width = "word",
                                           !.result_src = "mem"]
  /\ idex.imm = idex.instr.imm /\ idex.rd = ExNext.rd
  /\ idex.rs1 = idex.instr.rs1 /\ idex.rs2 = idex.instr.rs2
  /\ idex.pend2 = [valid |-> TRUE, addr |-> idex.instr.rd, data |-> AluResult]
  /\ ~idex.fuse4.valid

(* A bubble, or the NOP of a flushed slot.                                 *)
ExEmpty ==
  /\ idex.ctl \in {NoControl, Decode(NOP)} /\ idex.rd = 0
  /\ ~idex.pend2.valid /\ ~idex.fuse4.valid

(* What EX holds.                                                          *)
ExHolds ==
  IF ExReal THEN ExSingle \/ ExAddi \/ ExCall \/ ExCompare \/ ExIndexed ELSE ExEmpty

(* An address steps forward and back.                                      *)
LEMMA StepBack ==
  ASSUME NEW x \in Word
  PROVE  Sub(Add(x, 4), 4) = x
  <1>1. PICK m \in Nat : m = WordMod /\ m > 0
    BY WordHalves
  <1>2. x \in 0 .. m-1
    BY <1>1 DEF Word
  <1>3. PICK y \in Int, q \in Int : y = (x + 4) % m /\ x + 4 = m * q + y
    <2>1. x + 4 \in Int
      BY <1>2
    <2>2. (x + 4) \div m \in Int /\ (x + 4) % m \in Int /\ x + 4 = m * ((x + 4) \div m) + ((x + 4) % m)
      BY <1>1, <2>1, DivMod
    <2> QED BY <2>2
  <1>4. PICK z \in Int, p \in Int : z = y - 4 /\ p = -q /\ z = m * p + x
    <2>1. PICK mq \in Int : mq = m * q
      OBVIOUS
    <2>2. m * (-q) = -mq
      BY <2>1
    <2>3. -q \in Int /\ y - 4 \in Int /\ y - 4 = m * (-q) + x
      BY <1>2, <1>3, <2>1, <2>2
    <2> QED BY <2>3
  <1>5. \A r \in 0 .. m-1 : z = m * p + r => z % m = r
    BY <1>1, DivModUnique
  <1>6. z % m = x
    BY <1>2, <1>4, <1>5
  <1> QED BY <1>1, <1>3, <1>4, <1>6 DEF Add, Sub

(* Nothing is two idioms at once.                                          *)
LEMMA OneIdiom ==
  \A j, k \in Idiom : Fuse(j) /\ Fuse(k) => j = k
  <1> DEFINE Pattern(k) == Matches(k, ifid.instr, ifid.next)
  <1>1. /\ Pattern(1) => ifid.instr.op = "LUI" /\ ifid.next.op = "OPIMM"
        /\ Pattern(2) => ifid.instr.op = "AUIPC" /\ ifid.next.op = "OPIMM"
        /\ Pattern(3) => ifid.next.op = "JALR"
        /\ Pattern(4) => ifid.next.op = "BRANCH"
        /\ Pattern(5) => ifid.next.op = "LOAD"
    BY DEF Matches, Pattern1, Pattern2, Pattern3, Pattern4, Pattern5, AddiOnto
  <1>2. \A k \in Idiom : Fuse(k) => Pattern(k)
    BY DEF Fuse
  <1>3. \A k \in Idiom : k = 1 \/ k = 2 \/ k = 3 \/ k = 4 \/ k = 5
    BY DEF Idiom
  <1> HIDE DEF Pattern
  <1> QED BY <1>1, <1>2, <1>3

(* What is issued, one field at a time.                                    *)
LEMMA IssuedFields ==
  /\ Issued.pc = IF Fuse(3) THEN Add(ifid.pc, 4) ELSE ifid.pc
  /\ Issued.rs1_data = IF Fuse(3) THEN Add(ifid.pc, ifid.instr.imm) ELSE RegRead(ifid.instr.rs1)
  /\ Issued.rs2_data = RegRead(ifid.instr.rs2)
  /\ Issued.rs1 = IF Fuse(3) THEN ifid.instr.rd ELSE ifid.instr.rs1
  /\ Issued.rs2 = ifid.instr.rs2 /\ Issued.instr = ifid.instr /\ Issued.ctl = IssuedControl
  /\ Issued.rd = IF Fuse(3) \/ Fuse(5) THEN ifid.next.rd ELSE ifid.instr.rd
  /\ Fuse(1) \/ Fuse(2) => Issued.imm = Add(ifid.instr.imm, ifid.next.imm)
  /\ ~Fuse(1) /\ ~Fuse(2) => Issued.imm = IF Fuse(3) THEN ifid.next.imm ELSE ifid.instr.imm
  /\ Fuse(3) => Issued.pend2 = [valid |-> TRUE, addr |-> ifid.instr.rd,
                                data |-> Add(ifid.pc, ifid.instr.imm)]
  /\ Fuse(5) /\ ~Fuse(3) =>
       Issued.pend2 = [valid |-> TRUE, addr |-> ifid.instr.rd,
                       data |-> Add(RegRead(ifid.instr.rs1),
                                    IF ifid.instr.op = "OP" THEN RegRead(ifid.instr.rs2)
                                    ELSE ifid.instr.imm)]
  /\ ~Fuse(3) /\ ~Fuse(5) => ~Issued.pend2.valid
  /\ Fuse(4) => Issued.fuse4 = [valid |-> TRUE, bne |-> ifid.next.f3 % 2 = 1,
                                target |-> Add(Add(ifid.pc, 4), ifid.next.imm)]
  /\ ~Fuse(4) => ~Issued.fuse4.valid
  <1>1. Fuse(3) \in BOOLEAN /\ Fuse(4) \in BOOLEAN /\ Fuse(5) \in BOOLEAN
    BY DEF Fuse
  <1>2. Fuse(3) \/ Fuse(5) => (Fuse(3) \/ Fuse(5)) = TRUE
    BY <1>1
  <1>3. Fuse(4) => Fuse(4) = TRUE
    BY <1>1
  <1>4. /\ Issued.pc = IF Fuse(3) THEN Add(ifid.pc, 4) ELSE ifid.pc
        /\ Issued.rs1_data = IF Fuse(3) THEN Add(ifid.pc, ifid.instr.imm)
                              ELSE RegRead(ifid.instr.rs1)
        /\ Issued.rs2_data = RegRead(ifid.instr.rs2)
        /\ Issued.rs1 = IF Fuse(3) THEN ifid.instr.rd ELSE ifid.instr.rs1
    BY DEF Issued
  <1>5. /\ Issued.rs2 = ifid.instr.rs2 /\ Issued.instr = ifid.instr /\ Issued.ctl = IssuedControl
        /\ Issued.rd = IF Fuse(3) \/ Fuse(5) THEN ifid.next.rd ELSE ifid.instr.rd
    BY DEF Issued
  <1>6. Issued.imm = CASE Fuse(1) \/ Fuse(2) -> Add(ifid.instr.imm, ifid.next.imm)
                       [] Fuse(3) -> ifid.next.imm
                       [] OTHER -> ifid.instr.imm
    BY DEF Issued
  <1>7. Fuse(1) \/ Fuse(2) => ~Fuse(3)
    BY OneIdiom DEF Idiom
  <1>8. Issued.pend2 = [valid |-> Fuse(3) \/ Fuse(5), addr |-> ifid.instr.rd,
                        data  |-> IF Fuse(3) THEN Add(ifid.pc, ifid.instr.imm)
                                  ELSE Add(RegRead(ifid.instr.rs1),
                                           IF ifid.instr.op = "OP" THEN RegRead(ifid.instr.rs2)
                                           ELSE ifid.instr.imm)]
    BY DEF Issued
  <1>9. Issued.fuse4 = [valid |-> Fuse(4), bne |-> ifid.next.f3 % 2 = 1,
                        target |-> Add(Add(ifid.pc, 4), ifid.next.imm)]
    BY DEF Issued
  <1>10. /\ Fuse(1) \/ Fuse(2) => Issued.imm = Add(ifid.instr.imm, ifid.next.imm)
         /\ ~Fuse(1) /\ ~Fuse(2) => Issued.imm = IF Fuse(3) THEN ifid.next.imm ELSE ifid.instr.imm
    BY <1>6, <1>7
  <1>11. ASSUME Fuse(3)
         PROVE  Issued.pend2 = [valid |-> TRUE, addr |-> ifid.instr.rd,
                                data |-> Add(ifid.pc, ifid.instr.imm)]
    <2>1. (Fuse(3) \/ Fuse(5)) = TRUE
      BY <1>2, <1>11
    <2> QED BY <1>8, <1>11, <2>1, Zenon
  <1>12. ASSUME Fuse(5), ~Fuse(3)
         PROVE  Issued.pend2 = [valid |-> TRUE, addr |-> ifid.instr.rd,
                                data |-> Add(RegRead(ifid.instr.rs1),
                                             IF ifid.instr.op = "OP" THEN RegRead(ifid.instr.rs2)
                                             ELSE ifid.instr.imm)]
    <2>1. (Fuse(3) \/ Fuse(5)) = TRUE
      BY <1>2, <1>12
    <2>2. (IF Fuse(3) THEN Add(ifid.pc, ifid.instr.imm)
           ELSE Add(RegRead(ifid.instr.rs1),
                    IF ifid.instr.op = "OP" THEN RegRead(ifid.instr.rs2) ELSE ifid.instr.imm)) =
          Add(RegRead(ifid.instr.rs1),
              IF ifid.instr.op = "OP" THEN RegRead(ifid.instr.rs2) ELSE ifid.instr.imm)
      BY <1>12
    <2> QED BY <1>8, <2>1, <2>2, Zenon
  <1>13. ~Fuse(3) /\ ~Fuse(5) => ~Issued.pend2.valid
    BY IssuedPend2
  <1>14. ASSUME Fuse(4)
         PROVE  Issued.fuse4 = [valid |-> TRUE, bne |-> ifid.next.f3 % 2 = 1,
                                target |-> Add(Add(ifid.pc, 4), ifid.next.imm)]
    <2>1. Fuse(4) = TRUE
      BY <1>3, <1>14
    <2> QED BY <1>9, <2>1, Zenon
  <1>15. ~Fuse(4) => ~Issued.fuse4.valid
    BY <1>9
  <1> QED BY <1>4, <1>5, <1>10, <1>11, <1>12, <1>13, <1>14, <1>15

(* An operand no older instruction writes comes from ID.                   *)
LEMMA OperandFromId ==
  ASSUME ClockEdge, ~ClearEx, ~MuldivActive
  PROVE  /\ ~InFlight(Issued.rs1) => FwdA' = Issued.rs1_data
         /\ ~InFlight(Issued.rs2) => FwdB' = Issued.rs2_data
  <1>1. idex' = Issued
    BY DEF ClockEdge, NextIdEx
  <1>2. /\ exmem'.reg_write = idex.ctl.reg_write /\ exmem'.rd = idex.rd
        /\ memwb'.reg_write = exmem.reg_write /\ memwb'.rd = exmem.rd
    BY DEF ClockEdge, NextExMem, NextMemWb
  <1> QED BY <1>1, <1>2 DEF FwdA, FwdB, Forwarded, ForwardSelect, InFlight

(* The address of idiom 5 is computed in EX as it was in ID.               *)
LEMMA IndexedAddress ==
  ASSUME ClockEdge, ~ClearEx, ~MuldivActive, Fuse(5), ~Fuse(3)
  PROVE  AluResult' = Add(RegRead(ifid.instr.rs1),
                          IF ifid.instr.op = "OP" THEN RegRead(ifid.instr.rs2)
                          ELSE ifid.instr.imm)
  <1>1. idex' = Issued
    BY DEF ClockEdge, NextIdEx
  <1>2. /\ ifid.instr.op = "OPIMM" \/ (ifid.instr.op = "OP" /\ ifid.instr.f7 = 0)
        /\ ifid.instr.f3 = 0
    BY DEF Fuse, Matches, Pattern5
  <1>3. /\ ~InFlight(ifid.instr.rs1)
        /\ ifid.instr.op = "OP" => ~InFlight(ifid.instr.rs2)
    BY DEF Fuse, HazardClear
  <1>4. ~Fuse(1) /\ ~Fuse(2)
    BY OneIdiom DEF Idiom
  <1>5. /\ Issued.rs1 = ifid.instr.rs1 /\ Issued.rs1_data = RegRead(ifid.instr.rs1)
        /\ Issued.rs2 = ifid.instr.rs2 /\ Issued.rs2_data = RegRead(ifid.instr.rs2)
        /\ Issued.imm = ifid.instr.imm /\ Issued.ctl = IssuedControl
    BY <1>4, IssuedFields
  <1>6. /\ IssuedControl.alu_op = "ADD" /\ ~IssuedControl.src_a_pc
        /\ IssuedControl.src_b_imm <=> ifid.instr.op = "OPIMM"
    <2> DEFINE d == Decode(ifid.instr)
    <2>0. AluFunction(ifid.instr.op, ifid.instr.f3, ifid.instr.f7) = "ADD"
      <3>1. ifid.instr.op = "OP" => (ifid.instr.f7 \div 32) % 2 = 0
        BY <1>2
      <3> QED BY <1>2, <3>1 DEF AluFunction
    <2>1. /\ d.alu_op = "ADD" /\ ~d.src_a_pc /\ (d.src_b_imm <=> ifid.instr.op = "OPIMM")
          /\ {"alu_op", "src_a_pc", "src_b_imm"} \subseteq DOMAIN d
      <3>1. d.alu_op = IF ifid.instr.op \in {"OP", "OPIMM"}
                          /\ ~(ifid.instr.op = "OP" /\ ifid.instr.f7 = 1)
                       THEN AluFunction(ifid.instr.op, ifid.instr.f3, ifid.instr.f7) ELSE "ADD"
        BY DEF Decode
      <3>2. d.alu_op = "ADD"
        BY <2>0, <3>1
      <3>3. /\ d.src_a_pc = (ifid.instr.op = "AUIPC")
            /\ d.src_b_imm = (ifid.instr.op \in {"OPIMM", "LOAD", "STORE", "JALR", "AUIPC"})
            /\ {"alu_op", "src_a_pc", "src_b_imm"} \subseteq DOMAIN d
        BY DEF Decode
      <3> HIDE DEF d
      <3> QED BY <1>2, <3>2, <3>3
    <2>2. IssuedControl = [d EXCEPT !.mem_read = TRUE, !.mem_width = "word", !.result_src = "mem"]
      BY DEF IssuedControl
    <2> HIDE DEF d
    <2> QED BY <2>1, <2>2
  <1>7. FwdA' = RegRead(ifid.instr.rs1)
    BY <1>3, <1>5, OperandFromId
  <1>8. ifid.instr.op = "OP" => FwdB' = RegRead(ifid.instr.rs2)
    BY <1>3, <1>5, OperandFromId
  <1>9. AluResult' = Alu("ADD", FwdA', IF ifid.instr.op = "OPIMM" THEN ifid.instr.imm ELSE FwdB')
    BY <1>1, <1>5, <1>6 DEF AluResult
  <1>10. Alu("ADD", FwdA', IF ifid.instr.op = "OPIMM" THEN ifid.instr.imm ELSE FwdB') =
           Add(FwdA', IF ifid.instr.op = "OPIMM" THEN ifid.instr.imm ELSE FwdB')
    BY DEF Alu
  <1> QED BY <1>2, <1>7, <1>8, <1>9, <1>10

(* What is issued from a real slot stands for the oldest instructions of   *)
(* the front end.                                                          *)
LEMMA IssueHolds ==
  ASSUME FrontInv, FreezeInv, ClockEdge, TargetsAligned, ~ClearEx, ~MuldivActive
  PROVE  /\ ExHolds'
         /\ ExReal' <=> IfReal
         /\ IfReal => ExPc' = ifid.pc
  <1>1. idex' = Issued
    BY DEF ClockEdge, NextIdEx
  <1>2. ~Redirect /\ ~StallFront
    BY IssueImpliesNoStall DEF ClearEx, FlushEx
  <1>3. /\ imem \in Programs /\ imem' = imem /\ ifid.pc \in Word
    BY DEF FreezeInv, DataInv, TypeOK, ClockEdge
  <1>4. idex'.instr = ifid.instr /\ idex'.ctl = IssuedControl
        /\ idex'.pc = IF Fuse(3) THEN Add(ifid.pc, 4) ELSE ifid.pc
    BY <1>1, IssuedFields
  <1>5. ExIdiom3' <=> Fuse(3)
    BY <1>1, <1>4, PairControl, IssuedPend2 DEF ExIdiom3
  <1>6. ExPc' = ifid.pc
    <2>1. ExPc' = IF ExIdiom3' THEN Sub(idex'.pc, 4) ELSE idex'.pc
      BY DEF ExPc, ExIdiom3
    <2> QED BY <1>3, <1>4, <1>5, <2>1, StepBack
  <1>7. CASE ~IfReal
    <2>1. ifid.instr = NOP /\ ifid.pc \in {0, MemBase}
      BY <1>7 DEF IfReal, IsReal
    <2>2. \A k \in 1 .. 5 : ~Fuse(k)
      BY <1>7, NopsDoNotFuse DEF Idiom
    <2>3. ~Fuse(3) /\ ~Fuse(4) /\ ~Fuse(5)
      BY <2>2
    <2>4. idex'.rd = 0 /\ ~idex'.pend2.valid /\ ~idex'.fuse4.valid
      BY <1>1, <2>1, <2>3, IssuedFields DEF NOP
    <2>5. idex'.ctl = Decode(NOP)
      BY <1>4, <2>1, <2>3 DEF IssuedControl
    <2>6. ~ExReal'
      BY <1>4, <2>1, <2>3 DEF ExReal, IsReal
    <2> QED BY <1>7, <2>4, <2>5, <2>6 DEF ExHolds, ExEmpty
  <1>8. CASE IfReal
    <2>1. /\ ifid.instr = At(ifid.pc) /\ ifid.next = At(Add(ifid.pc, 4))
          /\ MemLane(ifid.pc) = 0
      BY <1>8 DEF FrontInv
    <2>2. FrontPc' = IF AnyFuse THEN Add(Add(ifid.pc, 4), 4) ELSE Add(ifid.pc, 4)
      BY <1>2, <1>8, FrontMoves
    <2>3. At(ExPc)' = ifid.instr /\ ExNext' = ifid.next
      BY <1>3, <1>6, <2>1 DEF At, ExNext
    <2>4. ExReal'
      <3>1. CASE Fuse(3)
        <4>1. ifid.instr # NOP
          BY <3>1 DEF Fuse, Matches, Pattern3, NOP
        <4> QED BY <1>4, <4>1 DEF ExReal, IsReal
      <3>2. CASE ~Fuse(3)
        BY <1>4, <1>8, <3>2 DEF ExReal, IfReal, IsReal
      <3> QED BY <3>1, <3>2
    <2>5. ASSUME NEW k \in Idiom, Fuse(k)
          PROVE  ExPair' /\ Matches(k, idex'.instr, ExNext')
      <3>1. AnyFuse /\ FUSION_EN /\ Matches(k, ifid.instr, ifid.next)
        BY <2>5 DEF AnyFuse, Fuse
      <3>2. ExPair'
        BY <1>4, <1>6, <2>1, <2>2, <2>3, <3>1 DEF ExPair
      <3> QED BY <1>4, <2>3, <3>1, <3>2
    <2>6. CASE Fuse(1) \/ Fuse(2)
      <3>1. ~Fuse(3) /\ ~Fuse(4) /\ ~Fuse(5)
        BY <2>6, OneIdiom DEF Idiom
      <3>2. /\ ExPair' /\ (Pattern1(idex'.instr, ExNext') \/ Pattern2(idex'.instr, ExNext'))
        BY <2>5, <2>6 DEF Idiom, Matches
      <3>3. /\ idex'.imm = Add(ifid.instr.imm, ifid.next.imm) /\ idex'.rd = ifid.instr.rd
            /\ ~idex'.pend2.valid /\ ~idex'.fuse4.valid
        BY <1>1, <2>6, <3>1, IssuedFields
      <3>4. idex'.ctl = Decode(ifid.instr)
        BY <1>4, <3>1 DEF IssuedControl
      <3>5. ExAddi'
        BY <1>4, <1>6, <2>3, <3>1, <3>2, <3>3, <3>4 DEF ExAddi
      <3> QED BY <1>6, <1>8, <2>4, <3>5 DEF ExHolds
    <2>7. CASE Fuse(3)
      <3>1. ~Fuse(1) /\ ~Fuse(2) /\ ~Fuse(4) /\ ~Fuse(5)
        BY <2>7, OneIdiom DEF Idiom
      <3>2. ExPair' /\ Pattern3(idex'.instr, ExNext')
        BY <2>5, <2>7 DEF Idiom, Matches
      <3>3. /\ idex'.imm = ifid.next.imm /\ idex'.rd = ifid.next.rd
            /\ idex'.pend2 = [valid |-> TRUE, addr |-> ifid.instr.rd,
                              data |-> Add(ifid.pc, ifid.instr.imm)]
            /\ ~idex'.fuse4.valid
            /\ Issued.rs1 = ifid.instr.rd /\ Issued.rs1_data = Add(ifid.pc, ifid.instr.imm)
        BY <1>1, <2>7, <3>1, IssuedFields
      <3>4. idex'.ctl = [Decode(ifid.instr) EXCEPT !.reg_write = TRUE, !.result_src = "pc4",
                                                   !.is_jalr = TRUE]
        BY <1>4, <2>7 DEF IssuedControl
      <3>5. FwdA' = Add(ifid.pc, ifid.instr.imm)
        <4>1. ~InFlight(ifid.instr.rd)
          BY <2>7 DEF Fuse, HazardClear
        <4> QED BY <3>3, <4>1, OperandFromId
      <3>6. ExCall'
        BY <1>4, <1>6, <2>3, <2>7, <3>2, <3>3, <3>4, <3>5 DEF ExCall
      <3> QED BY <1>6, <1>8, <2>4, <3>6 DEF ExHolds
    <2>8. CASE Fuse(4)
      <3>1. ~Fuse(1) /\ ~Fuse(2) /\ ~Fuse(3) /\ ~Fuse(5)
        BY <2>8, OneIdiom DEF Idiom
      <3>2. ExPair' /\ Pattern4(idex'.instr, ExNext')
        BY <2>5, <2>8 DEF Idiom, Matches
      <3>3. /\ idex'.imm = ifid.instr.imm /\ idex'.rd = ifid.instr.rd
            /\ idex'.rs1 = ifid.instr.rs1 /\ idex'.rs2 = ifid.instr.rs2
            /\ ~idex'.pend2.valid
            /\ idex'.fuse4 = [valid |-> TRUE, bne |-> ifid.next.f3 % 2 = 1,
                              target |-> Add(Add(ifid.pc, 4), ifid.next.imm)]
        BY <1>1, <2>8, <3>1, IssuedFields
      <3>4. idex'.ctl = Decode(ifid.instr)
        BY <1>4, <3>1 DEF IssuedControl
      <3>5. ExCompare'
        BY <1>4, <1>6, <2>3, <3>1, <3>2, <3>3, <3>4 DEF ExCompare
      <3> QED BY <1>6, <1>8, <2>4, <3>5 DEF ExHolds
    <2>9. CASE Fuse(5)
      <3>1. ~Fuse(1) /\ ~Fuse(2) /\ ~Fuse(3) /\ ~Fuse(4)
        BY <2>9, OneIdiom DEF Idiom
      <3>2. ExPair' /\ Pattern5(idex'.instr, ExNext')
        BY <2>5, <2>9 DEF Idiom, Matches
      <3>3. /\ idex'.imm = ifid.instr.imm /\ idex'.rd = ifid.next.rd
            /\ idex'.rs1 = ifid.instr.rs1 /\ idex'.rs2 = ifid.instr.rs2
            /\ ~idex'.fuse4.valid
        BY <1>1, <2>9, <3>1, IssuedFields
      <3>4. idex'.pend2 = [valid |-> TRUE, addr |-> ifid.instr.rd, data |-> AluResult']
        BY <1>1, <2>9, <3>1, IssuedFields, IndexedAddress
      <3>5. idex'.ctl = [Decode(ifid.instr) EXCEPT !.mem_read = TRUE, !.mem_width = "word",
                                                   !.result_src = "mem"]
        BY <1>4, <2>9, <3>1 DEF IssuedControl
      <3>6. ExIndexed'
        BY <1>4, <1>6, <2>3, <3>1, <3>2, <3>3, <3>4, <3>5 DEF ExIndexed
      <3> QED BY <1>6, <1>8, <2>4, <3>6 DEF ExHolds
    <2>10. CASE ~Fuse(1) /\ ~Fuse(2) /\ ~Fuse(3) /\ ~Fuse(4) /\ ~Fuse(5)
      <3>1. ~AnyFuse
        <4>1. \A k \in Idiom : k = 1 \/ k = 2 \/ k = 3 \/ k = 4 \/ k = 5
          BY DEF Idiom
        <4> QED BY <2>10, <4>1 DEF AnyFuse
      <3>2. /\ idex'.imm = ifid.instr.imm /\ idex'.rd = ifid.instr.rd
            /\ idex'.rs1 = ifid.instr.rs1 /\ idex'.rs2 = ifid.instr.rs2
            /\ ~idex'.pend2.valid /\ ~idex'.fuse4.valid
        BY <1>1, <2>10, IssuedFields
      <3>3. idex'.ctl = Decode(ifid.instr)
        BY <1>4, <2>10 DEF IssuedControl
      <3>4. ExSingle'
        BY <1>4, <1>6, <2>1, <2>2, <2>3, <2>10, <3>1, <3>2, <3>3 DEF ExSingle
      <3> QED BY <1>6, <1>8, <2>4, <3>4 DEF ExHolds
    <2> QED BY <2>6, <2>7, <2>8, <2>9, <2>10
  <1> QED BY <1>7, <1>8

(* The program counter a program sees.                                     *)
LEMMA OldestPc == AbsPc = IF ExReal THEN ExPc ELSE FrontPc
  BY DEF AbsPc, FrontPc, IfReal, FetchReal

(* A slot without an instruction does nothing.                             *)
LEMMA EmptyIsHarmless ==
  ASSUME ExEmpty
  PROVE  /\ ~Redirect /\ ~TrapTaken
         /\ ~idex.ctl.mem_write /\ ~idex.ctl.is_csr /\ ~idex.ctl.is_muldiv
  <1>1. CASE idex.ctl = NoControl
    BY <1>1 DEF ExEmpty, NoControl, Redirect, Fuse4Taken, TrapTaken
  <1>2. CASE idex.ctl = Decode(NOP)
    <2>1. /\ ~Decode(NOP).is_branch /\ ~Decode(NOP).is_jal /\ ~Decode(NOP).is_jalr
          /\ ~Decode(NOP).illegal /\ ~Decode(NOP).mem_write /\ ~Decode(NOP).is_csr
          /\ ~Decode(NOP).is_muldiv
      BY DEF Decode, NOP, IsCsr
    <2> QED BY <1>2, <2>1 DEF ExEmpty, Redirect, Fuse4Taken, TrapTaken
  <1> QED BY <1>1, <1>2 DEF ExEmpty

(* What is known of the stream of instructions.                            *)
StreamInv == FrontInv /\ ExHolds

(* The program starts at a word boundary.                                  *)
LEMMA BaseAligned == MemLane(MemBase) = 0
  <1>1. MemBase \in Nat
    BY SmallWords, MachineAssumption
  <1>2. MemBase - MemBase = 0
    BY <1>1
  <1>3. Sub(MemBase, MemBase) = 0
    BY <1>2, WordHalves DEF Sub
  <1> QED BY <1>3 DEF MemLane

(* After reset the pipeline is empty.                                      *)
LEMMA InitStream == Init => StreamInv
  <1> SUFFICES ASSUME Init PROVE StreamInv
    OBVIOUS
  <1>1. fetch = FetchBubble /\ ifid = IfIdBubble /\ idex = IdExBubble /\ pc = MemBase
    BY DEF Init
  <1>3. FrontInv
    BY <1>1, BaseAligned DEF FrontInv, FetchReal, IfReal, IsReal, FetchBubble, IfIdBubble
  <1>4. ExHolds
    BY <1>1 DEF ExHolds, ExReal, IsReal, ExEmpty, IdExBubble, NoPend2, NoFuse4
  <1> QED BY <1>3, <1>4 DEF StreamInv

(* A frozen edge keeps the operation in EX and the program counter.        *)
LEMMA FrozenStream ==
  ASSUME StreamInv, FreezeInv, ClockEdge, TargetsAligned, MuldivActive
  PROVE  StreamInv' /\ AbsPc' = AbsPc
  <1>1. ~Redirect /\ ~ClearEx /\ StallFront
    BY MuldivDoesNotRedirect DEF StallFront, StallPcIfId
  <1>2. FrontInv' /\ FrontPc' = FrontPc
    BY <1>1, FrontMoves DEF StreamInv
  <1>3. idex' = idex /\ FwdA' = FwdA /\ FwdB' = FwdB
    BY FreezeHoldsRequest
  <1>4. AluResult' = AluResult
    BY <1>3 DEF AluResult
  <1>5. imem' = imem
    BY DEF ClockEdge
  <1>6. ExPc' = ExPc /\ (ExReal' <=> ExReal)
    BY <1>3 DEF ExPc, ExReal
  <1>7. At(ExPc)' = At(ExPc) /\ ExNext' = ExNext
    BY <1>5, <1>6 DEF At, ExNext
  <1>8. ExPair' <=> ExPair
    BY <1>2, <1>3, <1>6, <1>7 DEF ExPair
  <1>9. /\ ExSingle => ExSingle'
        /\ ExAddi => ExAddi'
    BY <1>2, <1>3, <1>6, <1>7, <1>8 DEF ExSingle, ExAddi
  <1>10. /\ ExCall => ExCall'
         /\ ExCompare => ExCompare'
    BY <1>3, <1>6, <1>7, <1>8 DEF ExCall, ExCompare
  <1>11. /\ ExIndexed => ExIndexed'
         /\ ExEmpty => ExEmpty'
    BY <1>3, <1>4, <1>6, <1>7, <1>8 DEF ExIndexed, ExEmpty
  <1>12. ExHolds'
    BY <1>6, <1>9, <1>10, <1>11 DEF StreamInv, ExHolds
  <1>13. AbsPc' = IF ExReal' THEN ExPc' ELSE FrontPc'
    BY OldestPc DEF AbsPc, FrontPc, IfReal, FetchReal
  <1> QED BY <1>2, <1>6, <1>12, <1>13, OldestPc DEF StreamInv

(* Any other edge moves the program counter past what was in EX.           *)
LEMMA MovingStream ==
  ASSUME StreamInv, FreezeInv, ClockEdge, TargetsAligned, ~MuldivActive
  PROVE  StreamInv' /\ AbsPc' = IF Redirect THEN RedirectTarget ELSE FrontPc
  <1>1. FrontInv'
    BY FrontMoves DEF StreamInv
  <1>2. AbsPc' = IF ExReal' THEN ExPc' ELSE FrontPc'
    BY OldestPc DEF AbsPc, FrontPc, IfReal, FetchReal
  <1>3. CASE ClearEx
    <2>1. idex' = IdExBubble
      BY <1>3 DEF ClockEdge, NextIdEx
    <2>2. ~ExReal' /\ ExHolds'
      BY <2>1 DEF ExHolds, ExReal, IsReal, ExEmpty, IdExBubble, NoPend2, NoFuse4
    <2>3. ~Redirect => StallFront
      BY <1>3 DEF ClearEx, FlushEx, StallFront, StallPcIfId
    <2>4. FrontPc' = IF Redirect THEN RedirectTarget ELSE FrontPc
      BY <2>3, FrontMoves DEF StreamInv
    <2> QED BY <1>1, <1>2, <2>2, <2>4 DEF StreamInv
  <1>4. CASE ~ClearEx
    <2>1. ~Redirect /\ ~StallFront
      BY <1>4, IssueImpliesNoStall DEF ClearEx, FlushEx
    <2>2. ExHolds' /\ (ExReal' <=> IfReal) /\ (IfReal => ExPc' = ifid.pc)
      BY <1>4, IssueHolds DEF StreamInv
    <2>3. ~IfReal => FrontPc' = FrontPc
      BY <2>1, FrontMoves DEF StreamInv
    <2> QED BY <1>1, <1>2, <2>1, <2>2, <2>3 DEF StreamInv, FrontPc
  <1> QED BY <1>3, <1>4

(* The oldest instruction that has not been executed is at a word boundary *)
(* of the address space.                                                   *)
LEMMA OldestAligned ==
  ASSUME StreamInv, FreezeInv
  PROVE  MemLane(AbsPc) = 0 /\ AbsPc \in Word
  <1>1. MemLane(AbsPc) = 0
    BY OldestPc DEF StreamInv, FrontInv, FrontPc, ExHolds, ExSingle, ExAddi, ExCall, ExCompare,
                    ExIndexed, ExPair
  <1>2. /\ ifid.pc \in Word /\ fetch.pc \in Word /\ pc \in Word /\ idex.pc \in Word
    BY DEF FreezeInv, DataInv, TypeOK
  <1>3. ExPc \in Word
    BY <1>2, AddType, WideWord DEF ExPc
  <1> QED BY <1>1, <1>2, <1>3, OldestPc DEF FrontPc

-----------------------------------------------------------------------------
(* The single-cycle machine has the same operators as the pipelined core:  *)
(* SC!Op is Op of the instance of the module SingleCycle.                  *)

(* Words.                                                                  *)
LEMMA SameWords ==
  /\ SC!Pow2 = Pow2 /\ SC!WordMod = WordMod /\ SC!HalfMod = HalfMod
  /\ \A a, b : SC!Add(a, b) = Add(a, b) /\ SC!Sub(a, b) = Sub(a, b)
  /\ \A a : SC!Signed(a) = Signed(a)
  <1>1. SC!Pow2 = Pow2
    BY DEF SC!Pow2, Pow2
  <1>2. SC!WordMod = WordMod /\ SC!HalfMod = HalfMod
    BY <1>1 DEF SC!WordMod, WordMod, SC!HalfMod, HalfMod
  <1>3. \A a, b : SC!Add(a, b) = Add(a, b) /\ SC!Sub(a, b) = Sub(a, b)
    BY <1>2 DEF SC!Add, Add, SC!Sub, Sub
  <1>4. \A a : SC!Signed(a) = Signed(a)
    BY <1>2 DEF SC!Signed, Signed
  <1> QED BY <1>1, <1>2, <1>3, <1>4

(* The bitwise operators.                                                  *)
LEMMA SameBits ==
  \A a, b : /\ SC!And(a, b) = And(a, b) /\ SC!Or(a, b) = Or(a, b) /\ SC!Xor(a, b) = Xor(a, b)
            /\ SC!AndNot(a, b) = AndNot(a, b)
            /\ SC!ShiftL(a, b) = ShiftL(a, b) /\ SC!ShiftR(a, b) = ShiftR(a, b)
            /\ SC!ShiftRA(a, b) = ShiftRA(a, b)
  <1>1. \A S : SC!FromBits(S) = FromBits(S)
    BY SameWords DEF SC!FromBits, FromBits
  <1>2. \A a : SC!Bits(a) = Bits(a)
    BY SameWords DEF SC!Bits, Bits
  <1> TAKE a, b
  <1>3. SC!And(a, b) = And(a, b)
    BY <1>1, <1>2 DEF SC!And, And
  <1>4. SC!Or(a, b) = Or(a, b)
    BY <1>1, <1>2 DEF SC!Or, Or
  <1>5. SC!Xor(a, b) = Xor(a, b)
    <2>1. \A S, T : SC!SymDiff(S, T) = SymDiff(S, T)
      BY DEF SC!SymDiff, SymDiff
    <2> QED BY <1>1, <1>2, <2>1 DEF SC!Xor, Xor
  <1>6. SC!AndNot(a, b) = AndNot(a, b)
    BY <1>1, <1>2 DEF SC!AndNot, AndNot
  <1>7. SC!ShiftL(a, b) = ShiftL(a, b)
    BY SameWords DEF SC!ShiftL, ShiftL
  <1>8. SC!ShiftR(a, b) = ShiftR(a, b)
    BY SameWords DEF SC!ShiftR, ShiftR
  <1>9. SC!ShiftRA(a, b) = ShiftRA(a, b)
    BY SameWords DEF SC!ShiftRA, ShiftRA
  <1> QED BY <1>3, <1>4, <1>5, <1>6, <1>7, <1>8, <1>9

(* The decoder, the ALU and the branch comparator.                         *)
LEMMA SameIsa ==
  /\ SC!NOP = NOP
  /\ \A i : SC!IsCsr(i) = IsCsr(i) /\ SC!Decode(i) = Decode(i)
  /\ \A op, a, b : SC!Alu(op, a, b) = Alu(op, a, b)
  /\ \A f3, a, b : SC!BranchTaken(f3, a, b) = BranchTaken(f3, a, b)
  /\ \A f3, old, a : SC!CsrWriteValue(f3, old, a) = CsrWriteValue(f3, old, a)
  /\ \A a, imm : SC!JalrTarget(a, imm) = JalrTarget(a, imm)
  <1>1. \A i : SC!IsCsr(i) = IsCsr(i)
    BY DEF SC!IsCsr, IsCsr
  <1>2. \A i : SC!Decode(i) = Decode(i)
    <2>1. \A op, f3, f7 : SC!AluFunction(op, f3, f7) = AluFunction(op, f3, f7)
      BY DEF SC!AluFunction, AluFunction
    <2>2. \A f3 : SC!MemWidth(f3) = MemWidth(f3)
      BY DEF SC!MemWidth, MemWidth
    <2> QED BY <1>1, <2>1, <2>2 DEF SC!Decode, Decode
  <1>3. \A op, a, b : SC!Alu(op, a, b) = Alu(op, a, b)
    BY SameWords, SameBits DEF SC!Alu, Alu
  <1>4. \A f3, a, b : SC!BranchTaken(f3, a, b) = BranchTaken(f3, a, b)
    BY SameWords DEF SC!BranchTaken, BranchTaken
  <1>5. \A f3, old, a : SC!CsrWriteValue(f3, old, a) = CsrWriteValue(f3, old, a)
    BY SameBits DEF SC!CsrWriteValue, CsrWriteValue, SC!CsrOp, CsrOp
  <1>6. \A a, imm : SC!JalrTarget(a, imm) = JalrTarget(a, imm)
    BY SameWords DEF SC!JalrTarget, JalrTarget
  <1> QED BY <1>1, <1>2, <1>3, <1>4, <1>5, <1>6 DEF SC!NOP, NOP

(* The multiply/divide unit.                                               *)
LEMMA SameMuldiv == \A op, a, b : SC!MuldivResult(op, a, b) = MuldivResult(op, a, b)
  <1>1. SC!AllOnes = AllOnes /\ SC!MinInt = MinInt
    BY SameWords DEF SC!AllOnes, AllOnes, SC!MinInt, MinInt
  <1>2. \A x, y : SC!Quot(x, y) = Quot(x, y)
    BY DEF SC!Quot, Quot, SC!Sign, Sign, SC!Abs, Abs
  <1>3. \A x, y : SC!Rem(x, y) = Rem(x, y)
    BY <1>2 DEF SC!Rem, Rem
  <1> TAKE op, a, b
  <1> QED BY <1>1, <1>2, <1>3, SameWords DEF SC!MuldivResult, MuldivResult

(* Registers, CSRs and the fusible pairs.                                  *)
LEMMA SameMachine ==
  /\ SC!TrapCsr = TrapCsr /\ SC!CsrReset = CsrReset
  /\ \A c, a, x : SC!CsrWrite(c, a, x) = CsrWrite(c, a, x)
  /\ \A c, at, i : SC!CsrTrap(c, at, i) = CsrTrap(c, at, i)
  /\ \A r, we, rd, x : SC!RegWrite(r, we, rd, x) = RegWrite(r, we, rd, x)
  /\ SC!Idiom = Idiom
  /\ \A k, i, n : SC!Matches(k, i, n) <=> Matches(k, i, n)
  <1>1. SC!TrapCsr = TrapCsr /\ SC!CsrReset = CsrReset
    BY DEF SC!TrapCsr, TrapCsr, SC!CsrReset, CsrReset, SC!CounterCsr, CounterCsr
  <1>2. /\ \A c, a, x : SC!CsrWrite(c, a, x) = CsrWrite(c, a, x)
        /\ \A c, at, i : SC!CsrTrap(c, at, i) = CsrTrap(c, at, i)
    BY <1>1 DEF SC!CsrWrite, CsrWrite, SC!CsrTrap, CsrTrap
  <1>3. \A r, we, rd, x : SC!RegWrite(r, we, rd, x) = RegWrite(r, we, rd, x)
    BY DEF SC!RegWrite, RegWrite
  <1>4. \A k, i, n : SC!Matches(k, i, n) <=> Matches(k, i, n)
    BY DEF SC!Matches, Matches, SC!Pattern1, Pattern1, SC!Pattern2, Pattern2, SC!Pattern3, Pattern3,
           SC!Pattern4, Pattern4, SC!Pattern5, Pattern5, SC!AddiOnto, AddiOnto
  <1> QED BY <1>1, <1>2, <1>3, <1>4 DEF SC!Idiom, Idiom

(* The memories and the UART.                                              *)
LEMMA SameMemory ==
  /\ \A a : SC!MemIndex(a) = MemIndex(a) /\ SC!MemLane(a) = MemLane(a)
  /\ \A m : SC!BytesOf(m) = BytesOf(m)
  /\ \A m, off, width, unsigned :
       SC!ReadBytes(m, off, width, unsigned) = ReadBytes(m, off, width, unsigned)
  /\ \A m, off, width, x : SC!WriteBytes(m, off, width, x) = WriteBytes(m, off, width, x)
  /\ SC!UartInit = UartInit
  /\ \A u, x : SC!UartSend(u, x) = UartSend(u, x)
  <1>1. \A a : SC!MemIndex(a) = MemIndex(a) /\ SC!MemLane(a) = MemLane(a)
    BY SameWords DEF SC!MemIndex, MemIndex, SC!MemLane, MemLane
  <1>2. SC!ByteMod = ByteMod /\ SC!HalfwordMod = HalfwordMod /\ SC!Lane = Lane
    BY SameWords DEF SC!ByteMod, ByteMod, SC!HalfwordMod, HalfwordMod, SC!Lane, Lane
  <1>3. \A k : SC!LaneMod(k) = LaneMod(k)
    BY SameWords DEF SC!LaneMod, LaneMod
  <1>4. \A x, k : SC!ByteOf(x, k) = ByteOf(x, k)
    BY <1>2, <1>3 DEF SC!ByteOf, ByteOf
  <1>5. \A m : SC!BytesOf(m) = BytesOf(m)
    BY <1>4 DEF SC!BytesOf, BytesOf
  <1>6. \A b : SC!WordOf(b) = WordOf(b)
    BY <1>3 DEF SC!WordOf, WordOf
  <1>7. \A width, x : SC!Truncate(width, x) = Truncate(width, x)
    BY <1>2 DEF SC!Truncate, Truncate
  <1>8. \A x, m : SC!SignExtend(x, m) = SignExtend(x, m)
    BY SameWords DEF SC!SignExtend, SignExtend
  <1>9. \A width, unsigned, x : SC!Extend(width, unsigned, x) = Extend(width, unsigned, x)
    BY <1>2, <1>7, <1>8 DEF SC!Extend, Extend
  <1>0. \A S : SC!Cardinality(S) = Cardinality(S)
    BY DEF SC!Cardinality, Cardinality
  <1>10. \A m, off, width, unsigned :
           SC!ReadBytes(m, off, width, unsigned) = ReadBytes(m, off, width, unsigned)
    BY <1>0, <1>2, <1>6, <1>9 DEF SC!ReadBytes, ReadBytes
  <1>11. \A m, off, width, x : SC!WriteBytes(m, off, width, x) = WriteBytes(m, off, width, x)
    BY <1>0, <1>4 DEF SC!WriteBytes, WriteBytes
  <1>12. SC!UartInit = UartInit /\ \A u, x : SC!UartSend(u, x) = UartSend(u, x)
    BY <1>2 DEF SC!UartInit, UartInit, SC!UartSend, UartSend
  <1> QED BY <1>1, <1>5, <1>10, <1>11, <1>12

-----------------------------------------------------------------------------
(* What the single-cycle machine does with an instruction, by the          *)
(* operators of the pipelined core.                                        *)

(* The second operand of the ALU, and its result, in an architectural      *)
(* state.                                                                  *)
ArchAlu(s, i) ==
  Alu(Decode(i).alu_op, IF Decode(i).src_a_pc THEN s.pc ELSE s.regs[i.rs1],
                        IF Decode(i).src_b_imm THEN i.imm ELSE s.regs[i.rs2])

(* The value of a CSR in an architectural state.                           *)
ArchCsr(s, a) == IF a \in TrapCsr THEN s.csr[a] ELSE 0

(* The result of an instruction.                                           *)
LEMMA RdDataIs ==
  ASSUME NEW s, NEW i
  PROVE  SC!RdData(s, i) =
           CASE Decode(i).is_csr -> ArchCsr(s, i.csr)
             [] Decode(i).is_muldiv -> MuldivResult(i.f3, s.regs[i.rs1], s.regs[i.rs2])
             [] Decode(i).result_src = "mem" ->
                  ReadBytes(s.mem, Sub(ArchAlu(s, i), MemBase), Decode(i).mem_width,
                            Decode(i).mem_unsigned)
             [] Decode(i).result_src = "pc4" -> Add(s.pc, 4)
             [] Decode(i).result_src = "imm" -> i.imm
             [] OTHER -> ArchAlu(s, i)
  <1>1. SC!ArchCsrRead(s, i.csr) = ArchCsr(s, i.csr)
    BY SameMachine DEF SC!ArchCsrRead, ArchCsr
  <1>2. SC!Decode(i) = Decode(i)
    BY SameIsa
  <1>3. SC!Alu(Decode(i).alu_op, IF Decode(i).src_a_pc THEN s.pc ELSE s.regs[i.rs1],
                                 IF Decode(i).src_b_imm THEN i.imm ELSE s.regs[i.rs2]) = ArchAlu(s, i)
    BY SameIsa DEF ArchAlu
  <1>4. SC!MuldivResult(i.f3, s.regs[i.rs1], s.regs[i.rs2]) =
          MuldivResult(i.f3, s.regs[i.rs1], s.regs[i.rs2])
    BY SameMuldiv
  <1>5. SC!Add(s.pc, 4) = Add(s.pc, 4)
    BY SameWords
  <1>6. SC!ReadBytes(s.mem, SC!Sub(ArchAlu(s, i), MemBase), Decode(i).mem_width, Decode(i).mem_unsigned)
          = ReadBytes(s.mem, Sub(ArchAlu(s, i), MemBase), Decode(i).mem_width, Decode(i).mem_unsigned)
    BY SameWords, SameMemory
  <1> QED BY <1>1, <1>2, <1>3, <1>4, <1>5, <1>6 DEF SC!RdData

(* The address of the instruction after it.                                *)
LEMMA NextPcIs ==
  ASSUME NEW s, NEW i
  PROVE  SC!NextPc(s, i) =
           CASE i.op = "JAL" -> Add(s.pc, i.imm)
             [] i.op = "JALR" -> JalrTarget(s.regs[i.rs1], i.imm)
             [] i.op = "BRANCH" /\ BranchTaken(i.f3, s.regs[i.rs1], s.regs[i.rs2]) ->
                  Add(s.pc, i.imm)
             [] OTHER -> Add(s.pc, 4)
  BY SameWords, SameIsa DEF SC!NextPc

(* An illegal instruction traps, and any other is executed.                *)
LEMMA RetireIs ==
  ASSUME NEW s, NEW i, i = At(s.pc)
  PROVE  /\ Decode(i).illegal =>
              SC!Retire(s) = [s EXCEPT !.pc = s.csr["mtvec"], !.csr = CsrTrap(s.csr, s.pc, i)]
         /\ ~Decode(i).illegal =>
              SC!Retire(s) =
                [pc   |-> SC!NextPc(s, i),
                 regs |-> RegWrite(s.regs, Decode(i).reg_write, i.rd, SC!RdData(s, i)),
                 mem  |-> IF Decode(i).mem_write /\ Add(s.regs[i.rs1], i.imm) # UartAddr
                          THEN WriteBytes(s.mem, Sub(Add(s.regs[i.rs1], i.imm), MemBase),
                                          Decode(i).mem_width, s.regs[i.rs2])
                          ELSE s.mem,
                 csr  |-> IF Decode(i).is_csr
                          THEN CsrWrite(s.csr, i.csr, CsrWriteValue(i.f3, ArchCsr(s, i.csr),
                                                                    s.regs[i.rs1]))
                          ELSE s.csr,
                 uart |-> IF Decode(i).mem_write /\ Add(s.regs[i.rs1], i.imm) = UartAddr
                          THEN UartSend(s.uart, s.regs[i.rs2]) ELSE s.uart]
  <1>1. imem[SC!MemIndex(s.pc)] = i
    BY SameMemory DEF At
  <1>2. SC!Decode(i) = Decode(i)
    BY SameIsa
  <1>3. SC!Add(s.regs[i.rs1], i.imm) = Add(s.regs[i.rs1], i.imm)
    BY SameWords
  <1>4. SC!CsrTrap(s.csr, s.pc, i) = CsrTrap(s.csr, s.pc, i)
    BY SameMachine
  <1>5. \A x : SC!RegWrite(s.regs, Decode(i).reg_write, i.rd, x) =
                 RegWrite(s.regs, Decode(i).reg_write, i.rd, x)
    BY SameMachine
  <1>6. SC!WriteBytes(s.mem, SC!Sub(Add(s.regs[i.rs1], i.imm), MemBase), Decode(i).mem_width,
                      s.regs[i.rs2]) =
          WriteBytes(s.mem, Sub(Add(s.regs[i.rs1], i.imm), MemBase), Decode(i).mem_width,
                     s.regs[i.rs2])
    BY SameWords, SameMemory
  <1>7. SC!ArchCsrRead(s, i.csr) = ArchCsr(s, i.csr)
    BY SameMachine DEF SC!ArchCsrRead, ArchCsr
  <1>8. \A x : SC!CsrWriteValue(i.f3, x, s.regs[i.rs1]) = CsrWriteValue(i.f3, x, s.regs[i.rs1])
    BY SameIsa
  <1>9. \A x : SC!CsrWrite(s.csr, i.csr, x) = CsrWrite(s.csr, i.csr, x)
    BY SameMachine
  <1>10. SC!UartSend(s.uart, s.regs[i.rs2]) = UartSend(s.uart, s.regs[i.rs2])
    BY SameMemory
  <1>11. ASSUME Decode(i).illegal
         PROVE  SC!Retire(s) = [s EXCEPT !.pc = s.csr["mtvec"], !.csr = CsrTrap(s.csr, s.pc, i)]
    <2>1. SC!Retire(s) = [s EXCEPT !.pc = s.csr["mtvec"], !.csr = SC!CsrTrap(@, s.pc, i)]
      BY <1>1, <1>2, <1>11 DEF SC!Retire
    <2> QED BY <1>4, <2>1
  <1>12. ASSUME ~Decode(i).illegal
         PROVE  SC!Retire(s) =
                [pc   |-> SC!NextPc(s, i),
                 regs |-> RegWrite(s.regs, Decode(i).reg_write, i.rd, SC!RdData(s, i)),
                 mem  |-> IF Decode(i).mem_write /\ Add(s.regs[i.rs1], i.imm) # UartAddr
                          THEN WriteBytes(s.mem, Sub(Add(s.regs[i.rs1], i.imm), MemBase),
                                          Decode(i).mem_width, s.regs[i.rs2])
                          ELSE s.mem,
                 csr  |-> IF Decode(i).is_csr
                          THEN CsrWrite(s.csr, i.csr, CsrWriteValue(i.f3, ArchCsr(s, i.csr),
                                                                    s.regs[i.rs1]))
                          ELSE s.csr,
                 uart |-> IF Decode(i).mem_write /\ Add(s.regs[i.rs1], i.imm) = UartAddr
                          THEN UartSend(s.uart, s.regs[i.rs2]) ELSE s.uart]
    BY <1>1, <1>2, <1>3, <1>5, <1>6, <1>7, <1>8, <1>9, <1>10, <1>12 DEF SC!Retire
  <1> QED BY <1>11, <1>12

(* Where the latter goes.                                                  *)
LEMMA RetirePc ==
  ASSUME NEW s, NEW i, i = At(s.pc), ~Decode(i).illegal
  PROVE  SC!Retire(s).pc = SC!NextPc(s, i)
  <1>1. imem[SC!MemIndex(s.pc)] = i
    BY SameMemory DEF At
  <1>2. SC!Decode(i) = Decode(i)
    BY SameIsa
  <1> QED BY <1>1, <1>2 DEF SC!Retire

(* An instruction that neither stores, nor traps, nor touches a CSR, nor   *)
(* branches only writes a register.                                        *)
LEMMA RetirePlain ==
  ASSUME NEW s, NEW i, i = At(s.pc), i.op \in {"LUI", "AUIPC", "OP", "OPIMM", "LOAD", "JALR", "BRANCH"}
  PROVE  SC!Retire(s) =
           [pc   |-> SC!NextPc(s, i),
            regs |-> RegWrite(s.regs, i.op # "BRANCH", i.rd, SC!RdData(s, i)),
            mem  |-> s.mem, csr |-> s.csr, uart |-> s.uart]
  <1>1. /\ ~Decode(i).illegal /\ ~Decode(i).mem_write /\ ~Decode(i).is_csr
    BY DEF Decode, IsCsr
  <1>2. Decode(i).reg_write = (i.op # "BRANCH")
    BY DEF Decode, IsCsr
  <1> QED BY <1>1, <1>2, RetireIs, Zenon

-----------------------------------------------------------------------------
(* What an operation that leaves EX does.                                  *)

(* The result of the operation in EX.                                      *)
ExResult ==
  CASE idex.ctl.is_csr -> CsrReadEx
    [] idex.ctl.is_muldiv -> MuldivBus(muldiv)
    [] idex.ctl.result_src = "mem" ->
         ReadBytes(AbsMem, Sub(AluResult, MemBase), idex.ctl.mem_width, idex.ctl.mem_unsigned)
    [] idex.ctl.result_src = "pc4" -> Add(idex.pc, 4)
    [] idex.ctl.result_src = "imm" -> idex.imm
    [] OTHER -> AluResult

(* Only the ALU's path carries a product or the value of a CSR.            *)
ResultPaths ==
  /\ idex.ctl.is_csr => idex.ctl.result_src = "alu" /\ ~idex.ctl.is_muldiv /\ ~idex.ctl.mem_write
  /\ idex.ctl.is_muldiv => idex.ctl.result_src = "alu"
  /\ idex.ctl.result_src = "mem" => idex.ctl.mem_read

(* MEM has it.                                                             *)
LEMMA ResultMovesToMem ==
  ASSUME DataInv, ClockEdge, ~MuldivActive, Aligned, ResultPaths
  PROVE  MemResult' = ExResult
  <1>1. /\ exmem'.alu_result = (IF idex.ctl.is_csr THEN CsrReadEx ELSE AluResult)
        /\ exmem'.pc4 = Add(idex.pc, 4) /\ exmem'.imm = idex.imm
        /\ exmem'.mem_width = idex.ctl.mem_width /\ exmem'.mem_unsigned = idex.ctl.mem_unsigned
        /\ exmem'.result_src = idex.ctl.result_src /\ exmem'.is_muldiv = idex.ctl.is_muldiv
    BY DEF ClockEdge, NextExMem
  <1>2. ~idex.ctl.is_csr => exmem'.muldiv_result = MuldivBus(muldiv)
    BY DEF ClockEdge, NextExMem
  <1>3. DataInv'
    BY StepData DEF Next
  <1>4. /\ idex.ctl.mem_width \in {"byte", "half", "word"} /\ idex.ctl.mem_unsigned \in BOOLEAN
        /\ idex.ctl.result_src \in {"alu", "mem", "pc4", "imm"}
    BY IdExTypes DEF DataInv, Control
  <1>5. CASE idex.ctl.result_src = "mem"
    <2>1. ~idex.ctl.is_csr /\ ~idex.ctl.is_muldiv /\ idex.ctl.mem_read
      BY <1>5 DEF ResultPaths
    <2>2. AlignedLane(idex.ctl.mem_width, MemLane(AluResult))
      BY <2>1 DEF Aligned
    <2>3. AluResult \in Word
      BY ExTypes DEF DataInv
    <2>4. dmem' \in [0 .. NW-1 -> Word]
      BY <1>3 DEF DataInv, TypeOK
    <2>5. ReadBytes(BytesOf(dmem'), Sub(AluResult, MemBase), idex.ctl.mem_width, idex.ctl.mem_unsigned)
            = LoadLanes(dmem'[MemIndex(AluResult)], idex.ctl.mem_width, idex.ctl.mem_unsigned,
                        MemLane(AluResult))
      BY <1>4, <2>2, <2>3, <2>4, LoadsAgree
    <2>6. ExResult = ReadBytes(AbsMem, Sub(AluResult, MemBase), idex.ctl.mem_width,
                               idex.ctl.mem_unsigned)
      BY <1>5, <2>1 DEF ExResult
    <2>7. MemResult' = LoadLanes(dmem'[MemIndex(exmem'.alu_result)], exmem'.mem_width,
                                 exmem'.mem_unsigned, MemLane(exmem'.alu_result))
      BY <1>1, <1>5 DEF MemResult
    <2> QED BY <1>1, <2>1, <2>5, <2>6, <2>7, MemoryDrains
  <1>6. CASE idex.ctl.result_src # "mem"
    <2>1. MemResult' = CASE exmem'.result_src = "alu" -> IF exmem'.is_muldiv THEN exmem'.muldiv_result
                                                         ELSE exmem'.alu_result
                         [] exmem'.result_src = "pc4" -> exmem'.pc4
                         [] OTHER -> exmem'.imm
      BY <1>1, <1>4, <1>6 DEF MemResult, MemForwardValue
    <2>2. CASE idex.ctl.is_csr
      BY <1>1, <2>1, <2>2 DEF ExResult, ResultPaths
    <2>3. CASE ~idex.ctl.is_csr /\ idex.ctl.is_muldiv
      BY <1>1, <1>2, <2>1, <2>3 DEF ExResult, ResultPaths
    <2>4. CASE ~idex.ctl.is_csr /\ ~idex.ctl.is_muldiv
      BY <1>1, <1>4, <1>6, <2>1, <2>4 DEF ExResult
    <2> QED BY <2>2, <2>3, <2>4
  <1> QED BY <1>5, <1>6

(* The registers after it has left EX.                                     *)
LEMMA RegistersAfterEx ==
  ASSUME RegsInv, ClockEdge, ~MuldivActive, Aligned, ResultPaths
  PROVE  AbsRegs' = PendWrite(RegWrite(AbsRegs, idex.ctl.reg_write, idex.rd, ExResult), idex.pend2)
  BY RegsDrain, ResultMovesToMem DEF RegsInv

(* The memory and the UART after it has left EX.                           *)
LEMMA MemoryAfterEx ==
  ASSUME DataInv, ClockEdge, ~MuldivActive, Aligned, ResultPaths
  PROVE  /\ AbsMem' = IF idex.ctl.mem_write /\ AluResult # UartAddr
                      THEN WriteBytes(AbsMem, Sub(AluResult, MemBase), idex.ctl.mem_width, FwdB)
                      ELSE AbsMem
         /\ AbsUart' = IF idex.ctl.mem_write /\ AluResult = UartAddr
                       THEN UartSend(AbsUart, FwdB) ELSE AbsUart
  <1>1. AbsMem = BytesOf(dmem')
    BY MemoryDrains
  <1>2. CASE ~idex.ctl.mem_write
    BY <1>1, <1>2, StoreTakesEffect
  <1>3. CASE idex.ctl.mem_write
    <2>1. exmem'.alu_result = AluResult
      BY <1>3 DEF ClockEdge, NextExMem, ResultPaths
    <2>2. AlignedLane(idex.ctl.mem_width, MemLane(AluResult))
      BY <1>3 DEF Aligned
    <2>3. AluResult \in Word /\ FwdB \in Word
      BY ExTypes, ForwardedTypes DEF DataInv
    <2>4. dmem' \in [0 .. NW-1 -> Word]
      BY StepData DEF Next, DataInv, TypeOK
    <2>5. idex.ctl.mem_width \in {"byte", "half", "word"}
      BY IdExTypes DEF DataInv, Control
    <2>6. BytesOf([dmem' EXCEPT ![MemIndex(AluResult)] =
                     StoreLanes(@, idex.ctl.mem_width, MemLane(AluResult), FwdB)]) =
            WriteBytes(BytesOf(dmem'), Sub(AluResult, MemBase), idex.ctl.mem_width, FwdB)
      BY <2>2, <2>3, <2>4, <2>5, StoresAgree
    <2> QED BY <1>1, <1>3, <2>1, <2>6, StoreTakesEffect
  <1> QED BY <1>2, <1>3

-----------------------------------------------------------------------------
(* The operation in EX retires.                                            *)

(* The parts of the architectural state.                                   *)
LEMMA ArchParts ==
  /\ AbsArch.pc = AbsPc /\ AbsArch.regs = AbsRegs /\ AbsArch.mem = AbsMem
  /\ AbsArch.csr = AbsCsr /\ AbsArch.uart = AbsUart
  BY DEF AbsArch

(* What the decoder tells apart.                                           *)
LEMMA DecodedPaths ==
  ASSUME NEW i
  PROVE  /\ Decode(i).is_csr => Decode(i).result_src = "alu" /\ ~Decode(i).is_muldiv
                                /\ ~Decode(i).mem_write /\ ~Decode(i).illegal
         /\ Decode(i).is_muldiv => Decode(i).result_src = "alu"
         /\ Decode(i).result_src = "mem" <=> Decode(i).mem_read
         /\ Decode(i).illegal => ~Decode(i).reg_write /\ ~Decode(i).mem_write /\ ~Decode(i).is_csr
                                 /\ ~Decode(i).is_branch /\ ~Decode(i).is_jal /\ ~Decode(i).is_jalr
         /\ Decode(i).is_csr <=> IsCsr(i)
         /\ Decode(i).is_branch <=> i.op = "BRANCH"
         /\ Decode(i).is_jal <=> i.op = "JAL"
         /\ Decode(i).is_jalr <=> i.op = "JALR"
         /\ Decode(i).mem_write => Decode(i).alu_op = "ADD" /\ ~Decode(i).src_a_pc
                                   /\ Decode(i).src_b_imm
  <1>1. /\ Decode(i).is_csr = IsCsr(i) /\ Decode(i).is_muldiv = (i.op = "OP" /\ i.f7 = 1)
        /\ Decode(i).mem_write = (i.op = "STORE") /\ Decode(i).mem_read = (i.op = "LOAD")
        /\ Decode(i).is_branch = (i.op = "BRANCH") /\ Decode(i).is_jal = (i.op = "JAL")
        /\ Decode(i).is_jalr = (i.op = "JALR")
        /\ Decode(i).src_a_pc = (i.op = "AUIPC")
    BY DEF Decode
  <1>2. /\ Decode(i).illegal = (\/ i.op = "CUSTOM0" /\ i.f3 > 1
                                \/ i.op = "SYSTEM" /\ ~IsCsr(i))
        /\ Decode(i).reg_write = (\/ i.op \in {"OP", "OPIMM", "LOAD", "JAL", "JALR", "LUI", "AUIPC"}
                                  \/ IsCsr(i))
        /\ Decode(i).src_b_imm = (i.op \in {"OPIMM", "LOAD", "STORE", "JALR", "AUIPC"})
        /\ Decode(i).result_src = CASE i.op = "LOAD" -> "mem"
                                    [] i.op \in {"JAL", "JALR"} -> "pc4"
                                    [] i.op = "LUI" -> "imm"
                                    [] OTHER -> "alu"
    BY DEF Decode
  <1>3. Decode(i).mem_write => Decode(i).alu_op = "ADD"
    BY DEF Decode
  <1>4. IsCsr(i) => i.op = "SYSTEM"
    BY DEF IsCsr
  <1>5. /\ Decode(i).result_src = "mem" <=> i.op = "LOAD"
        /\ i.op \in {"SYSTEM", "OP"} => Decode(i).result_src = "alu"
    BY <1>2
  <1> QED BY <1>1, <1>2, <1>3, <1>4, <1>5

(* The ALU's result is the architectural one.                              *)
LEMMA AluIsArch ==
  ASSUME RegsInv, ~ExIdiom3, ExReal, idex.pc = AbsPc, idex.ctl = Decode(idex.instr),
         idex.imm = idex.instr.imm, idex.rs1 = idex.instr.rs1, idex.rs2 = idex.instr.rs2
  PROVE  /\ AluResult = ArchAlu(AbsArch, idex.instr)
         /\ FwdA = AbsArch.regs[idex.instr.rs1] /\ FwdB = AbsArch.regs[idex.instr.rs2]
         /\ idex.ctl.mem_write => AluResult = Add(AbsArch.regs[idex.instr.rs1], idex.instr.imm)
  <1>1. FwdA = AbsArch.regs[idex.instr.rs1] /\ FwdB = AbsArch.regs[idex.instr.rs2]
    BY OperandsAreCurrent, ArchParts DEF ForwardingIsCurrent
  <1>2. AluResult = ArchAlu(AbsArch, idex.instr)
    BY <1>1, ArchParts DEF AluResult, ArchAlu
  <1>3. \A a, b : Alu("ADD", a, b) = Add(a, b)
    BY DEF Alu
  <1> QED BY <1>1, <1>2, <1>3, DecodedPaths DEF AluResult

(* Where one instruction goes.                                             *)
LEMMA SingleGoes ==
  ASSUME RegsInv, FreezeInv, ExReal, ExSingle, NoCsrAheadOfTrap
  PROVE  SC!Retire(AbsArch).pc = IF Redirect THEN RedirectTarget ELSE Add(AbsPc, 4)
  <1> DEFINE i == idex.instr
             d == Decode(i)
             a == AbsArch.regs[i.rs1]
             b == AbsArch.regs[i.rs2]
  <1>1. /\ idex.pc = AbsPc /\ i = At(AbsArch.pc) /\ idex.ctl = d /\ idex.imm = i.imm
        /\ ~ExIdiom3 /\ ~idex.fuse4.valid
    BY OldestPc, ArchParts DEF ExSingle, ExIdiom3
  <1>2. FwdA = a /\ FwdB = b
    BY <1>1, AluIsArch DEF ExSingle
  <1>3. CASE d.illegal
    <2>1. TrapTaken /\ Redirect /\ RedirectTarget = csr["mtvec"]
      BY <1>1, <1>3 DEF TrapTaken, Redirect, RedirectTarget
    <2>2. ~exmem.is_csr /\ ~memwb.is_csr
      BY <2>1 DEF NoCsrAheadOfTrap
    <2>3. AbsArch.csr["mtvec"] = csr["mtvec"]
      BY <2>2, ArchParts DEF AbsCsr, TrapCsr
    <2>4. SC!Retire(AbsArch) = [AbsArch EXCEPT !.pc = AbsArch.csr["mtvec"],
                                               !.csr = CsrTrap(AbsArch.csr, AbsArch.pc, i)]
      BY <1>1, <1>3, RetireIs
    <2>5. {"pc", "csr"} \subseteq DOMAIN AbsArch
      BY DEF AbsArch
    <2> QED BY <2>1, <2>3, <2>4, <2>5
  <1>4. CASE ~d.illegal
    <2>1. ~TrapTaken
      BY <1>1, <1>4 DEF TrapTaken
    <2>2. Redirect <=> \/ i.op = "BRANCH" /\ BranchTaken(i.f3, a, b)
                       \/ i.op = "JAL" \/ i.op = "JALR"
      BY <1>1, <1>2, <2>1, DecodedPaths DEF Redirect, Fuse4Taken
    <2>3. RedirectTarget = IF i.op = "JALR" THEN JalrTarget(a, i.imm) ELSE Add(AbsPc, i.imm)
      BY <1>1, <1>2, <2>1, DecodedPaths DEF RedirectTarget
    <2>4. SC!Retire(AbsArch).pc = SC!NextPc(AbsArch, i)
      BY <1>1, <1>4, RetirePc
    <2> QED BY <2>2, <2>3, <2>4, NextPcIs, ArchParts
  <1> QED BY <1>3, <1>4

(* One instruction.                                                        *)
LEMMA SingleRetires ==
  ASSUME RegsInv, FreezeInv, StreamInv, ClockEdge, ~MuldivActive, ExReal, ExSingle,
         Aligned, TargetsAligned, NoCsrAheadOfTrap, TrapCsrsOnly
  PROVE  /\ AbsArch' = SC!Retire(AbsArch)
         /\ MemResult' = SC!RdData(AbsArch, idex.instr)
  <1> DEFINE i == idex.instr
             d == Decode(i)
             a == AbsArch.regs[i.rs1]
             b == AbsArch.regs[i.rs2]
  <1>1. /\ idex.pc = AbsPc /\ i = At(AbsArch.pc) /\ idex.ctl = d /\ idex.imm = i.imm
        /\ idex.rd = i.rd /\ ~ExIdiom3 /\ ~idex.pend2.valid /\ ~idex.fuse4.valid
        /\ FrontPc = Add(AbsPc, 4)
    BY OldestPc, ArchParts DEF ExSingle, ExIdiom3
  <1>2. ResultPaths
    BY <1>1, DecodedPaths DEF ResultPaths
  <1>3. /\ AluResult = ArchAlu(AbsArch, i) /\ FwdA = a /\ FwdB = b
        /\ d.mem_write => AluResult = Add(a, i.imm)
    BY <1>1, AluIsArch DEF ExSingle
  <1>4. DataInv
    BY DEF FreezeInv
  <1>5. d.is_csr => ArchCsr(AbsArch, i.csr) = CsrReadEx /\ i.csr \in TrapCsr
    <2>1. d.is_csr => i.csr \in TrapCsr
      <3>1. AbsPc \in Word /\ imem \in Programs
        BY OldestAligned DEF FreezeInv
      <3> QED BY <1>1, <3>1, ArchParts, DecodedPaths DEF TrapCsrsOnly, At
    <2> QED BY <1>4, <2>1, CsrReadIsCurrent, ArchParts DEF ArchCsr
  <1>6. ExResult = SC!RdData(AbsArch, i)
    <2>1. d.is_muldiv => MuldivBus(muldiv) = MuldivResult(i.f3, a, b)
      <3>1. d.is_muldiv => muldiv.done
        BY <1>1 DEF MuldivActive, MuldivStart
      <3> QED BY <1>3, <3>1, FreezeGivesResult DEF MuldivDelivers
    <2> QED BY <1>1, <1>3, <1>5, <2>1, RdDataIs, ArchParts DEF ExResult
  <1>7. AbsRegs' = RegWrite(AbsRegs, d.reg_write, i.rd, SC!RdData(AbsArch, i))
    <2>1. \A r : PendWrite(r, idex.pend2) = r
      BY <1>1 DEF PendWrite, RegWrite
    <2> QED BY <1>1, <1>2, <1>6, <2>1, RegistersAfterEx
  <1>8. /\ AbsMem' = IF d.mem_write /\ Add(a, i.imm) # UartAddr
                     THEN WriteBytes(AbsMem, Sub(Add(a, i.imm), MemBase), d.mem_width, b)
                     ELSE AbsMem
        /\ AbsUart' = IF d.mem_write /\ Add(a, i.imm) = UartAddr
                      THEN UartSend(AbsUart, b) ELSE AbsUart
    BY <1>1, <1>2, <1>3, <1>4, MemoryAfterEx
  <1>9. AbsPc' = SC!Retire(AbsArch).pc
    BY <1>1, MovingStream, SingleGoes
  <1>10. ASSUME d.illegal PROVE AbsArch' = SC!Retire(AbsArch)
    <2>1. TrapTaken
      BY <1>1, <1>10 DEF TrapTaken
    <2>2. ~idex.ctl.is_csr /\ ~exmem.is_csr /\ ~memwb.is_csr /\ ~d.mem_write /\ ~d.reg_write
      BY <1>1, <1>10, <2>1, DecodedPaths DEF NoCsrAheadOfTrap
    <2>3. AbsCsr' = CsrTrap(AbsCsr, AbsPc, i)
      BY <1>1, <1>4, <2>1, <2>2, CsrDrain
    <2>5. AbsRegs' = AbsRegs
      BY <1>7, <2>2 DEF RegWrite
    <2>6. AbsMem' = AbsMem /\ AbsUart' = AbsUart
      BY <1>8, <2>2
    <2>7. SC!Retire(AbsArch) = [AbsArch EXCEPT !.pc = AbsArch.csr["mtvec"],
                                               !.csr = CsrTrap(AbsArch.csr, AbsArch.pc, i)]
      BY <1>1, <1>10, RetireIs
    <2>8. AbsPc' = AbsCsr["mtvec"]
      BY <1>9, <2>7, ArchParts DEF AbsArch
    <2> QED BY <2>3, <2>5, <2>6, <2>7, <2>8 DEF AbsArch
  <1>11. ASSUME ~d.illegal PROVE AbsArch' = SC!Retire(AbsArch)
    <2>1. ~TrapTaken
      BY <1>1, <1>11 DEF TrapTaken
    <2>2. AbsCsr' = IF d.is_csr THEN CsrWrite(AbsCsr, i.csr,
                                              CsrWriteValue(i.f3, ArchCsr(AbsArch, i.csr), a))
                    ELSE AbsCsr
      BY <1>1, <1>3, <1>4, <1>5, <2>1, CsrDrain
    <2>4. SC!Retire(AbsArch) =
            [pc   |-> SC!NextPc(AbsArch, i),
             regs |-> RegWrite(AbsRegs, d.reg_write, i.rd, SC!RdData(AbsArch, i)),
             mem  |-> IF d.mem_write /\ Add(a, i.imm) # UartAddr
                      THEN WriteBytes(AbsMem, Sub(Add(a, i.imm), MemBase), d.mem_width, b)
                      ELSE AbsMem,
             csr  |-> IF d.is_csr
                      THEN CsrWrite(AbsCsr, i.csr, CsrWriteValue(i.f3, ArchCsr(AbsArch, i.csr), a))
                      ELSE AbsCsr,
             uart |-> IF d.mem_write /\ Add(a, i.imm) = UartAddr
                      THEN UartSend(AbsUart, b) ELSE AbsUart]
      BY <1>1, <1>11, RetireIs, ArchParts
    <2>5. AbsArch' = [pc |-> AbsPc', regs |-> AbsRegs', mem |-> AbsMem', csr |-> AbsCsr',
                      uart |-> AbsUart']
      BY DEF AbsArch
    <2> HIDE DEF i, d, a, b
    <2> QED BY <1>7, <1>8, <1>9, <2>2, <2>4, <2>5
  <1> QED BY <1>2, <1>4, <1>6, <1>10, <1>11, ResultMovesToMem

(* Two instructions at once: the effect of the first, which only writes a  *)
(* register, and of the second on top of it.                               *)
AfterFirst(x) ==
  [pc |-> Add(AbsPc, 4), regs |-> RegWrite(AbsRegs, TRUE, idex.instr.rd, x), mem |-> AbsMem,
   csr |-> AbsCsr, uart |-> AbsUart]

(* The first of a pair.                                                    *)
LEMMA FirstRetires ==
  ASSUME ExReal, ExPair, idex.instr.op \in {"LUI", "AUIPC", "OP", "OPIMM"}
  PROVE  /\ SC!Retire(AbsArch) = AfterFirst(SC!RdData(AbsArch, idex.instr))
         /\ FrontPc = Add(Add(AbsPc, 4), 4)
         /\ \A x : AfterFirst(x).pc = Add(AbsPc, 4) /\ ExNext = At(AfterFirst(x).pc)
  <1>1. idex.instr = At(AbsArch.pc) /\ AbsPc = ExPc
    BY OldestPc, ArchParts DEF ExPair
  <1>2. SC!NextPc(AbsArch, idex.instr) = Add(AbsPc, 4)
    BY NextPcIs, ArchParts
  <1>3. SC!Retire(AbsArch) =
          [pc   |-> SC!NextPc(AbsArch, idex.instr),
           regs |-> RegWrite(AbsRegs, idex.instr.op # "BRANCH", idex.instr.rd,
                             SC!RdData(AbsArch, idex.instr)),
           mem  |-> AbsMem, csr |-> AbsCsr, uart |-> AbsUart]
    BY <1>1, RetirePlain, ArchParts
  <1>4. (idex.instr.op # "BRANCH") = TRUE
    OBVIOUS
  <1>5. SC!Retire(AbsArch) = AfterFirst(SC!RdData(AbsArch, idex.instr))
    BY <1>2, <1>3, <1>4, Zenon DEF AfterFirst
  <1>6. \A x : AfterFirst(x).pc = Add(AbsPc, 4) /\ ExNext = At(AfterFirst(x).pc)
    BY <1>1 DEF AfterFirst, ExNext
  <1> QED BY <1>1, <1>5, <1>6 DEF ExPair

(* The registers between the two.                                          *)
LEMMA FirstRegisters ==
  ASSUME DataInv, ControlTypes, NEW x \in Word, idex.instr.rd # 0
  PROVE  /\ RegWrite(AbsRegs, TRUE, idex.instr.rd, x) = [AbsRegs EXCEPT ![idex.instr.rd] = x]
         /\ RegWrite(AbsRegs, TRUE, idex.instr.rd, x)[idex.instr.rd] = x
         /\ RegWrite(AbsRegs, TRUE, idex.instr.rd, x)[0] = 0
  <1>1. AbsRegs \in [Reg -> Word] /\ AbsRegs[0] = 0
    BY DrainedRegs DEF DataInv
  <1>2. idex.instr.rd \in Reg
    BY IdExTypes, InstrTypes DEF DataInv
  <1> QED BY <1>1, <1>2, RegAssumption DEF RegWrite

(* A sum of three words.                                                   *)
LEMMA AddAssociates ==
  ASSUME NEW a \in Word, NEW b \in Word, NEW c \in Word
  PROVE  Add(Add(a, b), c) = Add(a, Add(b, c))
  <1>1. PICK m \in Nat : m = WordMod /\ m > 0
    BY WordHalves
  <1>2. a \in Int /\ b \in Int /\ c \in Int
    BY SmallWords
  <1>3. \A u \in Int : \E k \in Int, r \in 0 .. m-1 : u = m * k + r /\ u % m = r
    <2> TAKE u \in Int
    <2>1. u \div m \in Int /\ u % m \in 0 .. m-1 /\ u = m * (u \div m) + (u % m)
      BY <1>1, DivMod
    <2> QED BY <2>1
  <1>4. PICK p \in Int, y \in 0 .. m-1 : a + b = m * p + y /\ (a + b) % m = y
    <2>1. a + b \in Int
      BY <1>2
    <2> QED BY <1>3, <2>1, Zenon
  <1>5. PICK q \in Int, z \in 0 .. m-1 : b + c = m * q + z /\ (b + c) % m = z
    <2>1. b + c \in Int
      BY <1>2
    <2> QED BY <1>3, <2>1, Zenon
  <1>6. PICK k \in Int, r \in 0 .. m-1 : y + c = m * k + r /\ (y + c) % m = r
    <2>1. y + c \in Int
      BY <1>2
    <2> QED BY <1>3, <2>1, Zenon
  <1>7. PICK s, t \in Int : s = a + z /\ t = k + p - q /\ s = m * t + r
    <2>1. PICK mp, mq, mk \in Int : mp = m * p /\ mq = m * q /\ mk = m * k
      OBVIOUS
    <2>2. PICK t \in Int : t = k + p - q
      OBVIOUS
    <2>3. m * t = mk + mp - mq
      <3>1. m * (k + p - q) = m * k + m * p - m * q
        OBVIOUS
      <3> QED BY <2>1, <2>2, <3>1
    <2>4. a + b = mp + y /\ b + c = mq + z /\ y + c = mk + r
      BY <1>4, <1>5, <1>6, <2>1
    <2>5. a + z = mk + mp - mq + r /\ a + z \in Int
      BY <1>2, <2>4
    <2> QED BY <2>2, <2>3, <2>5
  <1>8. s % m = r
    <2>1. \A u \in 0 .. m-1 : s = m * t + u => s % m = u
      BY <1>1, DivModUnique
    <2> QED BY <1>7, <2>1
  <1> QED BY <1>1, <1>4, <1>5, <1>6, <1>7, <1>8 DEF Add

(* What the decoder makes of the first of a pair.                          *)
LEMMA DecodedFirst ==
  ASSUME NEW i
  PROVE  /\ i.op \in {"LUI", "AUIPC", "OP", "OPIMM"} =>
              /\ Decode(i).reg_write /\ ~Decode(i).is_csr /\ ~Decode(i).mem_write
              /\ ~Decode(i).is_branch /\ ~Decode(i).is_jal /\ ~Decode(i).is_jalr
              /\ ~Decode(i).illegal /\ ~Decode(i).mem_read /\ ~Decode(i).mem_unsigned
              /\ Decode(i).result_src = IF i.op = "LUI" THEN "imm" ELSE "alu"
              /\ Decode(i).is_muldiv <=> i.op = "OP" /\ i.f7 = 1
         /\ i.op = "AUIPC" => Decode(i).alu_op = "ADD" /\ Decode(i).src_a_pc /\ Decode(i).src_b_imm
         /\ i.op = "OPIMM" /\ i.f3 = 0 =>
              Decode(i).alu_op = "ADD" /\ ~Decode(i).src_a_pc /\ Decode(i).src_b_imm
  <1>1. ASSUME i.op \in {"LUI", "AUIPC", "OP", "OPIMM"}
        PROVE  /\ Decode(i).reg_write /\ ~Decode(i).is_csr /\ ~Decode(i).mem_write
               /\ ~Decode(i).is_branch /\ ~Decode(i).is_jal /\ ~Decode(i).is_jalr
               /\ ~Decode(i).illegal /\ ~Decode(i).mem_read /\ ~Decode(i).mem_unsigned
    BY <1>1 DEF Decode, IsCsr
  <1>2. Decode(i).result_src = CASE i.op = "LOAD" -> "mem"
                                 [] i.op \in {"JAL", "JALR"} -> "pc4"
                                 [] i.op = "LUI" -> "imm"
                                 [] OTHER -> "alu"
    BY DEF Decode
  <1>3. i.op \in {"LUI", "AUIPC", "OP", "OPIMM"} =>
          Decode(i).result_src = IF i.op = "LUI" THEN "imm" ELSE "alu"
    BY <1>2
  <1>4. Decode(i).is_muldiv = (i.op = "OP" /\ i.f7 = 1)
    BY DEF Decode
  <1>5. i.op = "AUIPC" => Decode(i).alu_op = "ADD" /\ Decode(i).src_a_pc /\ Decode(i).src_b_imm
    BY DEF Decode
  <1>6. ASSUME i.op = "OPIMM", i.f3 = 0
        PROVE  Decode(i).alu_op = "ADD" /\ ~Decode(i).src_a_pc /\ Decode(i).src_b_imm
    <2>1. AluFunction(i.op, i.f3, i.f7) = "ADD"
      BY <1>6 DEF AluFunction
    <2>2. Decode(i).alu_op = AluFunction(i.op, i.f3, i.f7)
      BY <1>6 DEF Decode
    <2>3. ~Decode(i).src_a_pc /\ Decode(i).src_b_imm
      BY <1>6 DEF Decode
    <2> QED BY <2>1, <2>2, <2>3
  <1> QED BY <1>1, <1>3, <1>4, <1>5, <1>6

(* The pair in EX is one of a program.                                     *)
LEMMA PairInProgram ==
  ASSUME StreamInv, FreezeInv, ExReal, ExPair, PairsSeparate, ProductsNotCompared
  PROVE  /\ Pattern3(idex.instr, ExNext) \/ Pattern5(idex.instr, ExNext) =>
              ExNext.rd # idex.instr.rd
         /\ Pattern4(idex.instr, ExNext) =>
              idex.instr.rd # 0 /\ ~Decode(idex.instr).is_muldiv
         /\ ExNext \in Instr /\ idex.instr \in Instr
  <1>1. ExPc \in Word /\ imem \in Programs
    BY OldestPc, OldestAligned DEF FreezeInv
  <1>2. idex.instr = imem[MemIndex(ExPc)] /\ ExNext = imem[MemIndex(Add(ExPc, 4))] /\ FUSION_EN
    BY DEF ExPair, ExNext, At
  <1>3. Add(ExPc, 4) \in Word
    BY <1>1, AddType, WideWord
  <1>4. ExNext \in Instr /\ idex.instr \in Instr
    BY <1>1, <1>3, RealWords DEF ExNext, ExPair
  <1>5. /\ Pattern3(idex.instr, ExNext) \/ Pattern5(idex.instr, ExNext) =>
             ExNext.rd # idex.instr.rd
        /\ Pattern4(idex.instr, ExNext) => idex.instr.rd # 0
    BY <1>1, <1>2 DEF PairsSeparate
  <1>6. Pattern4(idex.instr, ExNext) => ~Decode(idex.instr).is_muldiv
    BY <1>1, <1>2 DEF ProductsNotCompared
  <1> QED BY <1>4, <1>5, <1>6

(* What a pair leaves alone, and the registers after it.                   *)
LEMMA PairAfterEx ==
  ASSUME RegsInv, FreezeInv, StreamInv, ClockEdge, ~MuldivActive, Aligned, TargetsAligned,
         ExReal, ExPair, ResultPaths, idex.ctl.reg_write, ~idex.ctl.mem_write, ~idex.ctl.is_csr,
         ~TrapTaken
  PROVE  AbsArch' = [pc |-> IF Redirect THEN RedirectTarget ELSE Add(Add(AbsPc, 4), 4),
                     regs |-> PendWrite(RegWrite(AbsRegs, TRUE, idex.rd, ExResult), idex.pend2),
                     mem |-> AbsMem, csr |-> AbsCsr, uart |-> AbsUart]
  <1>1. AbsMem' = AbsMem /\ AbsUart' = AbsUart
    BY MemoryAfterEx DEF FreezeInv
  <1>2. AbsCsr' = AbsCsr
    BY CsrDrain DEF FreezeInv
  <1>3. idex.ctl.reg_write = TRUE
    BY IdExTypes DEF FreezeInv, DataInv, Control
  <1>4. AbsRegs' = PendWrite(RegWrite(AbsRegs, TRUE, idex.rd, ExResult), idex.pend2)
    BY <1>3, RegistersAfterEx
  <1>5. AbsPc' = IF Redirect THEN RedirectTarget ELSE Add(Add(AbsPc, 4), 4)
    BY MovingStream, OldestPc DEF ExPair
  <1>6. AbsArch' = [pc |-> AbsPc', regs |-> AbsRegs', mem |-> AbsMem', csr |-> AbsCsr',
                    uart |-> AbsUart']
    BY DEF AbsArch
  <1> QED BY <1>1, <1>2, <1>4, <1>5, <1>6

(* What the operation of a pair in EX does is what its two instructions do *)
(* one after the other.                                                    *)
PairComputes ==
  /\ ResultPaths /\ idex.ctl.reg_write /\ ~idex.ctl.mem_write /\ ~idex.ctl.is_csr /\ ~TrapTaken
  /\ SC!Retire(SC!Retire(AbsArch)) =
       [pc |-> IF Redirect THEN RedirectTarget ELSE Add(Add(AbsPc, 4), 4),
        regs |-> PendWrite(RegWrite(AbsRegs, TRUE, idex.rd, ExResult), idex.pend2),
        mem |-> AbsMem, csr |-> AbsCsr, uart |-> AbsUart]

(* So it does when it leaves EX.                                           *)
LEMMA PairRetires ==
  ASSUME RegsInv, FreezeInv, StreamInv, ClockEdge, ~MuldivActive, Aligned, TargetsAligned,
         ExReal, ExPair, PairComputes
  PROVE  AbsArch' = SC!Retire(SC!Retire(AbsArch)) /\ MemResult' = ExResult
  <1>1. MemResult' = ExResult
    BY ResultMovesToMem DEF FreezeInv, PairComputes
  <1>2. AbsArch' = [pc |-> IF Redirect THEN RedirectTarget ELSE Add(Add(AbsPc, 4), 4),
                    regs |-> PendWrite(RegWrite(AbsRegs, TRUE, idex.rd, ExResult), idex.pend2),
                    mem |-> AbsMem, csr |-> AbsCsr, uart |-> AbsUart]
    BY PairAfterEx DEF PairComputes
  <1> QED BY <1>1, <1>2, Zenon DEF PairComputes

(* The second of a pair.                                                   *)
LEMMA SecondRetires ==
  ASSUME NEW x, ExReal, ExPair, idex.instr.op \in {"LUI", "AUIPC", "OP", "OPIMM"},
         ExNext.op \in {"OPIMM", "LOAD", "JALR", "BRANCH"}
  PROVE  SC!Retire(AfterFirst(x)) =
           [pc   |-> SC!NextPc(AfterFirst(x), ExNext),
            regs |-> RegWrite(RegWrite(AbsRegs, TRUE, idex.instr.rd, x), ExNext.op # "BRANCH",
                              ExNext.rd, SC!RdData(AfterFirst(x), ExNext)),
            mem  |-> AbsMem, csr |-> AbsCsr, uart |-> AbsUart]
  <1>1. ExNext = At(AfterFirst(x).pc)
    BY FirstRetires
  <1>2. SC!Retire(AfterFirst(x)) =
           [pc   |-> SC!NextPc(AfterFirst(x), ExNext),
            regs |-> RegWrite(AfterFirst(x).regs, ExNext.op # "BRANCH",
                              ExNext.rd, SC!RdData(AfterFirst(x), ExNext)),
            mem  |-> AfterFirst(x).mem, csr |-> AfterFirst(x).csr, uart |-> AfterFirst(x).uart]
    BY <1>1, RetirePlain
  <1> QED BY <1>2 DEF AfterFirst

(* Idioms 1 and 2: the upper immediate, and the lower one added to it.     *)
LEMMA AddiComputes ==
  ASSUME RegsInv, FreezeInv, StreamInv, ~MuldivActive, ExReal, ExAddi,
         PairsSeparate, ProductsNotCompared
  PROVE  PairComputes /\ ~Redirect /\ ExResult = SC!RdData(SC!Retire(AbsArch), ExNext)
  <1> DEFINE i == idex.instr
             n == ExNext
             x == SC!RdData(AbsArch, i)
             s == AfterFirst(x)
  <1>1. ExPair /\ idex.pc = AbsPc /\ idex.ctl = Decode(i) /\ idex.imm = Add(i.imm, n.imm)
        /\ idex.rd = i.rd /\ ~idex.pend2.valid /\ ~idex.fuse4.valid
    BY OldestPc DEF ExAddi
  <1>2. /\ i.op \in {"LUI", "AUIPC"} /\ n.op = "OPIMM" /\ n.f3 = 0 /\ i.rd # 0 /\ n.rd = i.rd
        /\ n.rs1 = i.rd
    BY DEF ExAddi, Pattern1, Pattern2, AddiOnto
  <1>3. /\ ~TrapTaken /\ ~Redirect /\ ResultPaths
        /\ idex.ctl.reg_write /\ ~idex.ctl.mem_write /\ ~idex.ctl.is_csr /\ ~idex.ctl.is_muldiv
        /\ idex.ctl.result_src = IF i.op = "LUI" THEN "imm" ELSE "alu"
    BY <1>1, <1>2, DecodedFirst DEF TrapTaken, Redirect, Fuse4Taken, ResultPaths
  <1>4. AbsPc \in Word /\ i.imm \in Word /\ n.imm \in Word /\ DataInv /\ ControlTypes
    <2>1. n \in Instr /\ i \in Instr
      BY <1>1, PairInProgram
    <2> QED BY <2>1, OldestAligned, InstrTypes DEF FreezeInv, RegsInv, Pend2Inv
  <1>5. \A a, b : Alu("ADD", a, b) = Add(a, b)
    BY DEF Alu
  <1>6. x = IF i.op = "LUI" THEN i.imm ELSE Add(AbsPc, i.imm)
    <2>1. i.op = "AUIPC" => ArchAlu(AbsArch, i) = Add(AbsPc, i.imm)
      BY <1>5, DecodedFirst, ArchParts DEF ArchAlu
    <2> QED BY <1>1, <1>2, <1>3, <2>1, RdDataIs
  <1>7. ExResult = Add(x, n.imm)
    <2>1. i.op = "AUIPC" => AluResult = Add(AbsPc, Add(i.imm, n.imm))
      BY <1>1, <1>5, DecodedFirst DEF AluResult
    <2>2. i.op = "AUIPC" => AluResult = Add(x, n.imm)
      BY <1>4, <1>6, <2>1, AddAssociates
    <2>3. i.op = "LUI" => idex.imm = Add(x, n.imm)
      BY <1>1, <1>6
    <2> QED BY <1>1, <1>2, <1>3, <2>2, <2>3 DEF ExResult
  <1>8. x \in Word
    BY <1>4, <1>6, AddType
  <1>9. s.regs[n.rs1] = x /\ s.pc = Add(AbsPc, 4)
    BY <1>2, <1>4, <1>8, FirstRegisters DEF AfterFirst
  <1>10. SC!RdData(s, n) = Add(x, n.imm)
    <2>1. /\ ~Decode(n).is_csr /\ ~Decode(n).is_muldiv /\ Decode(n).result_src = "alu"
          /\ Decode(n).alu_op = "ADD" /\ ~Decode(n).src_a_pc /\ Decode(n).src_b_imm
      BY <1>2, DecodedFirst
    <2>2. ArchAlu(s, n) = Add(x, n.imm)
      BY <1>5, <1>9, <2>1 DEF ArchAlu
    <2> QED BY <2>1, <2>2, RdDataIs
  <1>11. SC!NextPc(s, n) = Add(Add(AbsPc, 4), 4)
    BY <1>2, <1>9, NextPcIs
  <1>12. RegWrite(RegWrite(AbsRegs, TRUE, i.rd, x), n.op # "BRANCH", n.rd, Add(x, n.imm)) =
           RegWrite(AbsRegs, TRUE, i.rd, Add(x, n.imm))
    <2>1. Add(x, n.imm) \in Word
      BY <1>4, <1>8, AddType
    <2>2. /\ RegWrite(AbsRegs, TRUE, i.rd, x) = [AbsRegs EXCEPT ![i.rd] = x]
          /\ RegWrite(AbsRegs, TRUE, i.rd, Add(x, n.imm)) = [AbsRegs EXCEPT ![i.rd] = Add(x, n.imm)]
      BY <1>2, <1>4, <1>8, <2>1, FirstRegisters
    <2> QED BY <1>2, <2>2 DEF RegWrite
  <1>13. SC!Retire(AbsArch) = s
    BY <1>1, <1>2, FirstRetires
  <1>14. SC!Retire(s) = [pc |-> Add(Add(AbsPc, 4), 4),
                         regs |-> RegWrite(AbsRegs, TRUE, i.rd, Add(x, n.imm)),
                         mem |-> AbsMem, csr |-> AbsCsr, uart |-> AbsUart]
    BY <1>1, <1>2, <1>10, <1>11, <1>12, SecondRetires
  <1>15. \A r : PendWrite(r, idex.pend2) = r
    BY <1>1 DEF PendWrite, RegWrite
  <1>16. PairComputes
    BY <1>1, <1>3, <1>7, <1>13, <1>14, <1>15 DEF PairComputes
  <1> QED BY <1>3, <1>7, <1>10, <1>13, <1>16

(* So they retire together.                                                *)
LEMMA AddiRetires ==
  ASSUME RegsInv, FreezeInv, StreamInv, ClockEdge, ~MuldivActive, ExReal, ExAddi,
         Aligned, TargetsAligned, PairsSeparate, ProductsNotCompared
  PROVE  /\ AbsArch' = SC!Retire(SC!Retire(AbsArch))
         /\ MemResult' = SC!RdData(SC!Retire(AbsArch), ExNext)
  BY AddiComputes, PairRetires DEF ExAddi

(* Idiom 3: a jump relative to the program counter, with its link.         *)
LEMMA CallComputes ==
  ASSUME RegsInv, FreezeInv, StreamInv, ~MuldivActive, ExReal, ExCall,
         PairsSeparate, ProductsNotCompared
  PROVE  /\ PairComputes /\ ExResult = SC!RdData(SC!Retire(AbsArch), ExNext)
         /\ idex.pend2.data = SC!RdData(AbsArch, idex.instr)
  <1> DEFINE i == idex.instr
             n == ExNext
             d == Decode(i)
             x == SC!RdData(AbsArch, i)
             y == Add(Add(AbsPc, 4), 4)
             s == AfterFirst(x)
  <1>1. /\ ExPair /\ idex.pc = Add(AbsPc, 4) /\ idex.imm = n.imm /\ idex.rd = n.rd
        /\ idex.ctl = [d EXCEPT !.reg_write = TRUE, !.result_src = "pc4", !.is_jalr = TRUE]
        /\ FwdA = Add(AbsPc, i.imm) /\ ~idex.fuse4.valid
        /\ idex.pend2 = [valid |-> TRUE, addr |-> i.rd, data |-> Add(AbsPc, i.imm)]
    BY OldestPc DEF ExCall
  <1>2. i.op = "AUIPC" /\ n.op = "JALR" /\ i.rd # 0 /\ n.rs1 = i.rd
    BY DEF ExCall, Pattern3
  <1>3. /\ ~TrapTaken /\ idex.ctl.is_jalr /\ idex.ctl.result_src = "pc4" /\ idex.ctl.reg_write
        /\ ~idex.ctl.mem_write /\ ~idex.ctl.is_csr /\ ~idex.ctl.is_muldiv
    <2>1. {"reg_write", "result_src", "is_jalr", "illegal", "mem_write", "is_csr", "is_muldiv"}
            \subseteq DOMAIN d
      BY DEF Decode
    <2>2. ~d.illegal /\ ~d.mem_write /\ ~d.is_csr /\ ~d.is_muldiv
      BY <1>2, DecodedFirst
    <2> HIDE DEF d
    <2> QED BY <1>1, <2>1, <2>2 DEF TrapTaken
  <1>4. ResultPaths
    BY <1>3 DEF ResultPaths
  <1>5. Redirect /\ RedirectTarget = JalrTarget(Add(AbsPc, i.imm), n.imm)
    BY <1>1, <1>3 DEF Redirect, RedirectTarget
  <1>6. ExResult = y
    BY <1>1, <1>3 DEF ExResult
  <1>7. /\ AbsPc \in Word /\ i.imm \in Word /\ i.rd \in Reg /\ n.rd \in Reg /\ n.rd # i.rd
        /\ DataInv /\ ControlTypes /\ AbsRegs \in [Reg -> Word]
    <2>1. n \in Instr /\ i \in Instr /\ n.rd # i.rd
      BY <1>1, PairInProgram DEF ExCall
    <2> QED BY <2>1, OldestAligned, InstrTypes, DrainedRegs DEF FreezeInv, DataInv, RegsInv, Pend2Inv
  <1>8. \A a, b : Alu("ADD", a, b) = Add(a, b)
    BY DEF Alu
  <1>9. x = Add(AbsPc, i.imm)
    <2>1. ArchAlu(AbsArch, i) = Add(AbsPc, i.imm)
      BY <1>2, <1>8, DecodedFirst, ArchParts DEF ArchAlu
    <2>2. ~d.is_csr /\ ~d.is_muldiv /\ d.result_src = "alu"
      BY <1>2, DecodedFirst
    <2> QED BY <2>1, <2>2, RdDataIs
  <1>10. x \in Word
    BY <1>7, <1>9, AddType
  <1>11. s.regs[n.rs1] = x /\ s.pc = Add(AbsPc, 4)
    BY <1>2, <1>7, <1>10, FirstRegisters DEF AfterFirst
  <1>12. SC!NextPc(s, n) = JalrTarget(x, n.imm)
    BY <1>2, <1>11, NextPcIs
  <1>13. SC!RdData(s, n) = y
    <2>1. ~Decode(n).is_csr /\ ~Decode(n).is_muldiv /\ Decode(n).result_src = "pc4"
      BY <1>2 DEF Decode, IsCsr
    <2> QED BY <1>11, <2>1, RdDataIs
  <1>14. SC!Retire(AbsArch) = s
    BY <1>1, <1>2, FirstRetires
  <1>15. (n.op # "BRANCH") = TRUE
    BY <1>2
  <1>16. SC!Retire(s) = [pc |-> JalrTarget(x, n.imm),
                         regs |-> RegWrite(RegWrite(AbsRegs, TRUE, i.rd, x), TRUE, n.rd, y),
                         mem |-> AbsMem, csr |-> AbsCsr, uart |-> AbsUart]
    <2>1. SC!Retire(s) = [pc |-> SC!NextPc(s, n),
                          regs |-> RegWrite(RegWrite(AbsRegs, TRUE, i.rd, x), n.op # "BRANCH",
                                            n.rd, SC!RdData(s, n)),
                          mem |-> AbsMem, csr |-> AbsCsr, uart |-> AbsUart]
      BY <1>1, <1>2, SecondRetires
    <2> HIDE DEF s, x, y, n, i
    <2> QED BY <1>12, <1>13, <1>15, <2>1, Zenon
  <1>17. PendWrite(RegWrite(AbsRegs, TRUE, idex.rd, ExResult), idex.pend2) =
           RegWrite(RegWrite(AbsRegs, TRUE, i.rd, x), TRUE, n.rd, y)
    <2>1. RegWrite(RegWrite(AbsRegs, TRUE, i.rd, x), TRUE, n.rd, y) =
            RegWrite(RegWrite(AbsRegs, TRUE, n.rd, y), TRUE, i.rd, x)
      <3>1. PICK p, q \in Reg : p = i.rd /\ q = n.rd /\ p # q
        BY <1>7
      <3>2. PICK r \in [Reg -> Word] : r = AbsRegs
        BY <1>7
      <3>3. PICK u, v : u = x /\ v = y
        OBVIOUS
      <3>4. RegWrite(RegWrite(r, TRUE, p, u), TRUE, q, v) =
              RegWrite(RegWrite(r, TRUE, q, v), TRUE, p, u)
        BY <3>1 DEF RegWrite
      <3> QED BY <3>1, <3>2, <3>3, <3>4
    <2>2. \A r : PendWrite(r, idex.pend2) = RegWrite(r, TRUE, i.rd, x)
      BY <1>1, <1>9 DEF PendWrite
    <2> QED BY <1>1, <1>6, <2>1, <2>2
  <1>18. PairComputes
    BY <1>3, <1>4, <1>5, <1>9, <1>14, <1>16, <1>17 DEF PairComputes
  <1>19. idex.pend2.data = x
    BY <1>1, <1>9
  <1> QED BY <1>6, <1>13, <1>14, <1>18, <1>19

(* So they retire together.                                                *)
LEMMA CallRetires ==
  ASSUME RegsInv, FreezeInv, StreamInv, ClockEdge, ~MuldivActive, ExReal, ExCall,
         Aligned, TargetsAligned, PairsSeparate, ProductsNotCompared
  PROVE  /\ AbsArch' = SC!Retire(SC!Retire(AbsArch))
         /\ MemResult' = SC!RdData(SC!Retire(AbsArch), ExNext)
         /\ idex.pend2.data = SC!RdData(AbsArch, idex.instr)
  BY CallComputes, PairRetires DEF ExCall

(* Idiom 4: a comparison, and a branch on its result.                      *)
LEMMA CompareComputes ==
  ASSUME RegsInv, FreezeInv, StreamInv, ~MuldivActive, ExReal, ExCompare,
         PairsSeparate, ProductsNotCompared
  PROVE  PairComputes /\ ExResult = SC!RdData(AbsArch, idex.instr)
  <1> DEFINE i == idex.instr
             n == ExNext
             x == SC!RdData(AbsArch, i)
             s == AfterFirst(x)
  <1>1. /\ ExPair /\ idex.pc = AbsPc /\ idex.ctl = Decode(i) /\ idex.imm = i.imm
        /\ idex.rd = i.rd /\ ~idex.pend2.valid /\ ~ExIdiom3
        /\ idex.fuse4 = [valid |-> TRUE, bne |-> n.f3 % 2 = 1,
                         target |-> Add(Add(AbsPc, 4), n.imm)]
    BY OldestPc DEF ExCompare, ExIdiom3
  <1>2. /\ i.op \in {"OP", "OPIMM"} /\ n.op = "BRANCH" /\ n.f3 \in {0, 1} /\ n.rs1 = i.rd
        /\ n.rs2 = 0 /\ i.rd # 0 /\ ~Decode(i).is_muldiv
    BY <1>1, PairInProgram DEF ExCompare, Pattern4
  <1>3. /\ ~TrapTaken /\ ResultPaths /\ ~idex.ctl.is_branch /\ ~idex.ctl.is_jal /\ ~idex.ctl.is_jalr
        /\ idex.ctl.reg_write /\ ~idex.ctl.mem_write /\ ~idex.ctl.is_csr /\ ~idex.ctl.is_muldiv
        /\ idex.ctl.result_src = "alu"
    BY <1>1, <1>2, DecodedFirst DEF TrapTaken, ResultPaths
  <1>4. AluResult = ArchAlu(AbsArch, i)
    BY <1>1, AluIsArch DEF ExCompare
  <1>5. x = AluResult /\ ExResult = AluResult
    BY <1>1, <1>3, <1>4, RdDataIs DEF ExResult
  <1>6. DataInv /\ ControlTypes /\ x \in Word
    BY <1>5, ExTypes DEF FreezeInv, RegsInv, Pend2Inv
  <1>7. s.regs[n.rs1] = x /\ s.regs[n.rs2] = 0 /\ s.pc = Add(AbsPc, 4)
    BY <1>2, <1>6, FirstRegisters DEF AfterFirst
  <1>8. Redirect <=> ((n.f3 = 1) <=> (x # 0))
    <2>1. Fuse4Taken <=> ((n.f3 % 2 = 1) <=> (x # 0))
      <3>1. idex.fuse4.valid /\ idex.fuse4.bne = (n.f3 % 2 = 1)
        BY <1>1
      <3>2. AluResult # 0 <=> x # 0
        BY <1>5
      <3> HIDE DEF x, n
      <3> QED BY <3>1, <3>2, Zenon DEF Fuse4Taken
    <2>2. (n.f3 % 2 = 1) <=> n.f3 = 1
      BY <1>2
    <2> QED BY <1>3, <2>1, <2>2 DEF Redirect
  <1>9. RedirectTarget = Add(Add(AbsPc, 4), n.imm)
    BY <1>1, <1>3 DEF RedirectTarget
  <1>10. SC!NextPc(s, n) = IF Redirect THEN RedirectTarget ELSE Add(Add(AbsPc, 4), 4)
    <2>1. BranchTaken(n.f3, x, 0) <=> ((n.f3 = 1) <=> (x # 0))
      BY <1>2 DEF BranchTaken
    <2>2. SC!NextPc(s, n) = IF BranchTaken(n.f3, x, 0) THEN Add(s.pc, n.imm) ELSE Add(s.pc, 4)
      BY <1>2, <1>7, NextPcIs
    <2> QED BY <1>7, <1>8, <1>9, <2>1, <2>2
  <1>11. SC!Retire(AbsArch) = s
    BY <1>1, <1>2, FirstRetires
  <1>12. SC!Retire(s) = [pc |-> IF Redirect THEN RedirectTarget ELSE Add(Add(AbsPc, 4), 4),
                         regs |-> RegWrite(AbsRegs, TRUE, i.rd, x),
                         mem |-> AbsMem, csr |-> AbsCsr, uart |-> AbsUart]
    <2>1. SC!Retire(s) = [pc |-> SC!NextPc(s, n),
                          regs |-> RegWrite(RegWrite(AbsRegs, TRUE, i.rd, x), n.op # "BRANCH",
                                            n.rd, SC!RdData(s, n)),
                          mem |-> AbsMem, csr |-> AbsCsr, uart |-> AbsUart]
      BY <1>1, <1>2, SecondRetires
    <2>2. \A r, z : RegWrite(r, n.op # "BRANCH", n.rd, z) = r
      BY <1>2 DEF RegWrite
    <2> HIDE DEF s, x, n, i
    <2> QED BY <1>10, <2>1, <2>2
  <1>13. \A r : PendWrite(r, idex.pend2) = r
    BY <1>1 DEF PendWrite, RegWrite
  <1>14. PairComputes
    BY <1>1, <1>3, <1>5, <1>11, <1>12, <1>13 DEF PairComputes
  <1> QED BY <1>5, <1>14

(* So they retire together.                                                *)
LEMMA CompareRetires ==
  ASSUME RegsInv, FreezeInv, StreamInv, ClockEdge, ~MuldivActive, ExReal, ExCompare,
         Aligned, TargetsAligned, PairsSeparate, ProductsNotCompared
  PROVE  /\ AbsArch' = SC!Retire(SC!Retire(AbsArch))
         /\ MemResult' = SC!RdData(AbsArch, idex.instr)
  BY CompareComputes, PairRetires DEF ExCompare

(* Idiom 5: an address, and a load from it.                                *)
LEMMA IndexedComputes ==
  ASSUME RegsInv, FreezeInv, StreamInv, ~MuldivActive, ExReal, ExIndexed,
         PairsSeparate, ProductsNotCompared
  PROVE  /\ PairComputes /\ ExResult = SC!RdData(SC!Retire(AbsArch), ExNext)
         /\ idex.pend2.data = SC!RdData(AbsArch, idex.instr)
         /\ ExNext = imem[MemIndex(SC!Retire(AbsArch).pc)]
         /\ Decode(ExNext).mem_read /\ Decode(ExNext).mem_width = "word"
         /\ Add(SC!Retire(AbsArch).regs[ExNext.rs1], ExNext.imm) = AluResult
  <1> DEFINE i == idex.instr
             n == ExNext
             d == Decode(i)
             x == SC!RdData(AbsArch, i)
             s == AfterFirst(x)
             y == SC!RdData(s, n)
  <1>1. /\ ExPair /\ idex.pc = AbsPc /\ idex.imm = i.imm /\ idex.rd = n.rd
        /\ idex.ctl = [d EXCEPT !.mem_read = TRUE, !.mem_width = "word", !.result_src = "mem"]
        /\ idex.rs1 = i.rs1 /\ idex.rs2 = i.rs2 /\ ~idex.fuse4.valid
        /\ idex.pend2 = [valid |-> TRUE, addr |-> i.rd, data |-> AluResult]
    BY OldestPc DEF ExIndexed
  <1>2. /\ i.op = "OPIMM" \/ (i.op = "OP" /\ i.f7 = 0)
        /\ i.rd # 0 /\ n.op = "LOAD" /\ n.f3 = 2 /\ n.rs1 = i.rd /\ n.imm = 0
    BY DEF ExIndexed, Pattern5
  <1>3. d.reg_write /\ ~d.is_csr /\ ~d.is_muldiv /\ ~d.mem_write /\ ~d.mem_unsigned /\ ~d.illegal
        /\ ~d.is_branch /\ ~d.is_jal /\ ~d.is_jalr /\ d.result_src = "alu"
    BY <1>2, DecodedFirst
  <1>4. /\ idex.ctl.reg_write /\ ~idex.ctl.is_csr /\ ~idex.ctl.is_muldiv /\ ~idex.ctl.mem_write
        /\ ~idex.ctl.illegal /\ ~idex.ctl.is_branch /\ ~idex.ctl.is_jal /\ ~idex.ctl.is_jalr
        /\ idex.ctl.mem_read /\ idex.ctl.mem_width = "word" /\ idex.ctl.result_src = "mem"
        /\ idex.ctl.mem_unsigned = d.mem_unsigned /\ idex.ctl.alu_op = d.alu_op
        /\ idex.ctl.src_a_pc = d.src_a_pc /\ idex.ctl.src_b_imm = d.src_b_imm
    <2>1. {"reg_write", "mem_read", "mem_width", "result_src", "is_jalr", "is_jal", "is_branch",
           "illegal", "mem_write", "is_csr", "is_muldiv", "mem_unsigned", "alu_op", "src_a_pc",
           "src_b_imm"} \subseteq DOMAIN d
      BY DEF Decode
    <2> HIDE DEF d
    <2> QED BY <1>1, <1>3, <2>1
  <1>5. /\ ~TrapTaken /\ ~Redirect /\ ResultPaths
    BY <1>1, <1>4 DEF TrapTaken, Redirect, Fuse4Taken, ResultPaths
  <1>6. x = AluResult /\ x \in Word
    <2>1. ~ExIdiom3
      BY <1>4 DEF ExIdiom3
    <2>2. FwdA = AbsRegs[i.rs1] /\ FwdB = AbsRegs[i.rs2]
      BY <1>1, <2>1, OperandsAreCurrent DEF ForwardingIsCurrent
    <2>3. ArchAlu(AbsArch, i) = AluResult
      BY <1>1, <1>4, <2>2, ArchParts DEF ArchAlu, AluResult
    <2> QED BY <1>3, <2>3, RdDataIs, ExTypes DEF FreezeInv
  <1>7. /\ i.rd \in Reg /\ n.rd \in Reg /\ n.rd # i.rd
        /\ DataInv /\ ControlTypes /\ AbsRegs \in [Reg -> Word]
    <2>1. n \in Instr /\ i \in Instr /\ n.rd # i.rd
      BY <1>1, PairInProgram DEF ExIndexed
    <2> QED BY <2>1, InstrTypes, DrainedRegs DEF FreezeInv, DataInv, RegsInv, Pend2Inv
  <1>8. s.regs[n.rs1] = x /\ s.pc = Add(AbsPc, 4) /\ s.mem = AbsMem
    BY <1>2, <1>6, <1>7, FirstRegisters DEF AfterFirst
  <1>9. y = ReadBytes(AbsMem, Sub(x, MemBase), "word", FALSE)
    <2>1. /\ ~Decode(n).is_csr /\ ~Decode(n).is_muldiv /\ Decode(n).result_src = "mem"
          /\ Decode(n).alu_op = "ADD" /\ ~Decode(n).src_a_pc /\ Decode(n).src_b_imm
      BY <1>2 DEF Decode, IsCsr
    <2>2. Decode(n).mem_width = "word" /\ Decode(n).mem_unsigned = FALSE
      <3>1. MemWidth(n.f3) = "word"
        <4>1. 2 % 4 = 2
          OBVIOUS
        <4>2. n.f3 % 4 = 2
          BY <1>2, <4>1
        <4> QED BY <4>2 DEF MemWidth
      <3>2. Decode(n).mem_width = MemWidth(n.f3)
        BY <1>2 DEF Decode
      <3>3. Decode(n).mem_unsigned = (n.op = "LOAD" /\ n.f3 >= 4)
        BY DEF Decode
      <3>4. ~(n.f3 >= 4)
        BY <1>2
      <3>5. (n.op = "LOAD" /\ n.f3 >= 4) = FALSE
        BY <3>4
      <3> HIDE DEF n
      <3> QED BY <3>1, <3>2, <3>3, <3>5, Zenon
    <2>3. ArchAlu(s, n) = Add(x, 0)
      <3>1. \A a, b : Alu("ADD", a, b) = Add(a, b)
        BY DEF Alu
      <3> QED BY <1>2, <1>8, <2>1, <3>1 DEF ArchAlu
    <2>4. Add(x, 0) = x
      BY <1>6, WordHalves DEF Add, Word
    <2> QED BY <1>8, <2>1, <2>2, <2>3, <2>4, RdDataIs
  <1>10. ExResult = y
    <2>1. d.mem_unsigned = FALSE
      BY <1>2 DEF Decode
    <2> QED BY <1>4, <1>6, <1>9, <2>1 DEF ExResult
  <1>11. SC!NextPc(s, n) = Add(Add(AbsPc, 4), 4)
    BY <1>2, <1>8, NextPcIs
  <1>12. SC!Retire(AbsArch) = s
    BY <1>1, <1>2, FirstRetires
  <1>13. SC!Retire(s) = [pc |-> Add(Add(AbsPc, 4), 4),
                         regs |-> RegWrite(RegWrite(AbsRegs, TRUE, i.rd, x), TRUE, n.rd, y),
                         mem |-> AbsMem, csr |-> AbsCsr, uart |-> AbsUart]
    <2>1. SC!Retire(s) = [pc |-> SC!NextPc(s, n),
                          regs |-> RegWrite(RegWrite(AbsRegs, TRUE, i.rd, x), n.op # "BRANCH",
                                            n.rd, y),
                          mem |-> AbsMem, csr |-> AbsCsr, uart |-> AbsUart]
      BY <1>1, <1>2, SecondRetires
    <2>2. (n.op # "BRANCH") = TRUE
      BY <1>2
    <2> HIDE DEF s, x, y, n, i
    <2> QED BY <1>11, <2>1, <2>2, Zenon
  <1>14. PendWrite(RegWrite(AbsRegs, TRUE, idex.rd, ExResult), idex.pend2) =
           RegWrite(RegWrite(AbsRegs, TRUE, i.rd, x), TRUE, n.rd, y)
    <2>1. RegWrite(RegWrite(AbsRegs, TRUE, i.rd, x), TRUE, n.rd, y) =
            RegWrite(RegWrite(AbsRegs, TRUE, n.rd, y), TRUE, i.rd, x)
      <3>1. PICK p, q \in Reg : p = i.rd /\ q = n.rd /\ p # q
        BY <1>7
      <3>2. PICK r \in [Reg -> Word] : r = AbsRegs
        BY <1>7
      <3>3. PICK u, v : u = x /\ v = y
        OBVIOUS
      <3>4. RegWrite(RegWrite(r, TRUE, p, u), TRUE, q, v) =
              RegWrite(RegWrite(r, TRUE, q, v), TRUE, p, u)
        BY <3>1 DEF RegWrite
      <3> QED BY <3>1, <3>2, <3>3, <3>4
    <2>2. \A r : PendWrite(r, idex.pend2) = RegWrite(r, TRUE, i.rd, x)
      BY <1>1, <1>6 DEF PendWrite
    <2> QED BY <1>1, <1>10, <2>1, <2>2
  <1>15. PairComputes
    BY <1>4, <1>5, <1>12, <1>13, <1>14 DEF PairComputes
  <1>16. idex.pend2.data = x
    BY <1>1, <1>6
  <1>17. /\ n = imem[MemIndex(s.pc)] /\ Add(s.regs[n.rs1], n.imm) = x
         /\ Decode(n).mem_read /\ Decode(n).mem_width = "word"
    <2>1. Add(x, 0) = x
      BY <1>6, WordHalves DEF Add, Word
    <2>2. n = At(s.pc)
      BY <1>1, <1>2, FirstRetires
    <2>3. 2 % 4 = 2
      OBVIOUS
    <2>4. Decode(n).mem_read /\ Decode(n).mem_width = MemWidth(2)
      BY <1>2 DEF Decode
    <2>5. MemWidth(2) = "word"
      BY <2>3 DEF MemWidth
    <2> HIDE DEF s, x, n
    <2> QED BY <1>2, <1>8, <2>1, <2>2, <2>4, <2>5 DEF At
  <1> QED BY <1>6, <1>10, <1>12, <1>15, <1>16, <1>17

(* So they retire together.                                                *)
LEMMA IndexedRetires ==
  ASSUME RegsInv, FreezeInv, StreamInv, ClockEdge, ~MuldivActive, ExReal, ExIndexed,
         Aligned, TargetsAligned, PairsSeparate, ProductsNotCompared
  PROVE  /\ AbsArch' = SC!Retire(SC!Retire(AbsArch))
         /\ MemResult' = SC!RdData(SC!Retire(AbsArch), ExNext)
         /\ idex.pend2.data = SC!RdData(AbsArch, idex.instr)
  BY IndexedComputes, PairRetires DEF ExIndexed

-----------------------------------------------------------------------------
(* The refinement.                                                         *)

(* The invariant the refinement rests on.                                  *)
CoreInv == RegsInv /\ FreezeInv /\ StreamInv

(* Both machines start in the same state.                                  *)
LEMMA InitArch == Init => SC!Init
  <1> SUFFICES ASSUME Init PROVE SC!Init
    OBVIOUS
  <1>1. imem \in [0 .. NW-1 -> SC!Instr]
    <2>1. SC!Word = Word
      BY SameWords DEF SC!Word, Word
    <2>2. SC!Instr = Instr
      BY <2>1 DEF SC!Instr, Instr, SC!Opcode, Opcode, SC!CsrAddr, CsrAddr
    <2> QED BY <2>2, MachineAssumption DEF Init
  <1>2. AbsPc = MemBase
    <2>1. fetch = FetchBubble /\ ifid = IfIdBubble /\ idex = IdExBubble /\ pc = MemBase
      BY DEF Init
    <2> QED BY <2>1, OldestPc
          DEF FrontPc, FetchReal, IfReal, ExReal, IsReal, FetchBubble, IfIdBubble, IdExBubble
  <1>3. exmem = ExMemReset /\ memwb = MemWbReset /\ pend2_fire = NoPend2
    BY DEF Init
  <1>4. AbsRegs = BootRegs
    <2>1. /\ ~exmem.pend2.valid /\ ~memwb.pend2.valid /\ ~pend2_fire.valid
          /\ ~exmem.reg_write /\ ~memwb.reg_write
      BY <1>3 DEF ExMemReset, MemWbReset, NoPend2
    <2>2. regs = BootRegs
      BY DEF Init
    <2> QED BY <2>1, <2>2 DEF AbsRegs, PendWrite, RegWrite
  <1>5. ~exmem.mem_write /\ ~exmem.is_csr /\ ~memwb.is_csr
    BY <1>3 DEF ExMemReset, MemWbReset
  <1>6. AbsMem = BytesOf(BootDmem) /\ AbsUart = UartInit
    BY <1>5 DEF AbsMem, AbsUart, Init
  <1>7. AbsCsr = [a \in TrapCsr |-> CsrReset[a]]
    BY <1>5 DEF AbsCsr, Init
  <1>8. SC!BytesOf(BootDmem) = BytesOf(BootDmem) /\ SC!UartInit = UartInit
    BY SameMemory
  <1>9. [a \in SC!TrapCsr |-> SC!CsrReset[a]] = [a \in TrapCsr |-> CsrReset[a]]
    BY SameMachine
  <1>10. AbsArch = [pc |-> MemBase, regs |-> BootRegs, mem |-> SC!BytesOf(BootDmem),
                    csr |-> [a \in SC!TrapCsr |-> SC!CsrReset[a]], uart |-> SC!UartInit]
    BY <1>2, <1>4, <1>6, <1>7, <1>8, <1>9 DEF AbsArch
  <1> QED BY <1>1, <1>10 DEF SC!Init

(* Nothing happens between two clock edges.                                *)
LEMMA StutterKeeps == UNCHANGED vars => AbsArch' = AbsArch /\ (CoreInv => CoreInv')
  <1> SUFFICES ASSUME UNCHANGED vars PROVE AbsArch' = AbsArch /\ (CoreInv => CoreInv')
    OBVIOUS
  <1>1. /\ imem' = imem /\ pc' = pc /\ fetch' = fetch /\ ifid' = ifid /\ idex' = idex
        /\ exmem' = exmem /\ memwb' = memwb /\ mem_rdata' = mem_rdata
        /\ pend2_fire' = pend2_fire /\ regs' = regs /\ dmem' = dmem /\ csr' = csr /\ uart' = uart
    BY DEF vars
  <1>2. WbData' = WbData /\ MemForwardValue' = MemForwardValue /\ MemResult' = MemResult
    BY <1>1 DEF WbData, MemForwardValue, MemResult
  <1>3. AbsRegs' = AbsRegs
    BY <1>1, <1>2 DEF AbsRegs
  <1>4. AbsMem' = AbsMem /\ AbsUart' = AbsUart
    BY <1>1 DEF AbsMem, AbsUart, StoreInMem
  <1>5. AbsCsr' = AbsCsr
    BY <1>1 DEF AbsCsr
  <1>6. /\ (ExReal' <=> ExReal) /\ (IfReal' <=> IfReal) /\ (FetchReal' <=> FetchReal)
        /\ ExPc' = ExPc
    BY <1>1 DEF ExReal, IfReal, FetchReal, IsReal, ExPc
  <1>7. FrontPc' = FrontPc
    BY <1>1, <1>6 DEF FrontPc
  <1>8. AbsPc' = IF ExReal' THEN ExPc' ELSE FrontPc'
    BY OldestPc DEF AbsPc, FrontPc, IfReal, FetchReal
  <1>9. AbsArch' = AbsArch
    BY <1>3, <1>4, <1>5, <1>6, <1>7, <1>8, OldestPc DEF AbsArch
  <1>10. FwdA' = FwdA /\ FwdB' = FwdB
    BY <1>1, <1>2 DEF FwdA, FwdB, Forwarded
  <1>11. AluResult' = AluResult
    BY <1>1, <1>10 DEF AluResult
  <1>12. FrontInv => FrontInv'
    BY <1>1, <1>6 DEF FrontInv, At
  <1>13. At(ExPc)' = At(ExPc) /\ ExNext' = ExNext
    BY <1>1, <1>6 DEF At, ExNext
  <1>14. ExPair' <=> ExPair
    BY <1>1, <1>6, <1>7, <1>13 DEF ExPair
  <1>15. /\ ExSingle => ExSingle'
         /\ ExAddi => ExAddi'
    BY <1>1, <1>6, <1>7, <1>13, <1>14 DEF ExSingle, ExAddi
  <1>16. /\ ExCall => ExCall'
         /\ ExCompare => ExCompare'
    BY <1>1, <1>6, <1>10, <1>13, <1>14 DEF ExCall, ExCompare
  <1>17. /\ ExIndexed => ExIndexed'
         /\ ExEmpty => ExEmpty'
    BY <1>1, <1>6, <1>11, <1>13, <1>14 DEF ExIndexed, ExEmpty
  <1>18. ExHolds => ExHolds'
    BY <1>6, <1>15, <1>16, <1>17 DEF ExHolds
  <1>19. RegsInv => RegsInv'
    BY StepRegs
  <1>20. FreezeInv => FreezeInv'
    <2>1. DataInv /\ LookaheadInv => DataInv' /\ LookaheadInv'
      BY StepData, StepLookahead
    <2>2. ExInv => ExInv'
      BY <1>1 DEF ExInv
    <2>3. muldiv' = muldiv
      BY DEF vars
    <2>4. RequestInv => RequestInv'
      BY <1>1, <1>10, <2>3 DEF RequestInv
    <2> QED BY <1>1, <2>1, <2>2, <2>4 DEF FreezeInv
  <1> QED BY <1>9, <1>12, <1>18, <1>19, <1>20 DEF CoreInv, StreamInv

(* An edge without an instruction that leaves EX changes nothing a program *)
(* could see.                                                              *)
LEMMA QuietEdge ==
  ASSUME CoreInv, ClockEdge, Tame, ~LeavesEx
  PROVE  AbsArch' = AbsArch
  <1>0. RegsInv /\ FreezeInv /\ StreamInv /\ DataInv
    BY DEF CoreInv, FreezeInv
  <1>1. CASE MuldivActive
    <2>1. ~TrapTaken
      BY <1>0, <1>1, MuldivDoesNotRedirect DEF Redirect
    <2>2. AbsRegs' = AbsRegs /\ AbsMem' = AbsMem /\ AbsUart' = AbsUart
      BY <1>0, <1>1, FrozenDrain
    <2>3. AbsCsr' = AbsCsr
      BY <1>0, <1>1, <2>1, FrozenCsr
    <2>4. AbsPc' = AbsPc
      BY <1>0, <1>1, FrozenStream DEF Tame
    <2> QED BY <2>2, <2>3, <2>4 DEF AbsArch
  <1>2. CASE ~MuldivActive
    <2>1. ~ExReal /\ ExEmpty
      BY <1>0, <1>2 DEF LeavesEx, StreamInv, ExHolds
    <2>2. ~Redirect /\ ~TrapTaken /\ ~idex.ctl.mem_write /\ ~idex.ctl.is_csr
      BY <2>1, EmptyIsHarmless
    <2>3. AbsPc' = AbsPc
      BY <1>0, <1>2, <2>1, <2>2, MovingStream, OldestPc DEF Tame
    <2>4. AbsRegs' = AbsRegs
      <3>1. \A r : PendWrite(r, idex.pend2) = r
        BY <2>1 DEF ExEmpty, PendWrite, RegWrite
      <3>2. \A r, x : RegWrite(r, idex.ctl.reg_write, idex.rd, x) = r
        BY <2>1 DEF ExEmpty, RegWrite
      <3> QED BY <1>0, <1>2, <3>1, <3>2, RegsDrain
    <2>5. AbsMem' = AbsMem /\ AbsUart' = AbsUart
      BY <1>2, <2>2, MemoryDrains, StoreTakesEffect
    <2>6. AbsCsr' = AbsCsr
      BY <1>0, <1>2, <2>2, CsrDrain
    <2> QED BY <2>3, <2>4, <2>5, <2>6 DEF AbsArch
  <1> QED BY <1>1, <1>2

(* An edge at which an instruction or a pair leaves EX retires it.         *)
LEMMA RetiringEdge ==
  ASSUME ProgramsTame, CoreInv, ClockEdge, Tame, LeavesEx
  PROVE  SC!Next
  <1>0. RegsInv /\ FreezeInv /\ StreamInv /\ ~MuldivActive /\ ExReal
    BY DEF CoreInv, LeavesEx
  <1>1. SC!MemLane(AbsArch.pc) = 0
    BY <1>0, OldestAligned, SameMemory, ArchParts
  <1>2. UNCHANGED imem
    BY DEF ClockEdge
  <1>3. CASE ExSingle
    <2>1. AbsArch' = SC!Retire(AbsArch)
      BY <1>0, <1>3, SingleRetires DEF Tame, ProgramsTame, PathsTame
    <2> QED BY <1>1, <1>2, <2>1 DEF SC!Next, SC!RetireOne
  <1>4. ASSUME ExAddi \/ ExCall \/ ExCompare \/ ExIndexed
        PROVE  SC!Next
    <2>1. AbsArch' = SC!Retire(SC!Retire(AbsArch))
      BY <1>0, <1>4, AddiRetires, CallRetires, CompareRetires, IndexedRetires
         DEF Tame, ProgramsTame, PathsTame
    <2>2. PICK k \in Idiom : Matches(k, idex.instr, ExNext)
      <3>1. \/ Pattern1(idex.instr, ExNext) \/ Pattern2(idex.instr, ExNext)
            \/ Pattern3(idex.instr, ExNext) \/ Pattern4(idex.instr, ExNext)
            \/ Pattern5(idex.instr, ExNext)
        BY <1>4 DEF ExAddi, ExCall, ExCompare, ExIndexed
      <3> QED BY <3>1 DEF Matches, Idiom
    <2>3. idex.instr = At(AbsArch.pc) /\ ExNext = At(Add(AbsArch.pc, 4))
      BY <1>0, <1>4, OldestPc, ArchParts
         DEF ExAddi, ExCall, ExCompare, ExIndexed, ExPair, ExNext
    <2>4. /\ imem[SC!MemIndex(AbsArch.pc)] = At(AbsArch.pc)
          /\ imem[SC!MemIndex(SC!Add(AbsArch.pc, 4))] = At(Add(AbsArch.pc, 4))
      BY SameWords, SameMemory DEF At
    <2>5. /\ k \in SC!Idiom
          /\ SC!Matches(k, imem[SC!MemIndex(AbsArch.pc)], imem[SC!MemIndex(SC!Add(AbsArch.pc, 4))])
      BY <2>2, <2>3, <2>4, SameMachine
    <2>6. SC!RetirePair
      BY <2>1, <2>5 DEF SC!RetirePair
    <2> QED BY <1>1, <1>2, <2>6 DEF SC!Next
  <1> QED BY <1>0, <1>3, <1>4 DEF StreamInv, ExHolds

(* The reset state has the invariant.                                      *)
LEMMA InitCore == Init => CoreInv
  BY InitRegs, InitFreeze, InitStream DEF CoreInv

(* Every step of a tame execution keeps it.                                *)
LEMMA StepCore == PathsTame /\ Tame /\ CoreInv /\ [Next]_vars => CoreInv'
  <1> SUFFICES ASSUME PathsTame, Tame, CoreInv, [Next]_vars PROVE CoreInv'
    OBVIOUS
  <1>1. CASE ClockEdge
    <2>1. RegsInv' /\ FreezeInv'
      BY StepRegs, StepFreeze DEF CoreInv, PathsTame
    <2>2. StreamInv'
      BY <1>1, FrozenStream, MovingStream DEF CoreInv, Tame
    <2> QED BY <2>1, <2>2 DEF CoreInv
  <1>2. CASE UNCHANGED vars
    BY <1>2, StutterKeeps
  <1> QED BY <1>1, <1>2 DEF Next

(* Every step of the core is a step of the machine, or none.               *)
LEMMA StepRetires == ProgramsTame /\ Tame /\ CoreInv /\ [Next]_vars => [SC!Next]_(SC!scvars)
  <1> SUFFICES ASSUME ProgramsTame, Tame, CoreInv, [Next]_vars PROVE [SC!Next]_(SC!scvars)
    OBVIOUS
  <1>1. CASE ClockEdge /\ LeavesEx
    BY <1>1, RetiringEdge
  <1>2. CASE ClockEdge /\ ~LeavesEx
    <2>1. AbsArch' = AbsArch /\ imem' = imem
      BY <1>2, QuietEdge DEF ClockEdge
    <2> QED BY <2>1 DEF SC!scvars
  <1>3. CASE UNCHANGED vars
    <2>1. AbsArch' = AbsArch /\ imem' = imem
      BY <1>3, StutterKeeps DEF vars
    <2> QED BY <2>1 DEF SC!scvars
  <1> QED BY <1>1, <1>2, <1>3 DEF Next

-----------------------------------------------------------------------------
(* What the programs keep to on the machine, the pipeline keeps to.        *)

(* The CSR instructions that are not yet written are just ahead of the     *)
(* oldest one that has not been executed.                                  *)
TrailInv ==
  /\ exmem.is_csr => \E x \in Word : IsCsr(At(x)) /\ AbsPc = Successor(x)
  /\ memwb.is_csr /\ ExReal =>
       \E x \in Word : /\ IsCsr(At(x))
                       /\ AbsPc \in {Successor(x), Successor(Successor(x)),
                                     Successor(Successor(Successor(x)))}

(* Where the program goes on after what is in EX, unless it jumps.         *)
LEMMA FrontFollows ==
  ASSUME StreamInv
  PROVE  FrontPc \in {AbsPc, Successor(AbsPc), Successor(Successor(AbsPc))}
  <1>1. CASE ExReal
    <2>1. FrontPc = Add(ExPc, 4) \/ FrontPc = Add(Add(ExPc, 4), 4)
      BY <1>1 DEF StreamInv, ExHolds, ExSingle, ExAddi, ExCall, ExCompare, ExIndexed, ExPair
    <2> QED BY <1>1, <2>1, OldestPc DEF Successor
  <1>2. CASE ~ExReal
    BY <1>2, OldestPc
  <1> QED BY <1>1, <1>2

(* A CSR instruction is never one of a pair, and the next follows it.      *)
LEMMA CsrInEx ==
  ASSUME StreamInv, FreezeInv, idex.ctl.is_csr
  PROVE  IsCsr(At(AbsPc)) /\ AbsPc \in Word /\ ~Redirect /\ FrontPc = Successor(AbsPc)
  <1>1. ExReal
    BY EmptyIsHarmless DEF StreamInv, ExHolds
  <1>2. ~ExAddi /\ ~ExCall /\ ~ExCompare /\ ~ExIndexed
    <2>1. ~ExAddi
      BY DecodedFirst DEF ExAddi, Pattern1, Pattern2
    <2>2. ~ExCompare
      BY DecodedFirst DEF ExCompare, Pattern4
    <2>3. \A i : "is_csr" \in DOMAIN Decode(i)
      BY DEF Decode
    <2>4. ~ExCall
      BY <2>3, DecodedFirst DEF ExCall, Pattern3
    <2>5. ~ExIndexed
      BY <2>3, DecodedFirst DEF ExIndexed, Pattern5
    <2> QED BY <2>1, <2>2, <2>4, <2>5
  <1>3. ExSingle
    BY <1>1, <1>2 DEF StreamInv, ExHolds
  <1>4. /\ idex.instr = At(AbsPc) /\ FrontPc = Successor(AbsPc)
        /\ idex.ctl = Decode(idex.instr) /\ ~idex.fuse4.valid
    BY <1>1, <1>3, OldestPc DEF ExSingle, Successor
  <1>5. IsCsr(At(AbsPc))
    BY <1>4, DecodedPaths
  <1>6. ~Redirect
    <2>1. At(AbsPc).op = "SYSTEM"
      BY <1>5 DEF IsCsr
    <2>2. /\ ~idex.ctl.is_branch /\ ~idex.ctl.is_jal /\ ~idex.ctl.is_jalr /\ ~idex.ctl.illegal
      BY <1>4, <2>1, DecodedPaths
    <2> QED BY <1>4, <2>2 DEF Redirect, Fuse4Taken, TrapTaken
  <1> QED BY <1>4, <1>5, <1>6, OldestAligned

(* None is on its way after reset.                                         *)
LEMMA InitTrail == Init => TrailInv
  BY DEF Init, TrailInv, ExMemReset, MemWbReset

(* An edge moves them one stage on, and the program by at most a pair.     *)
LEMMA StepTrail == Tame /\ CoreInv /\ TrailInv /\ [Next]_vars => TrailInv'
  <1> SUFFICES ASSUME Tame, CoreInv, TrailInv, [Next]_vars PROVE TrailInv'
    OBVIOUS
  <1>0. StreamInv /\ FreezeInv
    BY DEF CoreInv
  <1>1. CASE ClockEdge /\ MuldivActive
    <2>1. AbsPc' = AbsPc
      BY <1>0, <1>1, FrozenStream DEF Tame
    <2>2. exmem' = exmem /\ memwb' = memwb /\ imem' = imem
      BY <1>1 DEF ClockEdge, NextExMem, NextMemWb
    <2>3. idex' = idex
      BY <1>0, <1>1, FreezeHoldsRequest
    <2>4. ExReal' <=> ExReal
      BY <2>3 DEF ExReal
    <2>5. \A x : At(x)' = At(x)
      BY <2>2 DEF At
    <2> QED BY <2>1, <2>2, <2>4, <2>5 DEF TrailInv
  <1>2. CASE ClockEdge /\ ~MuldivActive
    <2>1. AbsPc' = IF Redirect THEN RedirectTarget ELSE FrontPc
      BY <1>0, <1>2, MovingStream DEF Tame
    <2>2. exmem'.is_csr = idex.ctl.is_csr /\ memwb'.is_csr = exmem.is_csr /\ imem' = imem
      BY <1>2 DEF ClockEdge, NextExMem, NextMemWb
    <2>3. \A x : At(x)' = At(x)
      BY <2>2 DEF At
    <2>4. exmem'.is_csr => \E x \in Word : IsCsr(At(x)') /\ AbsPc' = Successor(x)
      BY <1>0, <2>1, <2>2, <2>3, CsrInEx
    <2>5. Redirect => ~ExReal'
      <3>1. Redirect => idex' = IdExBubble
        BY <1>2 DEF ClockEdge, NextIdEx, ClearEx, FlushEx
      <3> QED BY <3>1 DEF ExReal, IsReal, IdExBubble
    <2>6. memwb'.is_csr /\ ExReal' =>
            \E x \in Word : /\ IsCsr(At(x)')
                            /\ AbsPc' \in {Successor(x), Successor(Successor(x)),
                                           Successor(Successor(Successor(x)))}
      BY <1>0, <2>1, <2>2, <2>3, <2>5, FrontFollows DEF TrailInv
    <2> QED BY <2>4, <2>6 DEF TrailInv
  <1>3. CASE UNCHANGED vars
    <2>1. AbsPc' = AbsPc
      BY <1>3, StutterKeeps, ArchParts DEF AbsArch
    <2>2. exmem' = exmem /\ memwb' = memwb /\ imem' = imem /\ idex' = idex
      BY <1>3 DEF vars
    <2>3. (ExReal' <=> ExReal) /\ \A x : At(x)' = At(x)
      BY <2>2 DEF ExReal, At
    <2> QED BY <2>1, <2>2, <2>3 DEF TrailInv
  <1> QED BY <1>1, <1>2, <1>3 DEF Next

(* So a trap finds none ahead of it.                                       *)
LEMMA TrapsAreAlone ==
  ASSUME CoreInv, TrailInv, TrapsApart
  PROVE  NoCsrAheadOfTrap
  <1> SUFFICES ASSUME TrapTaken PROVE ~exmem.is_csr /\ ~memwb.is_csr
    BY DEF NoCsrAheadOfTrap
  <1>0. StreamInv /\ FreezeInv /\ imem \in Programs
    BY DEF CoreInv, FreezeInv
  <1>1. ExReal
    BY <1>0, EmptyIsHarmless DEF StreamInv, ExHolds
  <1>2. Decode(At(AbsPc)).illegal
    <2>1. ~ExAddi /\ ~ExCompare
      BY DecodedFirst DEF ExAddi, ExCompare, Pattern1, Pattern2, Pattern4, TrapTaken
    <2>2. \A i : "illegal" \in DOMAIN Decode(i)
      BY DEF Decode
    <2>3. ~ExCall /\ ~ExIndexed
      BY <2>2, DecodedFirst DEF ExCall, ExIndexed, Pattern3, Pattern5, TrapTaken
    <2>4. ExSingle
      BY <1>0, <1>1, <2>1, <2>3 DEF StreamInv, ExHolds
    <2> QED BY <1>1, <2>4, OldestPc DEF ExSingle, TrapTaken
  <1>3. \A x \in Word :
          IsCsr(At(x)) => AbsPc \notin {Successor(x), Successor(Successor(x)),
                                        Successor(Successor(Successor(x)))}
    BY <1>0, <1>2 DEF TrapsApart, At
  <1> QED BY <1>1, <1>3 DEF TrailInv

(* Every redirect goes where the machine goes.                             *)
LEMMA RedirectsAreAligned ==
  ASSUME CoreInv, PathsTame, MachineTame, NoCsrAheadOfTrap
  PROVE  TargetsAligned
  <1> SUFFICES ASSUME Redirect PROVE MemLane(RedirectTarget) = 0
    BY DEF TargetsAligned
  <1>0. RegsInv /\ StreamInv /\ FreezeInv
    BY DEF CoreInv
  <1>1. ExReal /\ ~MuldivActive
    BY <1>0, EmptyIsHarmless, MuldivDoesNotRedirect DEF StreamInv, ExHolds
  <1>2. MemLane(SC!Retire(AbsArch).pc) = 0 /\ MemLane(SC!Retire(SC!Retire(AbsArch)).pc) = 0
    BY DEF MachineTame, KeepsAligned
  <1>3. CASE ExSingle
    BY <1>0, <1>1, <1>2, <1>3, SingleGoes
  <1>4. ASSUME ExAddi \/ ExCall \/ ExCompare \/ ExIndexed
        PROVE  MemLane(RedirectTarget) = 0
    <2>1. PairComputes
      BY <1>0, <1>1, <1>4, AddiComputes, CallComputes, CompareComputes, IndexedComputes
         DEF PathsTame
    <2>2. SC!Retire(SC!Retire(AbsArch)).pc = RedirectTarget
      BY <2>1 DEF PairComputes
    <2> QED BY <1>2, <2>2
  <1> QED BY <1>0, <1>1, <1>3, <1>4 DEF StreamInv, ExHolds

(* Every access is the machine's.                                          *)
LEMMA AccessesAreAligned ==
  ASSUME CoreInv, PathsTame, MachineTame
  PROVE  Aligned
  <1> SUFFICES ASSUME ~MuldivActive, idex.ctl.mem_read \/ idex.ctl.mem_write
               PROVE  AlignedLane(idex.ctl.mem_width, MemLane(AluResult))
    BY DEF Aligned
  <1> DEFINE i == idex.instr
             n == ExNext
             s == SC!Retire(AbsArch)
  <1>0. RegsInv /\ StreamInv /\ FreezeInv
    BY DEF CoreInv
  <1>1. ExReal
    <2>1. ~NoControl.mem_read /\ ~NoControl.mem_write
      BY DEF NoControl
    <2>2. ~Decode(NOP).mem_read /\ ~Decode(NOP).mem_write
      BY DecodedFirst DEF NOP
    <2> QED BY <1>0, <2>1, <2>2 DEF StreamInv, ExHolds, ExEmpty
  <1>2. ~ExAddi /\ ~ExCompare
    BY DecodedFirst DEF ExAddi, ExCompare, Pattern1, Pattern2, Pattern4
  <1>3. ~ExCall
    <2>1. \A j : {"mem_read", "mem_write"} \subseteq DOMAIN Decode(j)
      BY DEF Decode
    <2> QED BY <2>1, DecodedFirst DEF ExCall, Pattern3
  <1>4. CASE ExSingle
    <2>1. /\ i = imem[MemIndex(AbsArch.pc)] /\ idex.ctl = Decode(i)
      BY <1>1, <1>4, OldestPc, ArchParts DEF ExSingle, At
    <2>2. AluResult = Add(AbsArch.regs[i.rs1], i.imm)
      <3>1. FwdA = AbsArch.regs[i.rs1] /\ idex.imm = i.imm
        BY <1>0, <1>1, <1>4, OldestPc, AluIsArch DEF ExSingle, ExIdiom3
      <3>2. /\ Decode(i).alu_op = "ADD" /\ ~Decode(i).src_a_pc /\ Decode(i).src_b_imm
        <4>1. i.op \in {"LOAD", "STORE"}
          <5>1. \A j : Decode(j).mem_read = (j.op = "LOAD") /\ Decode(j).mem_write = (j.op = "STORE")
            BY DEF Decode
          <5> HIDE DEF i
          <5> QED BY <2>1, <5>1
        <4> QED BY <4>1 DEF Decode
      <3> QED BY <2>1, <3>1, <3>2 DEF AluResult, Alu
    <2>3. AlignedLane(Decode(i).mem_width, MemLane(Add(AbsArch.regs[i.rs1], i.imm)))
      BY <2>1 DEF MachineTame, KeepsAligned
    <2> QED BY <2>1, <2>2, <2>3
  <1>5. CASE ExIndexed
    <2>1. /\ n = imem[MemIndex(s.pc)] /\ Decode(n).mem_read /\ Decode(n).mem_width = "word"
          /\ Add(s.regs[n.rs1], n.imm) = AluResult
      BY <1>0, <1>1, <1>5, IndexedComputes DEF PathsTame
    <2>2. AlignedLane("word", MemLane(AluResult))
      BY <2>1 DEF MachineTame, KeepsAligned
    <2>3. idex.ctl.mem_width = "word"
      <3>1. \A j : "mem_width" \in DOMAIN Decode(j)
        BY DEF Decode
      <3> QED BY <1>5, <3>1 DEF ExIndexed
    <2> QED BY <2>2, <2>3
  <1> QED BY <1>0, <1>1, <1>2, <1>3, <1>4, <1>5 DEF StreamInv, ExHolds

(* All of it in one state.                                                 *)
LEMMA TameHere == PathsTame /\ MachineTame /\ CoreInv /\ TrailInv => Tame
  BY TrapsAreAlone, RedirectsAreAligned, AccessesAreAligned DEF Tame, PathsTame

(* Only the path the program takes gets as far as EX: whatever the words   *)
(* on its wrong paths, the pipeline is as tame as the machine (hazards of  *)
(* core_top_pipelined.sv:87, csr_file.sv:55).                              *)
THEOREM TameEverywhere == PathsTame => (Spec /\ []MachineTame => []Tame)
  <1> SUFFICES ASSUME PathsTame PROVE Spec /\ []MachineTame => []Tame
    OBVIOUS
  <1>1. Init => CoreInv /\ TrailInv
    BY InitCore, InitTrail
  <1>2. MachineTame /\ CoreInv /\ TrailInv => Tame
    BY TameHere
  <1>3. Tame /\ CoreInv /\ TrailInv /\ [Next]_vars => CoreInv' /\ TrailInv'
    BY StepCore, StepTrail
  <1> QED BY <1>1, <1>2, <1>3, PTL DEF Spec

(* The pipelined core implements the single-cycle machine, for all         *)
(* programs that are aligned there and avoid the pairs that fuse wrongly.  *)
THEOREM CoreImplementsMachine == ProgramsTame => (Spec /\ []MachineTame => InOrderRetirement)
  <1> SUFFICES ASSUME ProgramsTame PROVE Spec /\ []MachineTame => InOrderRetirement
    OBVIOUS
  <1>1. Init => CoreInv /\ SC!Init
    BY InitCore, InitArch
  <1>2. CoreInv /\ Tame /\ [Next]_vars => CoreInv'
    BY StepCore DEF ProgramsTame
  <1>3. CoreInv /\ Tame /\ [Next]_vars => [SC!Next]_(SC!scvars)
    BY StepRetires
  <1>4. Spec /\ []MachineTame => []Tame
    BY TameEverywhere DEF ProgramsTame
  <1> QED BY <1>1, <1>2, <1>3, <1>4, PTL DEF Spec, InOrderRetirement, SC!Spec
=============================================================================
