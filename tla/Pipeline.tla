------------------------------ MODULE Pipeline ------------------------------
(***************************************************************************)
(* core_top_pipelined.sv: the five-stage core with macro-op fusion and an  *)
(* isolated iterative multiply/divide unit.  Each VARIABLE is a register   *)
(* or memory of the design, each state function a wire, and each conjunct  *)
(* of ClockEdge an always_ff block.  A step is one rising clock edge.      *)
(***************************************************************************)
EXTENDS Machine, HazardUnit

CONSTANTS FUSION_EN, ISOL_EN, BR_CMP_EN,   \* the core's parameters
          DeadBeef                         \* what a load in MEM forwards

ASSUME PipelineAssumption ==
  {FUSION_EN, ISOL_EN, BR_CMP_EN} \subseteq BOOLEAN /\ DeadBeef \in Word

VARIABLES
  imem,           \* instruction memory, preloaded and never written
  pc,
  fetch,          \* pc_d, if_instr_r, if_instr_next_r
  ifid,           \* if_id_reg
  id_bound,       \* id_bound_active: FISOL.BOUND in force
  idex,           \* id_ex_reg
  exmem,          \* ex_mem_reg
  memwb,          \* mem_wb_reg
  mem_rdata,      \* mem_rdata_raw_d, dmem_byte_sel_d: registered memory read
  pend2_active,   \* a fused pair still owes its second register write
  pend2_fire,     \* pend2_fire_valid, _addr, _data
  regs,           \* register file
  dmem,           \* data memory
  muldiv,         \* muldiv_iter
  isol_hold,      \* q_hold of the two isolation gates
  csr,            \* csr_file
  uart            \* what the testbench has seen stored to UART_TXDATA

vars == <<imem, pc, fetch, ifid, id_bound, idex, exmem, memwb, mem_rdata,
          pend2_active, pend2_fire, regs, dmem, muldiv, isol_hold, csr, uart>>

-----------------------------------------------------------------------------
(* Contents of the pipeline registers on reset, and when cleared.          *)
NoPend2 == [valid |-> FALSE, addr |-> 0, data |-> 0]
NoFuse4 == [valid |-> FALSE, bne |-> FALSE, target |-> 0]

FetchBubble == [pc |-> MemBase, instr |-> NOP, next |-> NOP]
IfIdBubble  == [pc |-> 0, instr |-> NOP, next |-> NOP, lookahead_valid |-> FALSE]

NoControl ==
  [reg_write |-> FALSE, mem_read |-> FALSE, mem_write |-> FALSE, mem_width |-> "word",
   mem_unsigned |-> FALSE, alu_op |-> "ADD",
   src_a_pc |-> FALSE, src_b_imm |-> FALSE, result_src |-> "alu", is_muldiv |-> FALSE,
   is_branch |-> FALSE, is_jal |-> FALSE, is_jalr |-> FALSE, fisol_bound |-> FALSE,
   fisol_off |-> FALSE, illegal |-> FALSE, is_csr |-> FALSE]

IdExBubble ==
  [pc |-> 0, rs1_data |-> 0, rs2_data |-> 0, imm |-> 0, rs1 |-> 0, rs2 |-> 0, rd |-> 0,
   instr |-> NOP, ctl |-> NoControl, pend2 |-> NoPend2, fuse4 |-> NoFuse4]

ExMemReset ==
  [alu_result |-> 0, muldiv_result |-> 0, rs2_data |-> 0, pc4 |-> 0, imm |-> 0, rd |-> 0,
   reg_write |-> FALSE, mem_read |-> FALSE, mem_write |-> FALSE, mem_width |-> "word",
   mem_unsigned |-> FALSE, result_src |-> "alu",
   is_muldiv |-> FALSE, is_csr |-> FALSE, csr_addr |-> "none", pend2 |-> NoPend2]

MemWbReset ==
  [alu_result |-> 0, muldiv_result |-> 0, pc4 |-> 0, imm |-> 0, rd |-> 0,
   reg_write |-> FALSE, mem_width |-> "byte", mem_unsigned |-> FALSE,
   result_src |-> "alu", is_muldiv |-> FALSE, is_csr |-> FALSE,
   csr_addr |-> "none", pend2 |-> NoPend2]

-----------------------------------------------------------------------------
(* MEM and WB: values on their way to the register file.                   *)

(* The MEM value offered to EX; a load has none yet.                       *)
MemForwardValue ==
  CASE exmem.result_src = "alu" -> IF exmem.is_muldiv THEN exmem.muldiv_result
                                   ELSE exmem.alu_result
    [] exmem.result_src = "mem" -> DeadBeef
    [] exmem.result_src = "pc4" -> exmem.pc4
    [] OTHER -> exmem.imm

WbData ==
  CASE memwb.result_src = "alu" -> IF memwb.is_muldiv THEN memwb.muldiv_result
                                   ELSE memwb.alu_result
    [] memwb.result_src = "mem" -> LoadLanes(mem_rdata.raw, memwb.mem_width,
                                             memwb.mem_unsigned, mem_rdata.byte_sel)
    [] memwb.result_src = "pc4" -> memwb.pc4
    [] OTHER -> memwb.imm

-----------------------------------------------------------------------------
(* EX.                                                                     *)

(* Variant: the start pulse repeats when the result is ready.              *)
MuldivStartAgain == idex.ctl.is_muldiv /\ ~muldiv.busy

MuldivStart  == idex.ctl.is_muldiv /\ ~muldiv.busy /\ ~muldiv.done
MuldivActive == muldiv.busy \/ MuldivStart

Forwarded(rs, from_id) ==
  LET sel == ForwardSelect(rs, exmem.rd, exmem.reg_write, memwb.rd, memwb.reg_write)
  IN CASE sel = "MEM" -> MemForwardValue
       [] sel = "WB"  -> WbData
       [] OTHER       -> from_id

FwdA == Forwarded(idex.rs1, idex.rs1_data)
FwdB == Forwarded(idex.rs2, idex.rs2_data)

AluResult == Alu(idex.ctl.alu_op, IF idex.ctl.src_a_pc THEN idex.pc ELSE FwdA,
                                  IF idex.ctl.src_b_imm THEN idex.imm ELSE FwdB)

(* A fused compare-and-branch tests the comparator's output directly.      *)
Fuse4Taken == idex.fuse4.valid /\ (idex.fuse4.bne <=> AluResult # 0)

TrapTaken == idex.ctl.illegal

Redirect ==
  \/ idex.ctl.is_branch /\ BranchTaken(idex.instr.f3, FwdA, FwdB)
  \/ Fuse4Taken
  \/ idex.ctl.is_jal
  \/ idex.ctl.is_jalr
  \/ TrapTaken

RedirectTarget ==
  CASE TrapTaken -> csr["mtvec"]
    [] ~TrapTaken /\ idex.ctl.is_jalr -> JalrTarget(FwdA, idex.imm)
    [] ~TrapTaken /\ ~idex.ctl.is_jalr /\ idex.fuse4.valid -> idex.fuse4.target
    [] OTHER -> Add(idex.pc, idex.imm)

(* CSR read in EX, from the youngest older CSR instruction on the same     *)
(* address, else from the file.                                            *)
CsrReadEx ==
  CASE exmem.is_csr /\ exmem.csr_addr = idex.instr.csr -> exmem.muldiv_result
    [] ~(exmem.is_csr /\ exmem.csr_addr = idex.instr.csr)
         /\ memwb.is_csr /\ memwb.csr_addr = idex.instr.csr -> memwb.muldiv_result
    [] OTHER -> CsrRead(csr, idex.instr.csr)

(* Operand isolation in front of the multiply/divide unit: the gates pass  *)
(* the forwarded operands while the unit is active, else hold.             *)
GateOpen  == ~ISOL_EN \/ MuldivActive
(* Variant: a closed gate drives zero.                                     *)
GatedToZero(i, d) == IF GateOpen THEN d ELSE 0

Gated(i, d) == IF GateOpen THEN d ELSE isol_hold[i]

(* Variant: the cycle of the start pulse counts as idle.                   *)
IsolActiveBusy == ISOL_EN /\ ~muldiv.busy /\ ~(BR_CMP_EN /\ idex.ctl.is_branch)

IsolActive == ISOL_EN /\ ~MuldivActive /\ ~(BR_CMP_EN /\ idex.ctl.is_branch)

-----------------------------------------------------------------------------
(* ID: hazards, register read and fusion.                                  *)

(* Variant: a load is noticed in MEM, not yet in EX.                       *)
LoadUseHazardMemOnly ==
  LoadUse(exmem.mem_read, exmem.rd, ifid.instr.rs1, ifid.instr.rs2)

LoadUseHazard ==
  \/ LoadUse(idex.ctl.mem_read, idex.rd, ifid.instr.rs1, ifid.instr.rs2)
  \/ LoadUse(exmem.mem_read, exmem.rd, ifid.instr.rs1, ifid.instr.rs2)

(* Variant: EX goes on filling while a second write is pending.            *)
ClearExNoPend2 == FlushEx(Redirect, LoadUseHazard, MuldivActive, FALSE)

StallFront == StallPcIfId(LoadUseHazard, MuldivActive, pend2_active)
FlushFront == Redirect
ClearEx    == FlushEx(Redirect, LoadUseHazard, MuldivActive, pend2_active)

(* The register file has one write port, and a pending second write has    *)
(* priority on it.  A read in the same cycle sees the value being written. *)
PortWrite ==
  IF pend2_fire.valid
  THEN [we |-> TRUE, rd |-> pend2_fire.addr, data |-> pend2_fire.data]
  ELSE [we |-> memwb.reg_write /\ ~MuldivActive, rd |-> memwb.rd, data |-> WbData]

RegRead(r) ==
  IF r = 0 THEN 0
  ELSE IF PortWrite.we /\ PortWrite.rd = r THEN PortWrite.data
  ELSE regs[r]

(* Some instruction in EX, MEM or WB is going to write r.                  *)
InFlight(r) ==
  \/ idex.ctl.reg_write /\ idex.rd = r
  \/ exmem.reg_write /\ exmem.rd = r
  \/ memwb.reg_write /\ memwb.rd = r

HazardClear(k) ==
  CASE k \in {1, 2, 3} -> ~InFlight(ifid.instr.rd)
    [] k = 4 -> TRUE
    [] OTHER -> /\ ~InFlight(ifid.instr.rs1)
                /\ ifid.instr.op = "OP" => ~InFlight(ifid.instr.rs2)

Fuse(k) ==
  /\ FUSION_EN /\ ifid.lookahead_valid /\ ~id_bound
  /\ Matches(k, ifid.instr, ifid.next)
  /\ HazardClear(k)

AnyFuse == \E k \in Idiom : Fuse(k)

(* Variant: the event is raised in every cycle a pair matches in ID.       *)
FusionActiveUngated == AnyFuse

FusionActive == AnyFuse /\ ~MuldivActive /\ ~ClearEx

(* What id_ex_reg loads.  A fused pair enters EX as one operation; idioms  *)
(* 3 and 5 have two destinations, and the one ID has already computed      *)
(* rides along as pend2.                                                   *)
IssuedControl ==
  LET d == Decode(ifid.instr) IN
  IF Fuse(3) THEN [d EXCEPT !.reg_write = TRUE, !.result_src = "pc4", !.is_jalr = TRUE]
  ELSE IF Fuse(5) THEN [d EXCEPT !.mem_read = TRUE, !.mem_width = "word", !.result_src = "mem"]
  ELSE d

Issued ==
  LET i == ifid.instr
      n == ifid.next
      jalr_base == Add(ifid.pc, i.imm)
      second_operand == IF i.op = "OP" THEN RegRead(i.rs2) ELSE i.imm
  IN [pc       |-> IF Fuse(3) THEN Add(ifid.pc, 4) ELSE ifid.pc,
      rs1_data |-> IF Fuse(3) THEN jalr_base ELSE RegRead(i.rs1),
      rs2_data |-> RegRead(i.rs2),
      imm      |-> CASE Fuse(1) \/ Fuse(2) -> Add(i.imm, n.imm)
                     [] Fuse(3) -> n.imm
                     [] OTHER -> i.imm,
      rs1      |-> IF Fuse(3) THEN i.rd ELSE i.rs1,
      rs2      |-> i.rs2,
      rd       |-> IF Fuse(3) \/ Fuse(5) THEN n.rd ELSE i.rd,
      instr    |-> i,
      ctl      |-> IssuedControl,
      pend2    |-> [valid |-> Fuse(3) \/ Fuse(5), addr |-> i.rd,
                    data  |-> IF Fuse(3) THEN jalr_base
                              ELSE Add(RegRead(i.rs1), second_operand)],
      fuse4    |-> [valid |-> Fuse(4), bne |-> n.f3 % 2 = 1,
                    target |-> Add(Add(ifid.pc, 4), n.imm)]]

-----------------------------------------------------------------------------
(* Registers after reset; the memories keep what was loaded into them.     *)
Init ==
  /\ imem \in Programs
  /\ pc = MemBase
  /\ fetch = FetchBubble
  /\ ifid = IfIdBubble
  /\ id_bound = FALSE
  /\ idex = IdExBubble
  /\ exmem = ExMemReset
  /\ memwb = MemWbReset
  /\ mem_rdata = [raw |-> 0, byte_sel |-> 0]
  /\ pend2_active = FALSE
  /\ pend2_fire = NoPend2
  /\ regs = BootRegs
  /\ dmem = BootDmem
  /\ muldiv = MuldivReset
  /\ isol_hold = [i \in {"a", "b"} |-> 0]
  /\ csr = CsrReset
  /\ uart = UartInit

(* A redirect moves the program counter even when the front end is stalled.*)
NextPC ==
  pc' = IF Redirect THEN RedirectTarget ELSE IF StallFront THEN pc ELSE Add(pc, 4)

(* Variant: a flush leaves the lookahead word in the fetch register.       *)
NextFetchStale ==
  fetch' = IF FlushFront THEN [FetchBubble EXCEPT !.next = fetch.next]
           ELSE IF StallFront THEN fetch
           ELSE [pc |-> pc, instr |-> imem[MemIndex(pc)], next |-> imem[MemIndex(Add(pc, 4))]]

(* The fetch register reads the word at pc and the one after it.           *)
NextFetch ==
  fetch' = IF FlushFront THEN FetchBubble
           ELSE IF StallFront THEN fetch
           ELSE [pc |-> pc, instr |-> imem[MemIndex(pc)], next |-> imem[MemIndex(Add(pc, 4))]]

(* Variant: the second instruction of a fused pair is issued again.        *)
NextIfIdTwice ==
  ifid' = IF FlushFront THEN IfIdBubble
          ELSE IF StallFront THEN ifid
          ELSE [pc |-> fetch.pc, instr |-> fetch.instr, next |-> fetch.next,
                lookahead_valid |-> ~FlushFront]

(* A pair that fuses consumes the second instruction: ID gets a bubble in  *)
(* place of the copy of it waiting in the fetch register.                  *)
NextIfId ==
  ifid' = IF FlushFront \/ (AnyFuse /\ ~StallFront) THEN IfIdBubble
          ELSE IF StallFront THEN ifid
          ELSE [pc |-> fetch.pc, instr |-> fetch.instr, next |-> fetch.next,
                lookahead_valid |-> ~FlushFront]

(* Variant: a flush ends the region.                                       *)
NextBoundFlushed ==
  id_bound' = IF FlushFront THEN FALSE
              ELSE IF StallFront THEN id_bound
              ELSE IF Decode(ifid.instr).fisol_bound THEN TRUE
              ELSE IF Decode(ifid.instr).fisol_off THEN FALSE
              ELSE id_bound

NextBound ==
  id_bound' = IF StallFront THEN id_bound
              ELSE IF Decode(ifid.instr).fisol_bound THEN TRUE
              ELSE IF Decode(ifid.instr).fisol_off THEN FALSE
              ELSE id_bound

(* Clearing wins over stalling.                                            *)
NextIdEx ==
  idex' = IF ClearEx THEN IdExBubble ELSE IF MuldivActive THEN idex ELSE Issued

NextExMem ==
  exmem' = IF MuldivActive THEN exmem
           ELSE [alu_result    |-> IF idex.ctl.is_csr THEN CsrReadEx ELSE AluResult,
                 muldiv_result |-> IF idex.ctl.is_csr
                                   THEN CsrWriteValue(idex.instr.f3, CsrReadEx, FwdA)
                                   ELSE MuldivBus(muldiv),
                 rs2_data      |-> FwdB,
                 pc4           |-> Add(idex.pc, 4),
                 imm           |-> idex.imm,
                 rd            |-> idex.rd,
                 reg_write     |-> idex.ctl.reg_write,
                 mem_read      |-> idex.ctl.mem_read,
                 mem_write     |-> idex.ctl.mem_write,
                 mem_width     |-> idex.ctl.mem_width,
                 mem_unsigned  |-> idex.ctl.mem_unsigned,
                 result_src    |-> idex.ctl.result_src,
                 is_muldiv     |-> idex.ctl.is_muldiv,
                 is_csr        |-> idex.ctl.is_csr,
                 csr_addr      |-> idex.instr.csr,
                 pend2         |-> idex.pend2]

NextMemWb ==
  memwb' = IF MuldivActive THEN memwb
           ELSE [alu_result    |-> exmem.alu_result,
                 muldiv_result |-> exmem.muldiv_result,
                 pc4           |-> exmem.pc4,
                 imm           |-> exmem.imm,
                 rd            |-> exmem.rd,
                 reg_write     |-> exmem.reg_write,
                 mem_width     |-> exmem.mem_width,
                 mem_unsigned  |-> exmem.mem_unsigned,
                 result_src    |-> exmem.result_src,
                 is_muldiv     |-> exmem.is_muldiv,
                 is_csr        |-> exmem.is_csr,
                 csr_addr      |-> exmem.csr_addr,
                 pend2         |-> exmem.pend2]

(* Variant: armed by a pair that is flushed on its way into EX.            *)
NextPend2ActiveEager ==
  pend2_active' = IF (Fuse(3) \/ Fuse(5)) /\ ~StallFront THEN TRUE
                  ELSE IF pend2_fire.valid THEN FALSE
                  ELSE pend2_active

(* Variant: released when the second write is in WB, a cycle early.        *)
NextPend2ActiveEarly ==
  pend2_active' = IF (Fuse(3) \/ Fuse(5)) /\ ~StallFront /\ ~ClearEx THEN TRUE
                  ELSE IF memwb.pend2.valid THEN FALSE
                  ELSE pend2_active

(* A fusion with two destinations stops the front end until its second     *)
(* write has reached the register file.                                    *)
NextPend2Active ==
  pend2_active' = IF (Fuse(3) \/ Fuse(5)) /\ ~StallFront /\ ~ClearEx THEN TRUE
                  ELSE IF pend2_fire.valid THEN FALSE
                  ELSE pend2_active

NextPend2Fire == pend2_fire' = IF MuldivActive THEN pend2_fire ELSE memwb.pend2

NextRegs == regs' = RegWrite(regs, PortWrite.we, PortWrite.rd, PortWrite.data)

(* A store leaves MEM once, to the data memory or to the UART.             *)
StoreLeavesMem == exmem.mem_write /\ ~MuldivActive

StoreInMem ==
  [dmem EXCEPT ![MemIndex(exmem.alu_result)] =
     StoreLanes(@, exmem.mem_width, MemLane(exmem.alu_result), exmem.rs2_data)]

NextDmem ==
  dmem' = IF StoreLeavesMem /\ exmem.alu_result # UartAddr
          THEN StoreInMem ELSE dmem

NextUart ==
  uart' = IF StoreLeavesMem /\ exmem.alu_result = UartAddr
          THEN UartSend(uart, exmem.rs2_data)
          ELSE uart

MemRead == [raw |-> dmem[MemIndex(exmem.alu_result)], byte_sel |-> MemLane(exmem.alu_result)]

(* Variant: the read register follows MEM through a freeze.                *)
NextMemRdataFree == mem_rdata' = MemRead

NextMemRdata == mem_rdata' = IF MuldivActive THEN mem_rdata ELSE MemRead

NextMuldiv ==
  muldiv' = MuldivNext(muldiv, MuldivStart, MuldivActive,
                       Gated("a", FwdA), Gated("b", FwdB), idex.instr.f3)

NextIsolHold ==
  isol_hold' = IF GateOpen THEN [i \in {"a", "b"} |-> IF i = "a" THEN FwdA ELSE FwdB]
               ELSE isol_hold

(* Variant: the multiply/divide event is the level, not the start pulse.   *)
NextCsrLevel ==
  csr' = CsrCount(CsrPort(csr, TrapTaken, idex.pc, idex.instr,
                          memwb.is_csr /\ ~MuldivActive, memwb.csr_addr, memwb.muldiv_result),
                  MuldivActive, IsolActive, FusionActive)

NextCsr ==
  csr' = CsrCount(CsrPort(csr, TrapTaken, idex.pc, idex.instr,
                          memwb.is_csr /\ ~MuldivActive, memwb.csr_addr, memwb.muldiv_result),
                  MuldivStart, IsolActive, FusionActive)

ClockEdge ==
  /\ NextPC /\ NextFetch /\ NextIfId /\ NextBound
  /\ NextIdEx /\ NextExMem /\ NextMemWb /\ NextMemRdata
  /\ NextPend2Active /\ NextPend2Fire
  /\ NextRegs /\ NextDmem /\ NextUart
  /\ NextMuldiv /\ NextIsolHold /\ NextCsr
  /\ UNCHANGED imem

Next == ClockEdge

(* The clock is free-running.                                              *)
Spec == Init /\ [][Next]_vars /\ WF_vars(Next)
-----------------------------------------------------------------------------
(* Type invariant.                                                         *)

Pend2 == [valid : BOOLEAN, addr : Reg, data : Word]

Control ==
  [reg_write : BOOLEAN, mem_read : BOOLEAN, mem_write : BOOLEAN,
   mem_width : {"byte", "half", "word"}, mem_unsigned : BOOLEAN, alu_op : AluOp,
   src_a_pc : BOOLEAN, src_b_imm : BOOLEAN, result_src : {"alu", "mem", "pc4", "imm"},
   is_muldiv : BOOLEAN, is_branch : BOOLEAN, is_jal : BOOLEAN, is_jalr : BOOLEAN,
   fisol_bound : BOOLEAN, fisol_off : BOOLEAN, illegal : BOOLEAN, is_csr : BOOLEAN]

(* Every register of the design holds a value of its declared width, and   *)
(* the iteration counter of the multiply/divide unit stays below W + 1.    *)
TypeOK ==
  /\ imem \in [0 .. NW-1 -> Instr]
  /\ pc \in Word
  /\ fetch \in [pc : Word, instr : Instr, next : Instr]
  /\ ifid \in [pc : Word, instr : Instr, next : Instr, lookahead_valid : BOOLEAN]
  /\ id_bound \in BOOLEAN /\ pend2_active \in BOOLEAN
  /\ idex \in [pc : Word, rs1_data : Word, rs2_data : Word, imm : Word,
               rs1 : Reg, rs2 : Reg, rd : Reg, instr : Instr, ctl : Control, pend2 : Pend2,
               fuse4 : [valid : BOOLEAN, bne : BOOLEAN, target : Word]]
  /\ exmem \in [alu_result : Word, muldiv_result : Word, rs2_data : Word, pc4 : Word,
                imm : Word, rd : Reg, reg_write : BOOLEAN, mem_read : BOOLEAN,
                mem_write : BOOLEAN, mem_width : {"byte", "half", "word"},
                mem_unsigned : BOOLEAN, result_src : {"alu", "mem", "pc4", "imm"},
                is_muldiv : BOOLEAN, is_csr : BOOLEAN, csr_addr : CsrAddr, pend2 : Pend2]
  /\ memwb \in [alu_result : Word, muldiv_result : Word, pc4 : Word, imm : Word, rd : Reg,
                reg_write : BOOLEAN, mem_width : {"byte", "half", "word"},
                mem_unsigned : BOOLEAN, result_src : {"alu", "mem", "pc4", "imm"},
                is_muldiv : BOOLEAN, is_csr : BOOLEAN, csr_addr : CsrAddr, pend2 : Pend2]
  /\ pend2_fire \in Pend2
  /\ mem_rdata \in [raw : Word, byte_sel : Lane]
  /\ regs \in [Reg -> Word] /\ regs[0] = 0
  /\ dmem \in [0 .. NW-1 -> Word]
  /\ muldiv \in MuldivRegisters
  /\ isol_hold \in [{"a", "b"} -> Word]
  /\ csr \in [TrapCsr \cup CounterCsr -> Word \cup 0 .. CntMod-1]
  /\ uart \in [count : 0 .. UartMod-1, last : 0 .. ByteMod-1]

-----------------------------------------------------------------------------
(* The second write of a fused pair.                                       *)

ExIdle  == ~idex.ctl.reg_write /\ ~idex.ctl.is_muldiv /\ ~idex.pend2.valid
MemIdle == ~exmem.reg_write /\ ~exmem.pend2.valid
WbIdle  == ~memwb.reg_write /\ ~memwb.pend2.valid

Pend2InEx  == idex.pend2.valid /\ ~idex.ctl.is_muldiv /\ ~exmem.pend2.valid
              /\ ~memwb.pend2.valid /\ ~pend2_fire.valid
Pend2InMem == exmem.pend2.valid /\ ExIdle /\ ~memwb.pend2.valid /\ ~pend2_fire.valid
Pend2InWb  == memwb.pend2.valid /\ ExIdle /\ MemIdle /\ ~pend2_fire.valid
Pend2Fires == pend2_fire.valid /\ ExIdle /\ MemIdle /\ WbIdle
Pend2None  == /\ ~idex.pend2.valid /\ ~exmem.pend2.valid
              /\ ~memwb.pend2.valid /\ ~pend2_fire.valid

(* pend2_active is raised exactly while one second write is on its way,    *)
(* that write is alone (nothing that writes a register or starts the       *)
(* multiply/divide unit follows it into the pipeline), and it is never     *)
(* caught in a multiply/divide freeze, so it retires in a fixed number of  *)
(* cycles (core_top_pipelined.sv:245-261, hazard_unit.sv:74-82).           *)
Pend2Protocol ==
  IF pend2_active
  THEN ~muldiv.busy /\ (Pend2InEx \/ Pend2InMem \/ Pend2InWb \/ Pend2Fires)
  ELSE Pend2None

(* When the second write takes the register file's only write port, no     *)
(* instruction in WB wants it: the priority of pend2_fire_valid over       *)
(* wb_reg_write never drops a write (core_top_pipelined.sv:634-636).       *)
WbPortConflictFree == pend2_fire.valid => ~memwb.reg_write

-----------------------------------------------------------------------------
(* The multiply/divide freeze.                                             *)

(* The operation that froze the pipeline is still in EX, with the operands *)
(* the unit latched still coming out of the forwarding network, however    *)
(* long the freeze lasts (core_top_pipelined.sv:374-393, spec 2.3: the     *)
(* operand registers neither glitch nor reload).                           *)
MuldivOperandsStable ==
  muldiv.busy => /\ idex.ctl.is_muldiv
                 /\ muldiv.op_r = idex.instr.f3
                 /\ muldiv.op_a_r = FwdA

(* The unit reports a result only to the operation that asked for it, and  *)
(* it is the one muldiv.sv computes from the operands EX presents now.     *)
MuldivDelivers ==
  muldiv.done => /\ idex.ctl.is_muldiv
                 /\ MuldivBus(muldiv) = MuldivResult(idex.instr.f3, FwdA, FwdB)

(* What both rest on: idiom 4 takes no multiply of the program for a       *)
(* compare, as its pattern, which leaves funct7 out, would                 *)
(* (core_top_pipelined.sv:152-165).                                        *)
ProductsNotCompared ==
  FUSION_EN => \A p \in Programs, x \in Word :
                 LET i == p[MemIndex(x)]
                     n == p[MemIndex(Add(x, 4))]
                 IN Pattern4(i, n) => ~Decode(i).is_muldiv

(* Operand isolation: with ISOL_EN the operands presented to the unit only *)
(* switch in a cycle in which it is active, whatever goes through EX in    *)
(* between (isol_gate.sv:33-44, core_top_pipelined.sv:376-385).            *)
UnitOperands == <<Gated("a", FwdA), Gated("b", FwdB)>>
IsolationHolds == [][ISOL_EN /\ UnitOperands' # UnitOperands => MuldivActive']_vars

-----------------------------------------------------------------------------
(* The front end.                                                          *)

(* The lookahead word is the successor of the instruction in ID in the     *)
(* stream being executed, never a word left over from before a redirect:   *)
(* with lookahead_valid set, either both come from the same place in the   *)
(* program, or both are the NOPs of a flushed fetch                        *)
(* (core_top_pipelined.sv:56-82, pipeline_regs.sv:18-35).                  *)
LookaheadFromStream ==
  ifid.lookahead_valid =>
    \/ /\ ifid.instr = imem[MemIndex(ifid.pc)]
       /\ ifid.next = imem[MemIndex(Add(ifid.pc, 4))]
    \/ ifid.pc = MemBase /\ ifid.instr = NOP /\ ifid.next = NOP

-----------------------------------------------------------------------------
(* Progress: no combination of load-use stalls, freezes and flushes stops  *)
(* the machine.  Time and again the instruction in EX leaves it and the    *)
(* front end is free to issue (hazard_unit.sv:74-82).                      *)
KeepsIssuing == []<>(~StallFront)
=============================================================================
