---------------------------- MODULE ResetProofs ----------------------------
(***************************************************************************)
(* What is proved of the core under its reset line, for every parameter,   *)
(* every program and any number of resets: the protocol of the deferred    *)
(* second write, and the lookahead word, are not disturbed by a reset that *)
(* falls in the middle of an episode; and what a reset leaves is what a    *)
(* program-order machine leaves that is restarted.                         *)
(*                                                                         *)
(* The steps of the clock are those of the core (PipelineProofs,           *)
(* RefinementProofs).  What is new is that the reset clears one bit of     *)
(* pend2_fire and leaves its address and data, so the invariant has to say *)
(* that the bit is there; and that the memories keep what was written into *)
(* them, so it has to say which state of the program that is.              *)
(***************************************************************************)
EXTENDS Reset, RefinementProofs

(* Each copy of the second write, on its way to the write port, has a      *)
(* valid bit.                                                              *)
Pend2HasValid ==
  /\ "valid" \in DOMAIN idex.pend2 /\ "valid" \in DOMAIN exmem.pend2
  /\ "valid" \in DOMAIN memwb.pend2 /\ "valid" \in DOMAIN pend2_fire

ResetInv == Pend2Inv /\ Pend2HasValid

-----------------------------------------------------------------------------
(* The reset itself.                                                       *)

(* Whatever was under way, the cleared registers hold no second write, and *)
(* control bits that are Boolean.                                          *)
LEMMA ClearedPend2Inv ==
  ASSUME Pend2HasValid, Cleared
  PROVE  ResetInv'
  <1>1. /\ id_bound' = FALSE /\ pend2_active' = FALSE
        /\ ifid' = IfIdBubble /\ idex' = IdExBubble
        /\ exmem' = ExMemReset /\ memwb' = MemWbReset /\ muldiv' = MuldivReset
    BY DEF Cleared, ResetExMem, ResetPend2Active, ResetMuldiv
  <1>2. pend2_fire'.valid = FALSE /\ "valid" \in DOMAIN pend2_fire'
    BY DEF Cleared, ResetPend2Fire, Pend2HasValid
  <1>3. ControlTypes'
    <2>1. NoControl \in Control
      BY DEF NoControl, Control, AluOp
    <2> QED BY <1>1, <1>2, <2>1 DEF ControlTypes, IfIdBubble, IdExBubble, ExMemReset,
                                    MemWbReset, NoPend2, NoFuse4
  <1>4. MuldivHandshake(muldiv')
    BY <1>1 DEF MuldivHandshake, MuldivReset
  <1>5. Pend2Protocol'
    BY <1>1, <1>2 DEF Pend2Protocol, Pend2None, IdExBubble, ExMemReset, MemWbReset, NoPend2
  <1>6. Pend2HasValid'
    BY <1>1, <1>2 DEF Pend2HasValid, IdExBubble, ExMemReset, MemWbReset, NoPend2
  <1> QED BY <1>3, <1>4, <1>5, <1>6 DEF ResetInv, Pend2Inv

(* The cleared front end holds a flushed fetch and no valid lookahead.     *)
LEMMA ClearedLookahead ==
  ASSUME Cleared
  PROVE  LookaheadInv'
  <1>1. fetch' = FetchBubble /\ ifid' = IfIdBubble
    BY DEF Cleared
  <1> QED BY <1>1 DEF LookaheadInv, FetchFromStream, LookaheadFromStream, FetchBubble, IfIdBubble

-----------------------------------------------------------------------------
(* The clock, with the reset line high.                                    *)

(* A clock edge keeps the field in place.                                  *)
LEMMA StepPend2HasValid ==
  ASSUME Pend2HasValid, ClockEdge
  PROVE  Pend2HasValid'
  <1>1. "valid" \in DOMAIN idex'.pend2
    <2>1. CASE idex' = IdExBubble
      BY <2>1 DEF IdExBubble, NoPend2
    <2>2. CASE idex' = idex
      BY <2>2 DEF Pend2HasValid
    <2>3. CASE idex' = Issued
      BY <2>3 DEF Issued
    <2> QED BY <2>1, <2>2, <2>3 DEF ClockEdge, NextIdEx
  <1>2. "valid" \in DOMAIN exmem'.pend2 /\ "valid" \in DOMAIN memwb'.pend2
    BY DEF ClockEdge, NextExMem, NextMemWb, Pend2HasValid
  <1>3. "valid" \in DOMAIN pend2_fire'
    BY DEF ClockEdge, NextPend2Fire, Pend2HasValid
  <1> QED BY <1>1, <1>2, <1>3 DEF Pend2HasValid

-----------------------------------------------------------------------------
(* Before the first reset it holds as without one.                         *)
LEMMA InitResetInv == RInit => ResetInv
  <1> SUFFICES ASSUME RInit PROVE ResetInv
    OBVIOUS
  <1>1. Pend2HasValid
    BY DEF RInit, Init, Pend2HasValid, IdExBubble, ExMemReset, MemWbReset, NoPend2
  <1> QED BY <1>1, InitPend2Inv DEF RInit, ResetInv

(* Clock edges keep it, and every reset establishes it again.              *)
LEMMA StepResetInv == ResetInv /\ [RNext]_rvars => ResetInv'
  <1> SUFFICES ASSUME ResetInv, [RNext]_rvars PROVE ResetInv'
    OBVIOUS
  <1>1. CASE Clock
    <2>1. ClockEdge
      BY <1>1 DEF Clock, Next
    <2>2. Pend2Inv'
      BY <2>1, StepPend2Inv DEF ResetInv, Next
    <2> QED BY <2>1, <2>2, StepPend2HasValid DEF ResetInv
  <1>2. CASE Assert
    BY <1>2, ClearedPend2Inv DEF Assert, ResetInv
  <1>3. CASE HeldEdge
    BY <1>3, ClearedPend2Inv DEF HeldEdge, ResetInv
  <1>4. CASE UNCHANGED vars
    <2>1. Pend2Inv'
      BY <1>4, StepPend2Inv DEF ResetInv
    <2> QED BY <1>4, <2>1 DEF vars, ResetInv, Pend2HasValid
  <1>5. Release \/ UNCHANGED rvars => UNCHANGED vars
    BY DEF Release, rvars
  <1> QED BY <1>1, <1>2, <1>3, <1>4, <1>5 DEF RNext

(* So it always holds.                                                     *)
LEMMA ResetInvariance == RSpec => []ResetInv
  BY InitResetInv, StepResetInv, PTL DEF RSpec

(* A reset in any cycle, and of any length, leaves pend2_active up exactly *)
(* while one second write is on its way, alone: the episode it cuts short  *)
(* neither leaves the front end stalled nor a write behind                 *)
(* (core_top_pipelined.sv:245-261, pipeline_regs.sv:102-110).              *)
THEOREM Pend2ProtocolThroughReset == RSpec => []Pend2Protocol
  <1>1. ResetInv => Pend2Protocol
    BY DEF ResetInv, Pend2Inv
  <1> QED BY <1>1, ResetInvariance, PTL

(* Nor does a write from before a reset ever meet one from after it at the *)
(* only write port of the register file (core_top_pipelined.sv:634-636).   *)
THEOREM WbPortThroughReset == RSpec => []WbPortConflictFree
  <1>1. ResetInv => WbPortConflictFree
    BY DEF ResetInv, Pend2Inv, Pend2Protocol, WbPortConflictFree, Pend2InEx, Pend2InMem,
           Pend2InWb, Pend2Fires, Pend2None, WbIdle
  <1> QED BY <1>1, ResetInvariance, PTL

(* The first instructions after a reset are paired with their successors,  *)
(* never with a word fetched before it                                     *)
(* (core_top_pipelined.sv:56-82, pipeline_regs.sv:18-35).                  *)
THEOREM LookaheadThroughReset == RSpec => []LookaheadFromStream
  <1>1. RInit => LookaheadInv
    BY DEF RInit, Init, LookaheadInv, FetchFromStream, LookaheadFromStream, IfIdBubble
  <1>2. LookaheadInv /\ [RNext]_rvars => LookaheadInv'
    <2> SUFFICES ASSUME LookaheadInv, [RNext]_rvars PROVE LookaheadInv'
      OBVIOUS
    <2>1. CASE Clock
      BY <2>1, StepLookahead DEF Clock
    <2>2. CASE Assert \/ HeldEdge
      BY <2>2, ClearedLookahead DEF Assert, HeldEdge
    <2>3. CASE Release \/ UNCHANGED rvars
      <3>1. UNCHANGED vars
        BY <2>3 DEF Release, rvars
      <3> QED BY <3>1, StepLookahead
    <2> QED BY <2>1, <2>2, <2>3 DEF RNext
  <1>3. LookaheadInv => LookaheadFromStream
    BY DEF LookaheadInv
  <1> QED BY <1>1, <1>2, <1>3, PTL DEF RSpec

-----------------------------------------------------------------------------
(* The data path.  What has no reset clause keeps what it holds, or is     *)
(* clocked while the line is low; the rest takes the values of a reset.    *)
LEMMA ClearedData ==
  ASSUME DataInv, Cleared, imem' = imem,
         (regs \in [Reg -> Word] /\ regs[0] = 0)', (dmem \in [0 .. NW-1 -> Word])',
         (isol_hold \in [{"a", "b"} -> Word])',
         (uart \in [count : 0 .. UartMod-1, last : 0 .. ByteMod-1])',
         (mem_rdata \in [raw : Word, byte_sel : Lane])'
  PROVE  DataInv'
  <1>1. /\ pc' = MemBase /\ fetch' = FetchBubble /\ ifid' = IfIdBubble /\ id_bound' = FALSE
        /\ idex' = IdExBubble /\ exmem' = ExMemReset /\ memwb' = MemWbReset
        /\ pend2_active' = FALSE /\ muldiv' = MuldivReset /\ csr' = CsrReset
    BY DEF Cleared, ResetExMem, ResetPend2Active, ResetMuldiv
  <1>2. pend2_fire' \in Pend2
    BY DEF Cleared, ResetPend2Fire, DataInv, TypeOK, Pend2
  <1>3. imem' \in [0 .. NW-1 -> Instr]
    BY DEF DataInv, TypeOK
  <1>4. /\ fetch' \in [pc : Word, instr : Instr, next : Instr] /\ pc' \in Word
        /\ ifid' \in [pc : Word, instr : Instr, next : Instr, lookahead_valid : BOOLEAN]
        /\ id_bound' \in BOOLEAN /\ pend2_active' \in BOOLEAN
    BY <1>1, ResetValues
  <1>5. idex' \in
          [pc : Word, rs1_data : Word, rs2_data : Word, imm : Word,
           rs1 : Reg, rs2 : Reg, rd : Reg, instr : Instr, ctl : Control, pend2 : Pend2,
           fuse4 : [valid : BOOLEAN, bne : BOOLEAN, target : Word]]
    BY <1>1, ResetValues
  <1>6. exmem' \in
          [alu_result : Word, muldiv_result : Word, rs2_data : Word, pc4 : Word,
           imm : Word, rd : Reg, reg_write : BOOLEAN, mem_read : BOOLEAN,
           mem_write : BOOLEAN, mem_width : {"byte", "half", "word"},
           mem_unsigned : BOOLEAN, result_src : {"alu", "mem", "pc4", "imm"},
           is_muldiv : BOOLEAN, is_csr : BOOLEAN, csr_addr : CsrAddr, pend2 : Pend2]
    BY <1>1, ResetValues
  <1>7. memwb' \in
          [alu_result : Word, muldiv_result : Word, pc4 : Word, imm : Word, rd : Reg,
           reg_write : BOOLEAN, mem_width : {"byte", "half", "word"},
           mem_unsigned : BOOLEAN, result_src : {"alu", "mem", "pc4", "imm"},
           is_muldiv : BOOLEAN, is_csr : BOOLEAN, csr_addr : CsrAddr, pend2 : Pend2]
    BY <1>1, ResetValues
  <1>8. /\ muldiv' \in MuldivRegisters /\ UnitPhases(muldiv')
        /\ csr' \in [TrapCsr \cup CounterCsr -> Word \cup 0 .. CntMod-1]
        /\ \A a \in TrapCsr : csr'[a] \in Word
    BY <1>1, ResetValues
  <1>9. TypeOK'
    BY <1>2, <1>3, <1>4, <1>5, <1>6, <1>7, <1>8 DEF TypeOK
  <1> QED BY <1>8, <1>9 DEF DataInv

(* With the line low, or falling, EX holds no operation and the unit works *)
(* for none.                                                               *)
LEMMA ClearedFreeze ==
  ASSUME FreezeInv, Cleared, DataInv', imem' = imem
  PROVE  FreezeInv'
  <1>1. idex' = IdExBubble /\ muldiv' = MuldivReset
    BY DEF Cleared, ResetMuldiv
  <1>2. ExInv' /\ RequestInv'
    BY <1>1 DEF ExInv, RequestInv, IdExBubble, NoControl, MuldivReset
  <1>3. imem' \in Programs
    BY DEF FreezeInv
  <1> QED BY <1>2, <1>3, ClearedLookahead DEF FreezeInv

(* A reset keeps every register to its width, and no program changes.      *)
LEMMA ResetStepData == DataInv /\ [RNext]_rvars => DataInv' /\ (~Clock => imem' = imem)
  <1> SUFFICES ASSUME DataInv, [RNext]_rvars PROVE DataInv' /\ (~Clock => imem' = imem)
    OBVIOUS
  <1>1. CASE Clock
    BY <1>1, StepData DEF Clock
  <1>2. CASE Assert
    <2>1. Cleared /\ UNCHANGED <<imem, mem_rdata, regs, dmem, isol_hold, uart>>
      BY <1>2 DEF Assert
    <2>2. /\ (regs \in [Reg -> Word] /\ regs[0] = 0)' /\ (dmem \in [0 .. NW-1 -> Word])'
          /\ (isol_hold \in [{"a", "b"} -> Word])'
          /\ (uart \in [count : 0 .. UartMod-1, last : 0 .. ByteMod-1])'
          /\ (mem_rdata \in [raw : Word, byte_sel : Lane])'
      BY <2>1 DEF DataInv, TypeOK
    <2> QED BY <2>1, <2>2, ClearedData
  <1>3. CASE HeldEdge
    <2>1. /\ Cleared /\ imem' = imem
          /\ NextMemRdata /\ NextRegs /\ NextDmem /\ NextUart /\ NextIsolHold
      BY <1>3 DEF HeldEdge
    <2>2. TypeOK
      BY DEF DataInv
    <2> QED BY <2>1, <2>2, StepMemoryTypes, ClearedData
  <1>4. CASE UNCHANGED vars
    <2>1. DataInv'
      BY <1>4, StepData
    <2> QED BY <1>4, <2>1 DEF vars
  <1>5. Release \/ UNCHANGED rvars => UNCHANGED vars
    BY DEF Release, rvars
  <1> QED BY <1>1, <1>2, <1>3, <1>4, <1>5 DEF RNext

(* Every register holds a value of its width through any number of resets, *)
(* the ones without a reset clause too (core_top_pipelined.sv:245-261,     *)
(* pipeline_regs.sv:24-26).                                                *)
THEOREM TypesThroughReset == RSpec => []TypeOK
  <1>1. RInit => DataInv
    BY InitData DEF RInit
  <1>2. DataInv /\ [RNext]_rvars => DataInv'
    BY ResetStepData
  <1>3. DataInv => TypeOK
    BY DEF DataInv
  <1> QED BY <1>1, <1>2, <1>3, PTL DEF RSpec

(* A reset in the middle of a freeze stops the unit with the operation it  *)
(* worked for: it never goes on for the program that starts anew           *)
(* (muldiv_iter.sv:60-68, core_top_pipelined.sv:374-393).                  *)
THEOREM OperandsStableThroughReset == ProductsNotCompared => (RSpec => []MuldivOperandsStable)
  <1> SUFFICES ASSUME ProductsNotCompared PROVE RSpec => []MuldivOperandsStable
    OBVIOUS
  <1>1. RInit => FreezeInv
    BY InitFreeze DEF RInit
  <1>2. FreezeInv /\ [RNext]_rvars => FreezeInv'
    <2> SUFFICES ASSUME FreezeInv, [RNext]_rvars PROVE FreezeInv'
      OBVIOUS
    <2>1. DataInv' /\ (~Clock => imem' = imem)
      BY ResetStepData DEF FreezeInv
    <2>2. CASE Clock
      BY <2>2, StepFreeze DEF Clock
    <2>3. CASE Assert \/ HeldEdge
      <3>1. Cleared /\ imem' = imem
        BY <2>3 DEF Assert, HeldEdge
      <3> QED BY <2>1, <3>1, ClearedFreeze
    <2>4. CASE Release \/ UNCHANGED rvars
      <3>1. UNCHANGED vars
        BY <2>4 DEF Release, rvars
      <3> QED BY <3>1, StepFreeze
    <2> QED BY <2>2, <2>3, <2>4 DEF RNext
  <1> QED BY <1>1, <1>2, FreezeGivesStable, PTL DEF RSpec

-----------------------------------------------------------------------------
(* The machine that is restarted has the same operators as the core too:   *)
(* RS!Op is Op of the instance of the module Restart.                      *)

(* Words.                                                                  *)
LEMMA RestartWords ==
  /\ RS!Pow2 = Pow2 /\ RS!WordMod = WordMod /\ RS!HalfMod = HalfMod
  /\ \A a, b : RS!Add(a, b) = Add(a, b) /\ RS!Sub(a, b) = Sub(a, b)
  /\ \A a : RS!Signed(a) = Signed(a)
  <1>1. RS!Pow2 = Pow2
    BY DEF RS!Pow2, Pow2
  <1>2. RS!WordMod = WordMod /\ RS!HalfMod = HalfMod
    BY <1>1 DEF RS!WordMod, WordMod, RS!HalfMod, HalfMod
  <1>3. \A a, b : RS!Add(a, b) = Add(a, b) /\ RS!Sub(a, b) = Sub(a, b)
    BY <1>2 DEF RS!Add, Add, RS!Sub, Sub
  <1>4. \A a : RS!Signed(a) = Signed(a)
    BY <1>2 DEF RS!Signed, Signed
  <1> QED BY <1>1, <1>2, <1>3, <1>4

(* The bitwise operators.                                                  *)
LEMMA RestartBits ==
  \A a, b : /\ RS!And(a, b) = And(a, b) /\ RS!Or(a, b) = Or(a, b) /\ RS!Xor(a, b) = Xor(a, b)
            /\ RS!AndNot(a, b) = AndNot(a, b)
            /\ RS!ShiftL(a, b) = ShiftL(a, b) /\ RS!ShiftR(a, b) = ShiftR(a, b)
            /\ RS!ShiftRA(a, b) = ShiftRA(a, b)
  <1>1. \A S : RS!FromBits(S) = FromBits(S)
    BY RestartWords DEF RS!FromBits, FromBits
  <1>2. \A a : RS!Bits(a) = Bits(a)
    BY RestartWords DEF RS!Bits, Bits
  <1> TAKE a, b
  <1>3. RS!And(a, b) = And(a, b)
    BY <1>1, <1>2 DEF RS!And, And
  <1>4. RS!Or(a, b) = Or(a, b)
    BY <1>1, <1>2 DEF RS!Or, Or
  <1>5. RS!Xor(a, b) = Xor(a, b)
    <2>1. \A S, T : RS!SymDiff(S, T) = SymDiff(S, T)
      BY DEF RS!SymDiff, SymDiff
    <2> QED BY <1>1, <1>2, <2>1 DEF RS!Xor, Xor
  <1>6. RS!AndNot(a, b) = AndNot(a, b)
    BY <1>1, <1>2 DEF RS!AndNot, AndNot
  <1>7. RS!ShiftL(a, b) = ShiftL(a, b)
    BY RestartWords DEF RS!ShiftL, ShiftL
  <1>8. RS!ShiftR(a, b) = ShiftR(a, b)
    BY RestartWords DEF RS!ShiftR, ShiftR
  <1>9. RS!ShiftRA(a, b) = ShiftRA(a, b)
    BY RestartWords DEF RS!ShiftRA, ShiftRA
  <1> QED BY <1>3, <1>4, <1>5, <1>6, <1>7, <1>8, <1>9

(* The decoder, the ALU and the branch comparator.                         *)
LEMMA RestartIsa ==
  /\ RS!NOP = NOP
  /\ \A i : RS!IsCsr(i) = IsCsr(i) /\ RS!Decode(i) = Decode(i)
  /\ \A op, a, b : RS!Alu(op, a, b) = Alu(op, a, b)
  /\ \A f3, a, b : RS!BranchTaken(f3, a, b) = BranchTaken(f3, a, b)
  /\ \A f3, old, a : RS!CsrWriteValue(f3, old, a) = CsrWriteValue(f3, old, a)
  /\ \A a, imm : RS!JalrTarget(a, imm) = JalrTarget(a, imm)
  <1>1. \A i : RS!IsCsr(i) = IsCsr(i)
    BY DEF RS!IsCsr, IsCsr
  <1>2. \A i : RS!Decode(i) = Decode(i)
    <2>1. \A op, f3, f7 : RS!AluFunction(op, f3, f7) = AluFunction(op, f3, f7)
      BY DEF RS!AluFunction, AluFunction
    <2>2. \A f3 : RS!MemWidth(f3) = MemWidth(f3)
      BY DEF RS!MemWidth, MemWidth
    <2> QED BY <1>1, <2>1, <2>2 DEF RS!Decode, Decode
  <1>3. \A op, a, b : RS!Alu(op, a, b) = Alu(op, a, b)
    BY RestartWords, RestartBits DEF RS!Alu, Alu
  <1>4. \A f3, a, b : RS!BranchTaken(f3, a, b) = BranchTaken(f3, a, b)
    BY RestartWords DEF RS!BranchTaken, BranchTaken
  <1>5. \A f3, old, a : RS!CsrWriteValue(f3, old, a) = CsrWriteValue(f3, old, a)
    BY RestartBits DEF RS!CsrWriteValue, CsrWriteValue, RS!CsrOp, CsrOp
  <1>6. \A a, imm : RS!JalrTarget(a, imm) = JalrTarget(a, imm)
    BY RestartWords DEF RS!JalrTarget, JalrTarget
  <1> QED BY <1>1, <1>2, <1>3, <1>4, <1>5, <1>6 DEF RS!NOP, NOP

(* The multiply/divide unit.                                               *)
LEMMA RestartMuldiv == \A op, a, b : RS!MuldivResult(op, a, b) = MuldivResult(op, a, b)
  <1>1. RS!AllOnes = AllOnes /\ RS!MinInt = MinInt
    BY RestartWords DEF RS!AllOnes, AllOnes, RS!MinInt, MinInt
  <1>2. \A x, y : RS!Quot(x, y) = Quot(x, y)
    BY DEF RS!Quot, Quot, RS!Sign, Sign, RS!Abs, Abs
  <1>3. \A x, y : RS!Rem(x, y) = Rem(x, y)
    BY <1>2 DEF RS!Rem, Rem
  <1> TAKE op, a, b
  <1> QED BY <1>1, <1>2, <1>3, RestartWords DEF RS!MuldivResult, MuldivResult

(* Registers, CSRs and the fusible pairs.                                  *)
LEMMA RestartMachine ==
  /\ RS!TrapCsr = TrapCsr /\ RS!CsrReset = CsrReset
  /\ \A c, a, x : RS!CsrWrite(c, a, x) = CsrWrite(c, a, x)
  /\ \A c, at, i : RS!CsrTrap(c, at, i) = CsrTrap(c, at, i)
  /\ \A r, we, rd, x : RS!RegWrite(r, we, rd, x) = RegWrite(r, we, rd, x)
  /\ RS!Idiom = Idiom
  /\ \A k, i, n : RS!Matches(k, i, n) <=> Matches(k, i, n)
  <1>1. RS!TrapCsr = TrapCsr /\ RS!CsrReset = CsrReset
    BY DEF RS!TrapCsr, TrapCsr, RS!CsrReset, CsrReset, RS!CounterCsr, CounterCsr
  <1>2. /\ \A c, a, x : RS!CsrWrite(c, a, x) = CsrWrite(c, a, x)
        /\ \A c, at, i : RS!CsrTrap(c, at, i) = CsrTrap(c, at, i)
    BY <1>1 DEF RS!CsrWrite, CsrWrite, RS!CsrTrap, CsrTrap
  <1>3. \A r, we, rd, x : RS!RegWrite(r, we, rd, x) = RegWrite(r, we, rd, x)
    BY DEF RS!RegWrite, RegWrite
  <1>4. \A k, i, n : RS!Matches(k, i, n) <=> Matches(k, i, n)
    BY DEF RS!Matches, Matches, RS!Pattern1, Pattern1, RS!Pattern2, Pattern2, RS!Pattern3, Pattern3,
           RS!Pattern4, Pattern4, RS!Pattern5, Pattern5, RS!AddiOnto, AddiOnto
  <1> QED BY <1>1, <1>2, <1>3, <1>4 DEF RS!Idiom, Idiom

(* The memories and the UART.                                              *)
LEMMA RestartMemory ==
  /\ \A a : RS!MemIndex(a) = MemIndex(a) /\ RS!MemLane(a) = MemLane(a)
  /\ \A m : RS!BytesOf(m) = BytesOf(m)
  /\ \A m, off, width, unsigned :
       RS!ReadBytes(m, off, width, unsigned) = ReadBytes(m, off, width, unsigned)
  /\ \A m, off, width, x : RS!WriteBytes(m, off, width, x) = WriteBytes(m, off, width, x)
  /\ RS!UartInit = UartInit
  /\ \A u, x : RS!UartSend(u, x) = UartSend(u, x)
  <1>1. \A a : RS!MemIndex(a) = MemIndex(a) /\ RS!MemLane(a) = MemLane(a)
    BY RestartWords DEF RS!MemIndex, MemIndex, RS!MemLane, MemLane
  <1>2. RS!ByteMod = ByteMod /\ RS!HalfwordMod = HalfwordMod /\ RS!Lane = Lane
    BY RestartWords DEF RS!ByteMod, ByteMod, RS!HalfwordMod, HalfwordMod, RS!Lane, Lane
  <1>3. \A k : RS!LaneMod(k) = LaneMod(k)
    BY RestartWords DEF RS!LaneMod, LaneMod
  <1>4. \A x, k : RS!ByteOf(x, k) = ByteOf(x, k)
    BY <1>2, <1>3 DEF RS!ByteOf, ByteOf
  <1>5. \A m : RS!BytesOf(m) = BytesOf(m)
    BY <1>4 DEF RS!BytesOf, BytesOf
  <1>6. \A b : RS!WordOf(b) = WordOf(b)
    BY <1>3 DEF RS!WordOf, WordOf
  <1>7. \A width, x : RS!Truncate(width, x) = Truncate(width, x)
    BY <1>2 DEF RS!Truncate, Truncate
  <1>8. \A x, m : RS!SignExtend(x, m) = SignExtend(x, m)
    BY RestartWords DEF RS!SignExtend, SignExtend
  <1>9. \A width, unsigned, x : RS!Extend(width, unsigned, x) = Extend(width, unsigned, x)
    BY <1>2, <1>7, <1>8 DEF RS!Extend, Extend
  <1>0. \A S : RS!Cardinality(S) = Cardinality(S)
    BY DEF RS!Cardinality, Cardinality
  <1>10. \A m, off, width, unsigned :
           RS!ReadBytes(m, off, width, unsigned) = ReadBytes(m, off, width, unsigned)
    BY <1>0, <1>2, <1>6, <1>9 DEF RS!ReadBytes, ReadBytes
  <1>11. \A m, off, width, x : RS!WriteBytes(m, off, width, x) = WriteBytes(m, off, width, x)
    BY <1>0, <1>4 DEF RS!WriteBytes, WriteBytes
  <1>12. RS!UartInit = UartInit /\ \A u, x : RS!UartSend(u, x) = UartSend(u, x)
    BY <1>2 DEF RS!UartInit, UartInit, RS!UartSend, UartSend
  <1> QED BY <1>1, <1>5, <1>10, <1>11, <1>12

(* So it retires an instruction as the single-cycle machine does.          *)
LEMMA RestartRetire == \A s : RS!Retire(s) = SC!Retire(s)
  <1> TAKE s
  <1>1. \A i : RS!Decode(i) = SC!Decode(i)
    BY RestartIsa, SameIsa
  <1>2. \A i : RS!RdData(s, i) = SC!RdData(s, i)
    <2>1. \A a : RS!ArchCsrRead(s, a) = SC!ArchCsrRead(s, a)
      BY RestartMachine, SameMachine DEF RS!ArchCsrRead, SC!ArchCsrRead
    <2>2. \A op, a, b : RS!Alu(op, a, b) = SC!Alu(op, a, b)
      BY RestartIsa, SameIsa
    <2>3. \A op, a, b : RS!MuldivResult(op, a, b) = SC!MuldivResult(op, a, b)
      BY RestartMuldiv, SameMuldiv
    <2>4. \A a, b : RS!Add(a, b) = SC!Add(a, b) /\ RS!Sub(a, b) = SC!Sub(a, b)
      BY RestartWords, SameWords
    <2>5. \A m, off, width, unsigned :
            RS!ReadBytes(m, off, width, unsigned) = SC!ReadBytes(m, off, width, unsigned)
      BY RestartMemory, SameMemory
    <2> QED BY <1>1, <2>1, <2>2, <2>3, <2>4, <2>5 DEF RS!RdData, SC!RdData
  <1>3. \A i : RS!NextPc(s, i) = SC!NextPc(s, i)
    BY RestartWords, SameWords, RestartIsa, SameIsa DEF RS!NextPc, SC!NextPc
  <1>4. /\ \A a : RS!MemIndex(a) = SC!MemIndex(a)
        /\ \A m, off, width, x : RS!WriteBytes(m, off, width, x) = SC!WriteBytes(m, off, width, x)
        /\ \A u, x : RS!UartSend(u, x) = SC!UartSend(u, x)
    BY RestartMemory, SameMemory
  <1>5. /\ \A c, a, x : RS!CsrWrite(c, a, x) = SC!CsrWrite(c, a, x)
        /\ \A c, at, i : RS!CsrTrap(c, at, i) = SC!CsrTrap(c, at, i)
        /\ \A r, we, rd, x : RS!RegWrite(r, we, rd, x) = SC!RegWrite(r, we, rd, x)
    BY RestartMachine, SameMachine
  <1>6. \A a, b : RS!Add(a, b) = SC!Add(a, b) /\ RS!Sub(a, b) = SC!Sub(a, b)
    BY RestartWords, SameWords
  <1>7. \A f3, old, a : RS!CsrWriteValue(f3, old, a) = SC!CsrWriteValue(f3, old, a)
    BY RestartIsa, SameIsa
  <1>8. \A a : RS!ArchCsrRead(s, a) = SC!ArchCsrRead(s, a)
    BY RestartMachine, SameMachine DEF RS!ArchCsrRead, SC!ArchCsrRead
  <1> QED BY <1>1, <1>2, <1>3, <1>4, <1>5, <1>6, <1>7, <1>8 DEF RS!Retire, SC!Retire

(* And every step of that machine is one of this.                          *)
LEMMA RestartNext == SC!Next => RS!Next
  <1>1. RS!RetireOne <=> SC!RetireOne
    BY RestartRetire DEF RS!RetireOne, SC!RetireOne
  <1>2. RS!RetirePair <=> SC!RetirePair
    BY RestartRetire, RestartWords, SameWords, RestartMemory, SameMemory, RestartMachine, SameMachine
       DEF RS!RetirePair, SC!RetirePair
  <1>3. RS!MemLane(AbsArch.pc) = SC!MemLane(AbsArch.pc)
    BY RestartMemory, SameMemory
  <1> QED BY <1>1, <1>2, <1>3 DEF RS!Next, SC!Next

(* They start in the same state.                                           *)
LEMMA RestartInit == SC!Init => RS!Init
  <1>1. RS!Instr = SC!Instr
    <2>1. RS!Word = SC!Word
      BY RestartWords, SameWords DEF RS!Word, SC!Word
    <2> QED BY <2>1 DEF RS!Instr, SC!Instr, RS!Opcode, SC!Opcode, RS!CsrAddr, SC!CsrAddr
  <1>2. /\ RS!BytesOf(BootDmem) = SC!BytesOf(BootDmem) /\ RS!UartInit = SC!UartInit
        /\ RS!TrapCsr = SC!TrapCsr /\ RS!CsrReset = SC!CsrReset
    BY RestartMemory, SameMemory, RestartMachine, SameMachine
  <1> QED BY <1>1, <1>2 DEF RS!Init, SC!Init

-----------------------------------------------------------------------------
(* The registers while the reset line is low.                              *)
Blank ==
  /\ pc = MemBase /\ fetch = FetchBubble /\ ifid = IfIdBubble /\ idex = IdExBubble
  /\ exmem = ExMemReset /\ memwb = MemWbReset /\ ~pend2_fire.valid /\ csr = CsrReset

(* A reset clears them.                                                    *)
LEMMA ClearedBlank == DataInv /\ Cleared => Blank'
  <1> SUFFICES ASSUME DataInv, Cleared PROVE Blank'
    OBVIOUS
  <1>1. pend2_fire'.valid = FALSE
    BY DEF Cleared, ResetPend2Fire, DataInv, TypeOK, Pend2
  <1> QED BY <1>1 DEF Blank, Cleared, ResetExMem

(* So they are before the first clock edge.                                *)
LEMMA InitBlank == Init => Blank
  BY DEF Init, Blank, NoPend2

(* Then the machine is at its start, on the registers and memories as they *)
(* are.                                                                    *)
BlankState ==
  [pc |-> MemBase, regs |-> regs, mem |-> BytesOf(dmem),
   csr |-> [a \in TrapCsr |-> CsrReset[a]], uart |-> uart]

LEMMA BlankArch == Blank => AbsArch = BlankState
  <1> SUFFICES ASSUME Blank PROVE AbsArch = BlankState
    OBVIOUS
  <1>1. AbsPc = MemBase
    BY OldestPc DEF Blank, FrontPc, FetchReal, IfReal, ExReal, IsReal, FetchBubble, IfIdBubble,
                    IdExBubble
  <1>2. /\ ~exmem.pend2.valid /\ ~memwb.pend2.valid /\ ~pend2_fire.valid
        /\ ~exmem.reg_write /\ ~memwb.reg_write /\ ~exmem.mem_write /\ ~exmem.is_csr /\ ~memwb.is_csr
    BY DEF Blank, ExMemReset, MemWbReset, NoPend2
  <1>3. AbsRegs = regs
    BY <1>2 DEF AbsRegs, PendWrite, RegWrite
  <1>4. AbsMem = BytesOf(dmem) /\ AbsUart = uart
    BY <1>2 DEF AbsMem, AbsUart
  <1>5. AbsCsr = [a \in TrapCsr |-> CsrReset[a]]
    BY <1>2 DEF AbsCsr, Blank
  <1> QED BY <1>1, <1>3, <1>4, <1>5 DEF AbsArch, BlankState

(* After a step as well.                                                   *)
LEMMA BlankArchNext == Blank' => (AbsArch = BlankState)'
  BY BlankArch, PTL

(* And nothing is on its way.                                              *)
LEMMA BlankCore == Blank => StreamInv /\ TrailInv /\ (DataInv => OperandInv)
  <1> SUFFICES ASSUME Blank PROVE StreamInv /\ TrailInv /\ (DataInv => OperandInv)
    OBVIOUS
  <1>1. FrontInv
    BY BaseAligned DEF Blank, FrontInv, FetchReal, IfReal, IsReal, FetchBubble, IfIdBubble
  <1>2. ExHolds
    BY DEF Blank, ExHolds, ExReal, IsReal, ExEmpty, IdExBubble, NoPend2, NoFuse4
  <1>3. TrailInv
    BY DEF Blank, TrailInv, ExMemReset, MemWbReset
  <1>4. DataInv => OperandInv
    <2>1. DataInv => regs[0] = 0
      BY DEF DataInv, TypeOK
    <2> QED BY <2>1 DEF Blank, OperandInv, ExIdiom3, IdExBubble, NoControl, NoPend2, ExMemReset,
                        MemWbReset
  <1> QED BY <1>1, <1>2, <1>3, <1>4 DEF StreamInv

(* The invariant of the refinement survives the reset.                     *)
LEMMA ResetCore ==
  ASSUME CoreInv, Assert \/ HeldEdge
  PROVE  CoreInv' /\ TrailInv' /\ Blank'
  <1>1. Cleared /\ imem' = imem /\ [RNext]_rvars
    BY DEF Assert, HeldEdge, RNext
  <1>2. FreezeInv /\ DataInv
    BY DEF CoreInv, FreezeInv
  <1>3. DataInv'
    BY <1>1, <1>2, ResetStepData
  <1>4. FreezeInv'
    BY <1>1, <1>2, <1>3, ClearedFreeze
  <1>5. Pend2Inv'
    <2>1. Pend2HasValid
      BY <1>2, IdExTypes, ExMemTypes, MemWbTypes DEF DataInv, TypeOK, Pend2HasValid, Pend2
    <2> QED BY <1>1, <2>1, ClearedPend2Inv DEF ResetInv
  <1>6. Blank'
    BY <1>1, <1>2, ClearedBlank
  <1>7. StreamInv' /\ TrailInv' /\ OperandInv'
    <2>1. Blank' => StreamInv' /\ TrailInv' /\ (DataInv' => OperandInv')
      BY BlankCore, PTL
    <2> QED BY <1>3, <1>6, <2>1
  <1> QED BY <1>3, <1>4, <1>5, <1>6, <1>7 DEF CoreInv, RegsInv

-----------------------------------------------------------------------------
(* Which state of the program a reset would find in the memories.          *)

(* The state s has these registers, memory and UART.                       *)
Holds(s, r, m, u) == s = [pc |-> s.pc, regs |-> r, mem |-> m, csr |-> s.csr, uart |-> u]

(* MEM, and WB, still have a register to write.                            *)
MemWrites == (exmem.reg_write /\ exmem.rd # 0) \/ exmem.pend2.valid
WbWrites  == (memwb.reg_write /\ memwb.rd # 0) \/ memwb.pend2.valid

(* p is the second write of the pair that was the last to leave EX.        *)
OfLastPair(p) ==
  /\ 1 \in DOMAIN trail
  /\ \E s : /\ s = trail[1]
            /\ \/ Pattern3(At(s.pc), At(Add(s.pc, 4))) \/ Pattern5(At(s.pc), At(Add(s.pc, 4)))
            /\ p.addr = At(s.pc).rd
            /\ AbsArch = SC!Retire(SC!Retire(s))

(* With a write in MEM left to do, the memories hold the state before the  *)
(* last step, once WB has written; with one left in WB, one before that.   *)
UndoMem == MemWrites \/ exmem.mem_write =>
             1 \in DOMAIN trail /\ Holds(trail[1], AfterWb, BytesOf(dmem), uart)
UndoWb  == WbWrites => \E k \in DOMAIN trail : Holds(trail[k], regs, BytesOf(dmem), uart)

(* No operation writes both a register and the memory.                     *)
OneWrite == MemWrites => ~exmem.mem_write

(* A pair in MEM or WB has not yet written anything; when its second write *)
(* is on the port, it has written all but that.                            *)
PairInMem == exmem.pend2.valid => OfLastPair(exmem.pend2) /\ exmem.rd # exmem.pend2.addr
PairInWb  == memwb.pend2.valid => /\ OfLastPair(memwb.pend2) /\ memwb.rd # memwb.pend2.addr
                                  /\ ~exmem.mem_write
                                  /\ Holds(trail[1], regs, BytesOf(dmem), uart)
PairFires == pend2_fire.valid => /\ OfLastPair(pend2_fire) /\ ~exmem.mem_write
                                 /\ trail[1].regs[pend2_fire.addr] = regs[pend2_fire.addr]

UndoInv == UndoMem /\ UndoWb /\ OneWrite /\ PairInMem /\ PairInWb /\ PairFires

(* After a reset there is nothing to undo.                                 *)
LEMMA BlankUndo == Blank => UndoInv
  BY DEF Blank, UndoInv, UndoMem, UndoWb, OneWrite, PairInMem, PairInWb, PairFires, MemWrites,
         WbWrites, ExMemReset, MemWbReset, NoPend2

(* Retirement depends on the program, which does not change.               *)
LEMMA SameRetire ==
  ASSUME imem' = imem
  PROVE  \A s : SC!Retire(s)' = SC!Retire(s) /\ SC!Retire(SC!Retire(s))' = SC!Retire(SC!Retire(s))
  <1>1. \A s : SC!Retire(s)' = SC!Retire(s)
    BY DEF SC!Retire
  <1>2. \A s : SC!Retire(SC!Retire(s))' = SC!Retire(SC!Retire(s))
    BY DEF SC!Retire
  <1> QED BY <1>1, <1>2

(* The pair was the last, until the next operation leaves EX.              *)
LEMMA LastPairKept ==
  ASSUME imem' = imem, trail' = trail, AbsArch' = AbsArch
  PROVE  \A p : OfLastPair(p) => OfLastPair(p)'
  <1>1. \A x : At(x)' = At(x)
    BY DEF At
  <1> QED BY <1>1, SameRetire DEF OfLastPair

(* What has moved nothing leaves it.                                       *)
LEMMA NothingMoves ==
  ASSUME UndoInv, exmem' = exmem, memwb' = memwb, pend2_fire' = pend2_fire, regs' = regs,
         dmem' = dmem, uart' = uart, imem' = imem, trail' = trail, AfterWb' = AfterWb,
         AbsArch' = AbsArch
  PROVE  UndoInv'
  <1>1. \A p : OfLastPair(p) => OfLastPair(p)'
    BY LastPairKept
  <1>2. (MemWrites' <=> MemWrites) /\ (WbWrites' <=> WbWrites)
    BY DEF MemWrites, WbWrites
  <1>3. UndoMem' /\ UndoWb' /\ OneWrite'
    BY <1>2 DEF UndoInv, UndoMem, UndoWb, OneWrite
  <1>4. PairInMem' /\ PairInWb' /\ PairFires'
    BY <1>1 DEF UndoInv, PairInMem, PairInWb, PairFires
  <1> QED BY <1>3, <1>4 DEF UndoInv

(* A frozen edge writes nothing.                                           *)
LEMMA FrozenUndo ==
  ASSUME CoreInv, Tame, UndoInv, ClockEdge, MuldivActive, trail' = trail
  PROVE  UndoInv'
  <1>1. /\ exmem' = exmem /\ memwb' = memwb /\ pend2_fire' = pend2_fire
        /\ mem_rdata' = mem_rdata /\ dmem' = dmem /\ uart' = uart /\ imem' = imem
    BY DEF ClockEdge, NextExMem, NextMemWb, NextPend2Fire, NextMemRdata, NextDmem, NextUart,
           StoreLeavesMem
  <1>2. regs' = regs
    BY FrozenRegs DEF CoreInv, RegsInv
  <1>3. AfterWb' = AfterWb
    BY <1>1, <1>2 DEF AfterWb, WbData
  <1>4. AbsArch' = AbsArch
    BY QuietEdge DEF LeavesEx
  <1> QED BY <1>1, <1>2, <1>3, <1>4, NothingMoves

(* Between two edges nothing moves.                                        *)
LEMMA StutterUndo ==
  ASSUME CoreInv, UndoInv, UNCHANGED vars, trail' = trail
  PROVE  UndoInv'
  <1>1. /\ exmem' = exmem /\ memwb' = memwb /\ pend2_fire' = pend2_fire /\ mem_rdata' = mem_rdata
        /\ dmem' = dmem /\ uart' = uart /\ imem' = imem /\ regs' = regs
    BY DEF vars
  <1>2. AfterWb' = AfterWb
    BY <1>1 DEF AfterWb, WbData
  <1>3. AbsArch' = AbsArch
    BY StutterKeeps
  <1> QED BY <1>1, <1>2, <1>3, NothingMoves

(* Any other edge writes what WB had left to write, and the memory; what   *)
(* was in MEM is in WB, with the state before it in the memories.          *)
LEMMA WritesMoveOn ==
  ASSUME CoreInv, UndoInv, ClockEdge, ~MuldivActive
  PROVE  /\ regs' = AfterWb /\ BytesOf(dmem') = AbsMem /\ uart' = AbsUart
         /\ memwb'.rd = exmem.rd /\ memwb'.pend2 = exmem.pend2 /\ pend2_fire' = memwb.pend2
         /\ WbWrites' => MemWrites
         /\ MemWrites => 1 \in DOMAIN trail /\ Holds(trail[1], regs', BytesOf(dmem'), uart')
         /\ memwb.pend2.valid => regs'[memwb.pend2.addr] = regs[memwb.pend2.addr]
  <1>0. TypeOK /\ ControlTypes /\ Pend2Inv
    BY DEF CoreInv, RegsInv, Pend2Inv, DataInv
  <1>1. regs' = AfterWb /\ BytesOf(dmem') = AbsMem /\ uart' = AbsUart
    BY PortDrainsWb, MemoryDrains
  <1>2. /\ memwb'.reg_write = exmem.reg_write /\ memwb'.rd = exmem.rd
        /\ memwb'.pend2 = exmem.pend2 /\ pend2_fire' = memwb.pend2
    BY DEF ClockEdge, NextMemWb, NextPend2Fire
  <1>3. WbWrites' => MemWrites
    BY <1>2 DEF WbWrites, MemWrites
  <1>4. ASSUME MemWrites
        PROVE  1 \in DOMAIN trail /\ Holds(trail[1], regs', BytesOf(dmem'), uart')
    <2>1. 1 \in DOMAIN trail /\ Holds(trail[1], AfterWb, BytesOf(dmem), uart) /\ ~exmem.mem_write
      BY <1>4 DEF UndoInv, UndoMem, OneWrite
    <2>2. AbsMem = BytesOf(dmem) /\ AbsUart = uart
      BY <2>1 DEF AbsMem, AbsUart
    <2> QED BY <1>1, <2>1, <2>2
  <1>5. ASSUME memwb.pend2.valid PROVE regs'[memwb.pend2.addr] = regs[memwb.pend2.addr]
    <2>1. ~pend2_fire.valid
      BY <1>0, <1>5 DEF Pend2Inv, Pend2Protocol, Pend2InEx, Pend2InMem, Pend2InWb, Pend2Fires,
                        Pend2None, WbIdle
    <2>2. memwb.rd # memwb.pend2.addr
      BY <1>5 DEF UndoInv, PairInWb
    <2>3. regs' = RegWrite(regs, memwb.reg_write, memwb.rd, WbData)
      BY <1>1, <2>1 DEF AfterWb
    <2>4. memwb.reg_write \in BOOLEAN /\ memwb.rd \in Reg /\ WbData \in Word
          /\ regs \in [Reg -> Word] /\ memwb.pend2.addr \in Reg
      BY <1>0, MemWbTypes, ForwardedTypes DEF ControlTypes, TypeOK, Pend2
    <2> QED BY <2>2, <2>3, <2>4 DEF RegWrite
  <1> QED BY <1>1, <1>2, <1>3, <1>4, <1>5

(* A slot without an operation hands nothing to MEM.                       *)
LEMMA QuietUndo ==
  ASSUME CoreInv, Tame, UndoInv, ClockEdge, ~MuldivActive, ~LeavesEx, trail' = trail
  PROVE  UndoInv'
  <1>1. ExEmpty
    BY DEF CoreInv, StreamInv, ExHolds, LeavesEx
  <1>2. /\ exmem'.rd = idex.rd /\ exmem'.pend2 = idex.pend2 /\ exmem'.mem_write = idex.ctl.mem_write
        /\ imem' = imem
    BY DEF ClockEdge, NextExMem
  <1>3. ~MemWrites' /\ ~exmem'.mem_write /\ ~exmem'.pend2.valid
    BY <1>1, <1>2, EmptyIsHarmless DEF ExEmpty, MemWrites
  <1>4. AbsArch' = AbsArch
    BY QuietEdge
  <1>5. \A p : OfLastPair(p) => OfLastPair(p)'
    BY <1>2, <1>4, LastPairKept
  <1>6. UndoMem' /\ OneWrite' /\ PairInMem'
    BY <1>3 DEF UndoMem, OneWrite, PairInMem
  <1>7. UndoWb'
    BY WritesMoveOn DEF UndoWb
  <1>8. PairInWb'
    <2>1. exmem.pend2.valid => MemWrites
      BY DEF MemWrites
    <2>2. memwb'.pend2 = exmem.pend2
      BY WritesMoveOn
    <2>3. exmem.pend2.valid => OfLastPair(memwb.pend2)' /\ exmem.rd # exmem.pend2.addr
      BY <1>5, <2>2 DEF UndoInv, PairInMem
    <2> QED BY <1>3, <2>1, <2>3, WritesMoveOn DEF PairInWb
  <1>9. PairFires'
    <2>1. ASSUME memwb.pend2.valid
          PROVE  /\ OfLastPair(pend2_fire)'
                 /\ trail'[1].regs[memwb.pend2.addr] = regs'[memwb.pend2.addr]
      <3>1. OfLastPair(memwb.pend2) /\ Holds(trail[1], regs, BytesOf(dmem), uart)
        BY <2>1 DEF UndoInv, PairInWb
      <3>2. trail[1].regs = regs
        BY <3>1 DEF Holds
      <3>3. trail'[1].regs = regs
        BY <3>2
      <3> QED BY <1>5, <2>1, <3>1, <3>3, WritesMoveOn
    <2> QED BY <1>3, <2>1, WritesMoveOn DEF PairFires
  <1> QED BY <1>6, <1>7, <1>8, <1>9 DEF UndoInv

(* A store writes no register.                                             *)
LEMMA StoresOnlyStore ==
  ASSUME StreamInv, idex.ctl.mem_write
  PROVE  ~idex.ctl.reg_write /\ ~idex.pend2.valid
  <1>1. ExReal
    BY EmptyIsHarmless DEF StreamInv, ExHolds
  <1>2. ~ExAddi /\ ~ExCompare
    BY DecodedFirst DEF ExAddi, ExCompare, Pattern1, Pattern2, Pattern4
  <1>3. ~ExCall /\ ~ExIndexed
    <2>1. \A j : "mem_write" \in DOMAIN Decode(j)
      BY DEF Decode
    <2> QED BY <2>1, DecodedFirst DEF ExCall, ExIndexed, Pattern3, Pattern5
  <1>4. ExSingle
    BY <1>1, <1>2, <1>3 DEF StreamInv, ExHolds
  <1>5. \A i : Decode(i).mem_write => ~Decode(i).reg_write
    <2> TAKE i
    <2>1. Decode(i).mem_write = (i.op = "STORE")
      BY DEF Decode
    <2>2. Decode(i).reg_write = (\/ i.op \in {"OP", "OPIMM", "LOAD", "JAL", "JALR", "LUI", "AUIPC"}
                                 \/ IsCsr(i))
      BY DEF Decode
    <2> QED BY <2>1, <2>2 DEF IsCsr
  <1> QED BY <1>4, <1>5 DEF ExSingle

(* A pair with two destinations leaves EX: it retires as its two           *)
(* instructions do.                                                        *)
LEMMA PairLeaves ==
  ASSUME ProgramsTame, CoreInv, Tame, ClockEdge, LeavesEx, idex.pend2.valid
  PROVE  /\ Pattern3(At(AbsPc), At(Add(AbsPc, 4))) \/ Pattern5(At(AbsPc), At(Add(AbsPc, 4)))
         /\ idex.pend2.addr = At(AbsPc).rd /\ idex.rd # idex.pend2.addr
         /\ AbsArch' = SC!Retire(SC!Retire(AbsArch))
  <1>0. RegsInv /\ FreezeInv /\ StreamInv /\ ~MuldivActive /\ ExReal
    BY DEF CoreInv, LeavesEx
  <1>1. ExCall \/ ExIndexed
    BY <1>0 DEF StreamInv, ExHolds, ExSingle, ExAddi, ExCompare
  <1>2. AbsArch' = SC!Retire(SC!Retire(AbsArch))
    BY <1>0, <1>1, CallRetires, IndexedRetires DEF Tame, ProgramsTame, PathsTame
  <1>3. /\ ExPair /\ (Pattern3(idex.instr, ExNext) \/ Pattern5(idex.instr, ExNext))
        /\ idex.pend2.addr = idex.instr.rd /\ idex.rd = ExNext.rd
    BY <1>1 DEF ExCall, ExIndexed
  <1>4. ExNext.rd # idex.instr.rd
    BY <1>0, <1>3, PairInProgram DEF ProgramsTame, PathsTame
  <1>5. idex.instr = At(AbsPc) /\ ExNext = At(Add(AbsPc, 4))
    BY <1>0, <1>3, OldestPc DEF ExPair, ExNext
  <1> QED BY <1>2, <1>3, <1>4, <1>5

(* What is remembered of a step.                                           *)
LEMMA Remembered ==
  ASSUME NEW past, NEW s
  PROVE  /\ 1 \in DOMAIN RS!Remember(past, s) /\ RS!Remember(past, s)[1] = s
         /\ 1 \in DOMAIN past => 2 \in DOMAIN RS!Remember(past, s)
                                 /\ RS!Remember(past, s)[2] = past[1]
  <1>1. CASE past = <<>>
    BY <1>1 DEF RS!Remember
  <1>2. CASE past # <<>>
    BY <1>2 DEF RS!Remember
  <1> QED BY <1>1, <1>2

(* An operation that leaves EX: the state before it is found once all that *)
(* is ahead of it has written.                                             *)
LEMMA RetiringUndo ==
  ASSUME ProgramsTame, CoreInv, Tame, UndoInv, ClockEdge, LeavesEx,
         trail' = RS!Remember(trail, AbsArch)
  PROVE  UndoInv'
  <1>0. /\ RegsInv /\ FreezeInv /\ StreamInv /\ ~MuldivActive /\ ExReal
        /\ TypeOK /\ ControlTypes /\ OperandInv
    BY DEF CoreInv, LeavesEx, RegsInv, Pend2Inv, DataInv
  <1>1. /\ 1 \in DOMAIN trail' /\ trail'[1] = AbsArch
        /\ 1 \in DOMAIN trail => 2 \in DOMAIN trail' /\ trail'[2] = trail[1]
    BY Remembered
  <1>2. /\ exmem'.rd = idex.rd /\ exmem'.pend2 = idex.pend2 /\ exmem'.mem_write = idex.ctl.mem_write
        /\ exmem'.reg_write = idex.ctl.reg_write /\ imem' = imem
    BY <1>0 DEF ClockEdge, NextExMem
  <1>3. ~exmem.pend2.valid /\ ~memwb.pend2.valid /\ ~pend2_fire.valid
    <2>1. idex # IdExBubble
      BY <1>0 DEF ExReal, IsReal, IdExBubble
    <2> QED BY <1>0, <2>1 DEF OperandInv
  <1>4. UndoMem'
    <2>1. AbsRegs = AfterMem
      BY <1>0, <1>3, DrainedRegs DEF PendWrite, RegWrite
    <2>2. AfterWb' = AfterMem
      <3>1. AfterWb' = IF pend2_fire'.valid THEN PendWrite(regs', pend2_fire')
                       ELSE RegWrite(regs', memwb'.reg_write, memwb'.rd, WbData')
        BY DEF AfterWb
      <3>2. memwb'.reg_write = exmem.reg_write /\ memwb'.rd = exmem.rd /\ pend2_fire' = memwb.pend2
        BY <1>0 DEF ClockEdge, NextMemWb, NextPend2Fire
      <3>3. regs' = AfterWb /\ WbData' = MemResult
        BY <1>0, PortDrainsWb, ResultMovesOn
      <3> QED BY <1>3, <3>1, <3>2, <3>3 DEF AfterMem
    <2>3. BytesOf(dmem') = AbsMem /\ uart' = AbsUart
      BY <1>0, WritesMoveOn
    <2>4. Holds(AbsArch, AfterWb', BytesOf(dmem'), uart')
      BY <2>1, <2>2, <2>3 DEF AbsArch, Holds
    <2>5. Holds(AbsArch, AfterWb', BytesOf(dmem)', uart')
      BY <2>4 DEF BytesOf
    <2> QED BY <1>1, <2>5 DEF UndoMem
  <1>5. UndoWb'
    <2>1. WbWrites' => /\ 2 \in DOMAIN trail'
                       /\ Holds(trail'[2], regs', BytesOf(dmem'), uart')
      BY <1>0, <1>1, WritesMoveOn
    <2>2. BytesOf(dmem') = BytesOf(dmem)'
      BY DEF BytesOf
    <2> QED BY <2>1, <2>2 DEF UndoWb
  <1>6. OneWrite'
    <2>1. idex.ctl.mem_write => ~idex.ctl.reg_write /\ ~idex.pend2.valid
      BY <1>0, StoresOnlyStore
    <2> QED BY <1>2, <2>1 DEF OneWrite, MemWrites
  <1>7. PairInMem'
    <2>1. ASSUME idex.pend2.valid
          PROVE  OfLastPair(exmem.pend2)' /\ idex.rd # idex.pend2.addr
      <3>1. /\ Pattern3(At(AbsPc), At(Add(AbsPc, 4))) \/ Pattern5(At(AbsPc), At(Add(AbsPc, 4)))
            /\ idex.pend2.addr = At(AbsPc).rd /\ idex.rd # idex.pend2.addr
            /\ AbsArch' = SC!Retire(SC!Retire(AbsArch))
        BY <2>1, PairLeaves
      <3>2. \A x : At(x)' = At(x)
        BY <1>2 DEF At
      <3>3. \A s : SC!Retire(SC!Retire(s))' = SC!Retire(SC!Retire(s))
        BY <1>2, SameRetire
      <3>4. PICK s : s = AbsArch
        OBVIOUS
      <3>5. s.pc = AbsPc /\ trail'[1] = s /\ AbsArch' = SC!Retire(SC!Retire(s))'
        BY <1>1, <3>1, <3>3, <3>4, ArchParts
      <3> QED BY <1>1, <1>2, <3>1, <3>2, <3>5 DEF OfLastPair
    <2> QED BY <1>2, <2>1 DEF PairInMem
  <1>8. PairInWb' /\ PairFires'
    BY <1>0, <1>3, WritesMoveOn DEF PairInWb, PairFires
  <1> QED BY <1>4, <1>5, <1>6, <1>7, <1>8 DEF UndoInv

-----------------------------------------------------------------------------
(* The core with its reset line refines the machine that is restarted.     *)

(* The state a restart makes of one with these registers and memories.     *)
LEMMA RestartOf ==
  ASSUME NEW s, NEW r, NEW m, NEW u, Holds(s, r, m, u)
  PROVE  RS!Restarted(s) = [pc |-> MemBase, regs |-> r, mem |-> m,
                            csr |-> [a \in TrapCsr |-> CsrReset[a]], uart |-> u]
  <1>1. [a \in RS!TrapCsr |-> RS!CsrReset[a]] = [a \in TrapCsr |-> CsrReset[a]]
    BY RestartMachine
  <1>2. RS!Restarted(s) = [s EXCEPT !.pc = MemBase, !.csr = [a \in RS!TrapCsr |-> RS!CsrReset[a]]]
    BY DEF RS!Restarted
  <1>3. PICK p, c : s = [pc |-> p, regs |-> r, mem |-> m, csr |-> c, uart |-> u]
    BY DEF Holds
  <1> QED BY <1>1, <1>2, <1>3

(* With the second write of a pair on the port, the memories hold the      *)
(* state half-way through the pair.                                        *)
LEMMA HalfWayFound ==
  ASSUME CoreInv, UndoInv, pend2_fire.valid
  PROVE  \E s \in RS!HalfWay : Holds(s, regs, BytesOf(dmem), uart)
  <1>0. TypeOK /\ ControlTypes /\ Pend2Inv
    BY DEF CoreInv, RegsInv, Pend2Inv, DataInv
  <1>1. /\ OfLastPair(pend2_fire) /\ ~exmem.mem_write
        /\ trail[1].regs[pend2_fire.addr] = regs[pend2_fire.addr]
    BY DEF UndoInv, PairFires
  <1>2. PICK b : /\ 1 \in DOMAIN trail /\ b = trail[1] /\ pend2_fire.addr = At(b.pc).rd
                 /\ Pattern3(At(b.pc), At(Add(b.pc, 4))) \/ Pattern5(At(b.pc), At(Add(b.pc, 4)))
                 /\ AbsArch = SC!Retire(SC!Retire(b))
    BY <1>1 DEF OfLastPair
  <1> DEFINE h == [AbsArch EXCEPT !.regs[pend2_fire.addr] = b.regs[pend2_fire.addr]]
  <1>3. h \in RS!HalfWay
    <2>1. /\ imem[RS!MemIndex(b.pc)] = At(b.pc)
          /\ imem[RS!MemIndex(RS!Add(b.pc, 4))] = At(Add(b.pc, 4))
      BY RestartMemory, RestartWords DEF At
    <2>2. trail # <<>>
      BY <1>2
    <2>3. \/ RS!Matches(3, At(b.pc), At(Add(b.pc, 4)))
          \/ RS!Matches(5, At(b.pc), At(Add(b.pc, 4)))
      BY <1>2, RestartMachine DEF Matches
    <2>4. AbsArch = RS!Retire(RS!Retire(b))
      BY <1>2, RestartRetire
    <2>5. RS!HalfWay = {[AbsArch EXCEPT !.regs[At(b.pc).rd] = b.regs[At(b.pc).rd]]}
      BY <1>2, <2>1, <2>2, <2>3, <2>4 DEF RS!HalfWay
    <2> QED BY <1>2, <2>5
  <1>4. AbsRegs = RegWrite(regs, TRUE, pend2_fire.addr, pend2_fire.data)
    <2>1. ~exmem.reg_write /\ ~exmem.pend2.valid /\ ~memwb.pend2.valid
      BY <1>0 DEF Pend2Inv, Pend2Protocol, Pend2InEx, Pend2InMem, Pend2InWb, Pend2Fires,
                  Pend2None, MemIdle, WbIdle
    <2>2. pend2_fire.valid = TRUE
      BY <1>0 DEF TypeOK, Pend2
    <2> QED BY <2>1, <2>2 DEF AbsRegs, PendWrite, RegWrite
  <1>5. AbsMem = BytesOf(dmem) /\ AbsUart = uart
    BY <1>1 DEF AbsMem, AbsUart
  <1>6. [AbsRegs EXCEPT ![pend2_fire.addr] = b.regs[pend2_fire.addr]] = regs
    <2>1. /\ regs \in [Reg -> Word] /\ regs[0] = 0
          /\ pend2_fire.addr \in Reg /\ pend2_fire.data \in Word
      BY <1>0 DEF TypeOK, Pend2
    <2>2. b.regs[pend2_fire.addr] = regs[pend2_fire.addr]
      BY <1>1, <1>2
    <2> QED BY <1>4, <2>1, <2>2 DEF RegWrite
  <1>7. h = [pc |-> AbsPc, regs |-> regs, mem |-> BytesOf(dmem), csr |-> AbsCsr, uart |-> uart]
    BY <1>5, <1>6 DEF AbsArch
  <1>8. Holds(h, regs, BytesOf(dmem), uart)
    BY <1>7 DEF Holds
  <1> QED BY <1>3, <1>8

(* Whatever is under way when the line falls, the memories hold a state    *)
(* the machine may be restarted from.                                      *)
LEMMA StateFound ==
  ASSUME CoreInv, UndoInv
  PROVE  \E s \in {AbsArch} \cup {trail[k] : k \in DOMAIN trail} \cup RS!HalfWay :
           Holds(s, regs, BytesOf(dmem), uart)
  <1>1. CASE pend2_fire.valid
    BY <1>1, HalfWayFound
  <1>2. CASE ~pend2_fire.valid /\ WbWrites
    BY <1>2 DEF UndoInv, UndoWb
  <1>3. CASE ~pend2_fire.valid /\ ~WbWrites
    <2>1. AfterWb = regs
      BY <1>3 DEF AfterWb, WbWrites, RegWrite
    <2>2. CASE MemWrites \/ exmem.mem_write
      BY <2>1, <2>2 DEF UndoInv, UndoMem
    <2>3. CASE ~MemWrites /\ ~exmem.mem_write
      <3>1. AbsRegs = regs
        BY <1>3, <2>1, <2>3 DEF AbsRegs, MemWrites, WbWrites, PendWrite, RegWrite
      <3>2. AbsMem = BytesOf(dmem) /\ AbsUart = uart
        BY <2>3 DEF AbsMem, AbsUart
      <3>3. Holds(AbsArch, regs, BytesOf(dmem), uart)
        BY <3>1, <3>2 DEF AbsArch, Holds
      <3> QED BY <3>3
    <2> QED BY <2>2, <2>3
  <1> QED BY <1>1, <1>2, <1>3

(* The fall of the reset line restarts the machine.                        *)
LEMMA AssertRestarts ==
  ASSUME CoreInv, UndoInv, Assert
  PROVE  RS!Reset
  <1>1. /\ regs' = regs /\ dmem' = dmem /\ uart' = uart /\ imem' = imem /\ trail' = <<>>
    BY DEF Assert
  <1>2. AbsArch' = [pc |-> MemBase, regs |-> regs, mem |-> BytesOf(dmem),
                    csr |-> [a \in TrapCsr |-> CsrReset[a]], uart |-> uart]
    <2>1. Blank'
      BY ResetCore
    <2>2. BlankState' = BlankState
      BY <1>1 DEF BlankState, BytesOf
    <2> QED BY <2>1, <2>2, BlankArchNext DEF BlankState
  <1>3. PICK s \in {AbsArch} \cup {trail[k] : k \in DOMAIN trail} \cup RS!HalfWay :
               Holds(s, regs, BytesOf(dmem), uart)
    BY StateFound
  <1>4. AbsArch' = RS!Restarted(s)
    BY <1>2, <1>3, RestartOf
  <1> QED BY <1>1, <1>3, <1>4 DEF RS!Reset

(* A clock edge with the line low changes nothing the machine has.         *)
LEMMA HeldIsQuiet ==
  ASSUME CoreInv, Blank, HeldEdge
  PROVE  AbsArch' = AbsArch
  <1>1. /\ ~exmem.mem_write /\ ~memwb.reg_write /\ ~pend2_fire.valid
    BY DEF Blank, ExMemReset, MemWbReset
  <1>2. regs' = regs /\ dmem' = dmem /\ uart' = uart
    BY <1>1 DEF HeldEdge, NextRegs, NextDmem, NextUart, PortWrite, StoreLeavesMem, RegWrite
  <1>3. Blank'
    BY ResetCore
  <1>4. BlankState' = BlankState
    BY <1>2 DEF BlankState, BytesOf
  <1> QED BY <1>3, <1>4, BlankArch, BlankArchNext

(* The invariant of the refinement.                                        *)
RestartInv == CoreInv /\ TrailInv /\ UndoInv /\ (~rst_n => Blank)

(* It holds at first.                                                      *)
LEMMA InitRestart == RInit => RestartInv /\ RS!RsInit
  <1> SUFFICES ASSUME RInit PROVE RestartInv /\ RS!RsInit
    OBVIOUS
  <1>1. CoreInv /\ TrailInv /\ UndoInv
    BY InitCore, InitTrail, InitBlank, BlankUndo DEF RInit
  <1>2. RS!Init
    BY InitArch, RestartInit DEF RInit
  <1> QED BY <1>1, <1>2 DEF RInit, RestartInv, RS!RsInit

(* Every step keeps it, and is one of the machine's, or a restart, or      *)
(* nothing the machine sees.                                               *)
LEMMA StepRestart ==
  ProgramsTame /\ MachineTame /\ RestartInv /\ [RNext]_rvars
    => RestartInv' /\ [RS!RsRetire \/ RS!Reset]_(RS!rsvars)
  <1> SUFFICES ASSUME ProgramsTame, MachineTame, RestartInv, [RNext]_rvars
               PROVE  RestartInv' /\ [RS!RsRetire \/ RS!Reset]_(RS!rsvars)
    OBVIOUS
  <1>0. CoreInv /\ TrailInv /\ UndoInv /\ Tame
    BY TameHere DEF RestartInv, ProgramsTame
  <1>1. ASSUME Clock
        PROVE  RestartInv' /\ [RS!RsRetire \/ RS!Reset]_(RS!rsvars)
    <2>1. ClockEdge /\ rst_n' = rst_n /\ rst_n
      BY <1>1 DEF Clock, Next
    <2>2. CoreInv' /\ TrailInv'
      BY <1>0, <2>1, StepCore, StepTrail DEF Next, ProgramsTame
    <2>3. CASE LeavesEx
      <3>1. trail' = RS!Remember(trail, AbsArch)
        BY <1>1, <2>3 DEF Clock
      <3>2. UndoInv'
        BY <1>0, <2>1, <2>3, <3>1, RetiringUndo
      <3>3. RS!Next
        BY <1>0, <2>1, <2>3, RetiringEdge, RestartNext
      <3> QED BY <2>1, <2>2, <3>1, <3>2, <3>3 DEF RestartInv, RS!RsRetire
    <2>4. CASE ~LeavesEx
      <3>1. trail' = trail /\ imem' = imem
        BY <1>1, <2>1, <2>4 DEF Clock, ClockEdge
      <3>2. UndoInv'
        BY <1>0, <2>1, <2>4, <3>1, FrozenUndo, QuietUndo
      <3>3. AbsArch' = AbsArch
        BY <1>0, <2>1, <2>4, QuietEdge
      <3> QED BY <2>1, <2>2, <3>1, <3>2, <3>3 DEF RestartInv, RS!rsvars, RS!scvars
    <2> QED BY <2>3, <2>4
  <1>2. ASSUME Assert \/ HeldEdge
        PROVE  RestartInv' /\ [RS!RsRetire \/ RS!Reset]_(RS!rsvars)
    <2>1. CoreInv' /\ TrailInv' /\ Blank'
      BY <1>0, <1>2, ResetCore
    <2>2. Blank' => UndoInv'
      BY BlankUndo, PTL
    <2>3. CASE Assert
      BY <1>0, <2>1, <2>2, <2>3, AssertRestarts DEF RestartInv
    <2>4. CASE HeldEdge
      <3>1. imem' = imem /\ trail' = trail /\ Blank
        BY <2>4 DEF HeldEdge, RestartInv
      <3>2. AbsArch' = AbsArch
        BY <1>0, <2>4, <3>1, HeldIsQuiet
      <3> QED BY <2>1, <2>2, <3>1, <3>2 DEF RestartInv, RS!rsvars, RS!scvars
    <2> QED BY <1>2, <2>3, <2>4
  <1>3. ASSUME UNCHANGED vars, trail' = trail, rst_n' = rst_n \/ rst_n' = TRUE
        PROVE  RestartInv' /\ [RS!RsRetire \/ RS!Reset]_(RS!rsvars)
    <2>1. AbsArch' = AbsArch /\ CoreInv' /\ imem' = imem
      BY <1>0, <1>3, StutterKeeps DEF vars
    <2>2. TrailInv'
      BY <1>0, <1>3, StepTrail
    <2>3. UndoInv'
      BY <1>0, <1>3, StutterUndo
    <2>4. ~rst_n' => Blank'
      BY <1>3 DEF RestartInv, Blank, vars
    <2> QED BY <1>3, <2>1, <2>2, <2>3, <2>4 DEF RestartInv, RS!rsvars, RS!scvars
  <1>4. Release \/ UNCHANGED rvars =>
          UNCHANGED vars /\ trail' = trail /\ (rst_n' = rst_n \/ rst_n' = TRUE)
    BY DEF Release, rvars
  <1> QED BY <1>1, <1>2, <1>3, <1>4 DEF RNext

(* A reset in any cycle, for any number of edges and any number of times,  *)
(* leaves what a program-order machine leaves that is restarted: of the    *)
(* operations under way the last one or two are undone as a whole in the   *)
(* register file, the memory and the UART alike, and nothing from before   *)
(* the reset is written after it.  Only the second write of a pair that is *)
(* on the register file's port is lost alone                               *)
(* (core_top_pipelined.sv:56-58,85-86,181-182,245-261,                     *)
(* pipeline_regs.sv:24-26, muldiv_iter.sv:60-68).                          *)
THEOREM CoreRestartsCleanly == ProgramsTame => (RSpec /\ []MachineTame => RestartsCleanly)
  <1> SUFFICES ASSUME ProgramsTame PROVE RSpec /\ []MachineTame => RestartsCleanly
    OBVIOUS
  <1>1. RInit => RestartInv /\ RS!RsInit
    BY InitRestart
  <1>2. MachineTame /\ RestartInv /\ [RNext]_rvars
          => RestartInv' /\ [RS!RsRetire \/ RS!Reset]_(RS!rsvars)
    BY StepRestart
  <1> QED BY <1>1, <1>2, PTL DEF RSpec, RestartsCleanly, RS!RsSpec
=============================================================================
