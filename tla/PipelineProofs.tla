--------------------------- MODULE PipelineProofs ---------------------------
(***************************************************************************)
(* What is proved of the pipelined core, for every word width, register    *)
(* file, memory size, program and setting of the core's parameters.        *)
(*                                                                         *)
(* The first inductive invariant is about control only: the types of the   *)
(* control bits, the handshake of the multiply/divide unit, where a        *)
(* pending second write is, and where the words in the front end come      *)
(* from.  None of it depends on what the data path computes.  The widths   *)
(* of the data path follow, and the freeze, which needs them.              *)
(***************************************************************************)
EXTENDS Pipeline, MuldivUnitProofs

(* The unit is busy exactly outside IDLE.                                  *)
MuldivHandshake(m) ==
  /\ {"state", "busy", "done"} \subseteq DOMAIN m
  /\ m.busy \in BOOLEAN /\ m.done \in BOOLEAN
  /\ m.busy <=> m.state # "IDLE"

(* The fetch register holds two adjacent words of the program, or what a   *)
(* flush leaves.                                                           *)
FetchFromStream ==
  \/ /\ fetch.instr = imem[MemIndex(fetch.pc)]
     /\ fetch.next = imem[MemIndex(Add(fetch.pc, 4))]
  \/ fetch = FetchBubble

ControlTypes ==
  /\ id_bound \in BOOLEAN /\ pend2_active \in BOOLEAN
  /\ ifid.lookahead_valid \in BOOLEAN
  /\ idex.ctl \in Control
  /\ idex.pend2.valid \in BOOLEAN /\ idex.fuse4.valid \in BOOLEAN
  /\ exmem.reg_write \in BOOLEAN /\ exmem.mem_read \in BOOLEAN
  /\ exmem.mem_write \in BOOLEAN /\ exmem.is_muldiv \in BOOLEAN
  /\ exmem.is_csr \in BOOLEAN /\ exmem.pend2.valid \in BOOLEAN
  /\ memwb.reg_write \in BOOLEAN /\ memwb.is_muldiv \in BOOLEAN
  /\ memwb.is_csr \in BOOLEAN /\ memwb.pend2.valid \in BOOLEAN
  /\ pend2_fire.valid \in BOOLEAN

-----------------------------------------------------------------------------
(* The multiply/divide unit goes on being busy exactly outside IDLE, and   *)
(* does not become busy unless it is started.                              *)
LEMMA MuldivNextHandshake ==
  ASSUME NEW m, NEW start \in BOOLEAN, NEW op_en, NEW a, NEW b, NEW op,
         MuldivHandshake(m)
  PROVE  /\ MuldivHandshake(MuldivNext(m, start, op_en, a, b, op))
         /\ ~m.busy /\ ~start => ~MuldivNext(m, start, op_en, a, b, op).busy
  <1>1. CASE m.state = "IDLE" /\ ~start
    <2>1. MuldivNext(m, start, op_en, a, b, op) = [m EXCEPT !.done = FALSE]
      BY <1>1 DEF MuldivNext
    <2> QED BY <1>1, <2>1 DEF MuldivHandshake
  <1>2. CASE m.state = "IDLE" /\ start
    <2> DEFINE gated == IF op_en THEN [m EXCEPT !.op_a_r = a, !.op_r = op] ELSE m
               started == [gated EXCEPT !.busy = TRUE, !.done = FALSE, !.iter_cnt = 0]
    <2>1. /\ {"state", "busy", "done"} \subseteq DOMAIN started
          /\ started.busy = TRUE /\ started.done = FALSE
      BY DEF MuldivHandshake
    <2>2. MuldivNext(m, start, op_en, a, b, op) =
            IF op < 4 THEN MulAccept(started, a, b, op) ELSE DivAccept(started, a, b, op)
      BY <1>2 DEF MuldivNext, MuldivAccept
    <2> HIDE DEF started
    <2>3. MuldivHandshake(MulAccept(started, a, b, op))
      BY <2>1 DEF MulAccept, MuldivHandshake
    <2>4. MuldivHandshake(DivAccept(started, a, b, op))
      BY <2>1 DEF DivAccept, MuldivHandshake
    <2> QED BY <1>2, <2>2, <2>3, <2>4
  <1>3. CASE m.state = "MUL_RUN"
    <2>1. MuldivNext(m, start, op_en, a, b, op) =
            [Iterated(m) EXCEPT !.mul_acc = MulStep(m.mul_acc, m.mul_mcand)]
      BY <1>3 DEF MuldivNext
    <2> QED BY <1>3, <2>1 DEF MuldivHandshake, Iterated
  <1>4. CASE m.state = "DIV_RUN"
    <2>1. MuldivNext(m, start, op_en, a, b, op) =
            [Iterated(m) EXCEPT !.div_rem = DivStep(m.div_rem, m.div_divisor)]
      BY <1>4 DEF MuldivNext
    <2> QED BY <1>4, <2>1 DEF MuldivHandshake, Iterated
  <1>5. CASE m.state \notin {"IDLE", "MUL_RUN", "DIV_RUN"}
    <2>1. MuldivNext(m, start, op_en, a, b, op) =
            [m EXCEPT !.busy = FALSE, !.done = TRUE, !.state = "IDLE"]
      BY <1>5 DEF MuldivNext
    <2> QED BY <1>5, <2>1 DEF MuldivHandshake
  <1> QED BY <1>1, <1>2, <1>3, <1>4, <1>5

(* The control signals of the decoder are control signals, whatever the    *)
(* instruction, and so are those of a fused pair.                          *)
LEMMA IssuedControlType == IssuedControl \in Control
  <1>1. \A op, f3, f7 : AluFunction(op, f3, f7) \in AluOp
    BY DEF AluFunction, AluOp
  <1>2. \A i : Decode(i) \in Control
    <2> TAKE i
    <2>1. (IF i.op \in {"OP", "OPIMM"} /\ ~(i.op = "OP" /\ i.f7 = 1)
           THEN AluFunction(i.op, i.f3, i.f7) ELSE "ADD") \in AluOp
      BY <1>1 DEF AluOp
    <2>2. (CASE i.op = "LOAD" -> "mem"
             [] i.op \in {"JAL", "JALR"} -> "pc4"
             [] i.op = "LUI" -> "imm"
             [] OTHER -> "alu") \in {"alu", "mem", "pc4", "imm"}
      OBVIOUS
    <2>3. (IF i.op \in {"LOAD", "STORE"} THEN MemWidth(i.f3) ELSE "word")
            \in {"byte", "half", "word"}
      BY DEF MemWidth
    <2>4. (i.op = "LOAD" /\ i.f3 >= 4) \in BOOLEAN
      OBVIOUS
    <2> QED BY <2>1, <2>2, <2>3, <2>4 DEF Decode, Control, IsCsr
  <1>3. PICK d \in Control : d = Decode(ifid.instr)
    BY <1>2
  <1> QED BY <1>3 DEF IssuedControl, Control

(* Nothing enters EX from a stalled front end.                             *)
LEMMA IssueImpliesNoStall ==
  ASSUME ~ClearEx, ~MuldivActive
  PROVE  ~StallFront
  BY DEF ClearEx, StallFront, FlushEx, StallPcIfId

(* A fused pair with a second write is not a multiply/divide operation.    *)
LEMMA IssuedPend2 ==
  /\ Issued.pend2.valid <=> Fuse(3) \/ Fuse(5)
  /\ Fuse(3) \/ Fuse(5) => ~Issued.ctl.is_muldiv
  <1>1. Issued.pend2.valid <=> Fuse(3) \/ Fuse(5)
    BY DEF Issued
  <1>2. Issued.ctl = IssuedControl
    BY DEF Issued
  <1>3. "is_muldiv" \in DOMAIN Decode(ifid.instr)
        /\ Decode(ifid.instr).is_muldiv = (ifid.instr.op = "OP" /\ ifid.instr.f7 = 1)
    BY DEF Decode
  <1>4. IssuedControl.is_muldiv = Decode(ifid.instr).is_muldiv
    BY <1>3 DEF IssuedControl
  <1>5. ASSUME Fuse(3) PROVE ifid.instr.op = "AUIPC"
    BY <1>5 DEF Fuse, Matches, Pattern3
  <1>6. ASSUME Fuse(5) PROVE ifid.instr.op = "OPIMM" \/ ifid.instr.f7 = 0
    BY <1>6 DEF Fuse, Matches, Pattern5
  <1> QED BY <1>1, <1>2, <1>3, <1>4, <1>5, <1>6
-----------------------------------------------------------------------------
(* The second write of a fused pair.                                       *)

Pend2Inv ==
  /\ ControlTypes
  /\ MuldivHandshake(muldiv)
  /\ Pend2Protocol

(* The first state of a behaviour.                                         *)
LEMMA InitPend2Inv == Init => Pend2Inv
  <1> SUFFICES ASSUME Init PROVE Pend2Inv
    OBVIOUS
  <1>1. ControlTypes
    <2>1. NoControl \in Control
      BY DEF NoControl, Control, AluOp
    <2> QED BY <2>1 DEF Init, ControlTypes, IfIdBubble, IdExBubble, ExMemReset, MemWbReset,
                        NoPend2, NoFuse4
  <1>2. MuldivHandshake(muldiv)
    BY DEF Init, MuldivHandshake, MuldivReset
  <1>3. Pend2Protocol
    BY DEF Init, Pend2Protocol, Pend2None, IdExBubble, ExMemReset, MemWbReset, NoPend2
  <1> QED BY <1>1, <1>2, <1>3 DEF Pend2Inv

(* Control bits stay Boolean, and control signals control signals.         *)
LEMMA StepControlTypes ==
  ASSUME ControlTypes, MuldivHandshake(muldiv), ClockEdge
  PROVE  ControlTypes'
  <1>1. id_bound' \in BOOLEAN
    BY DEF ControlTypes, ClockEdge, NextBound
  <1>2. pend2_active' \in BOOLEAN
    BY DEF ControlTypes, ClockEdge, NextPend2Active
  <1>3. ifid'.lookahead_valid \in BOOLEAN
    BY DEF ControlTypes, ClockEdge, NextIfId, IfIdBubble, FlushFront
  <1>4. /\ idex'.ctl \in Control
        /\ idex'.pend2.valid \in BOOLEAN /\ idex'.fuse4.valid \in BOOLEAN
    <2>1. CASE idex' = IdExBubble
      BY <2>1 DEF IdExBubble, NoControl, Control, AluOp, NoPend2, NoFuse4
    <2>2. CASE idex' = idex
      BY <2>2 DEF ControlTypes
    <2>3. CASE idex' = Issued
      <3>1. /\ Issued.ctl = IssuedControl
            /\ Issued.pend2.valid = (Fuse(3) \/ Fuse(5))
            /\ Issued.fuse4.valid = Fuse(4)
        BY DEF Issued
      <3>2. Fuse(4) \in BOOLEAN
        BY DEF Fuse
      <3> QED BY <2>3, <3>1, <3>2, IssuedControlType
    <2> QED BY <2>1, <2>2, <2>3 DEF ClockEdge, NextIdEx
  <1>5. /\ exmem'.reg_write \in BOOLEAN /\ exmem'.mem_read \in BOOLEAN
        /\ exmem'.mem_write \in BOOLEAN /\ exmem'.is_muldiv \in BOOLEAN
        /\ exmem'.is_csr \in BOOLEAN /\ exmem'.pend2.valid \in BOOLEAN
    <2>1. CASE MuldivActive
      BY <2>1 DEF ControlTypes, ClockEdge, NextExMem
    <2>2. CASE ~MuldivActive
      BY <2>2 DEF ControlTypes, Control, ClockEdge, NextExMem
    <2> QED BY <2>1, <2>2
  <1>6. /\ memwb'.reg_write \in BOOLEAN /\ memwb'.is_muldiv \in BOOLEAN
        /\ memwb'.is_csr \in BOOLEAN /\ memwb'.pend2.valid \in BOOLEAN
    <2>1. CASE MuldivActive
      BY <2>1 DEF ControlTypes, ClockEdge, NextMemWb
    <2>2. CASE ~MuldivActive
      BY <2>2 DEF ControlTypes, ClockEdge, NextMemWb
    <2> QED BY <2>1, <2>2
  <1>7. pend2_fire'.valid \in BOOLEAN
    BY DEF ControlTypes, ClockEdge, NextPend2Fire
  <1> QED BY <1>1, <1>2, <1>3, <1>4, <1>5, <1>6, <1>7 DEF ControlTypes

(* The multiply/divide unit across a clock edge.                           *)
LEMMA StepMuldiv ==
  ASSUME ControlTypes, MuldivHandshake(muldiv), ClockEdge
  PROVE  MuldivHandshake(muldiv') /\ (~MuldivActive => ~muldiv'.busy)
  <1>1. MuldivStart \in BOOLEAN
    BY DEF MuldivStart
  <1>2. muldiv' = MuldivNext(muldiv, MuldivStart, MuldivActive,
                             Gated("a", FwdA), Gated("b", FwdB), idex.instr.f3)
    BY DEF ClockEdge, NextMuldiv
  <1>3. ~MuldivActive => ~muldiv.busy /\ ~MuldivStart
    BY DEF MuldivActive
  <1> QED BY <1>1, <1>2, <1>3, MuldivNextHandshake

(* Unless the unit is active, every stage behind EX moves on.              *)
LEMMA StepAdvances ==
  ASSUME ClockEdge, ~MuldivActive
  PROVE  /\ exmem'.reg_write = idex.ctl.reg_write /\ exmem'.pend2 = idex.pend2
         /\ memwb'.reg_write = exmem.reg_write /\ memwb'.pend2 = exmem.pend2
         /\ pend2_fire' = memwb.pend2
  <1>1. /\ exmem'.reg_write = idex.ctl.reg_write /\ exmem'.pend2 = idex.pend2
    BY DEF ClockEdge, NextExMem
  <1>2. memwb'.reg_write = exmem.reg_write /\ memwb'.pend2 = exmem.pend2
    BY DEF ClockEdge, NextMemWb
  <1>3. pend2_fire' = memwb.pend2
    BY DEF ClockEdge, NextPend2Fire
  <1> QED BY <1>1, <1>2, <1>3

(* While the second write is pending a bubble enters EX and everything     *)
(* behind moves, so the write comes one stage nearer to the register file, *)
(* with nothing following it.                                              *)
LEMMA PendingMoves ==
  ASSUME Pend2Inv, ClockEdge, pend2_active
  PROVE  /\ ~muldiv'.busy
         /\ Pend2InEx  => Pend2InMem' /\ pend2_active'
         /\ Pend2InMem => Pend2InWb' /\ pend2_active'
         /\ Pend2InWb  => Pend2Fires' /\ pend2_active'
         /\ Pend2Fires => Pend2None' /\ ~pend2_active'
  <1>1. ~muldiv.busy /\ (Pend2InEx \/ Pend2InMem \/ Pend2InWb \/ Pend2Fires)
    BY DEF Pend2Inv, Pend2Protocol
  <1>2. ~idex.ctl.is_muldiv
    BY <1>1 DEF Pend2InEx, Pend2InMem, Pend2InWb, Pend2Fires, ExIdle
  <1>3. ~MuldivActive
    BY <1>1, <1>2 DEF MuldivActive, MuldivStart
  <1>4. ClearEx /\ StallFront
    BY <1>3 DEF ClearEx, FlushEx, StallFront, StallPcIfId
  <1>5. ~muldiv'.busy
    BY <1>3, StepMuldiv DEF Pend2Inv
  <1>6. idex' = IdExBubble
    BY <1>4 DEF ClockEdge, NextIdEx
  <1>7. ExIdle' /\ ~idex'.pend2.valid
    BY <1>6 DEF ExIdle, IdExBubble, NoControl, NoPend2
  <1>8. pend2_active' = (IF pend2_fire.valid THEN FALSE ELSE pend2_active)
    BY <1>4 DEF ClockEdge, NextPend2Active
  <1>9. Pend2InEx => Pend2InMem' /\ pend2_active'
    BY <1>3, <1>7, <1>8, StepAdvances DEF Pend2InEx, Pend2InMem
  <1>10. Pend2InMem => Pend2InWb' /\ pend2_active'
    BY <1>3, <1>7, <1>8, StepAdvances DEF Pend2InMem, Pend2InWb, ExIdle, MemIdle
  <1>11. Pend2InWb => Pend2Fires' /\ pend2_active'
    BY <1>3, <1>7, <1>8, StepAdvances DEF Pend2InWb, Pend2Fires, ExIdle, MemIdle, WbIdle
  <1>12. Pend2Fires => Pend2None' /\ ~pend2_active'
    BY <1>3, <1>7, <1>8, StepAdvances DEF Pend2Fires, Pend2None, ExIdle, MemIdle, WbIdle
  <1> QED BY <1>5, <1>9, <1>10, <1>11, <1>12

(* An edge with a second write under way.                                  *)
LEMMA StepPending ==
  ASSUME Pend2Inv, ClockEdge, pend2_active
  PROVE  Pend2Protocol'
  <1>1. Pend2InEx \/ Pend2InMem \/ Pend2InWb \/ Pend2Fires
    BY DEF Pend2Inv, Pend2Protocol
  <1> QED BY <1>1, PendingMoves DEF Pend2Protocol

(* With none pending, either none enters EX, or a fused pair brings one in *)
(* and raises pend2_active with it.                                        *)
LEMMA StepIdle ==
  ASSUME Pend2Inv, ClockEdge, ~pend2_active
  PROVE  Pend2Protocol' /\ (pend2_active' => Pend2InEx')
  <1>1. Pend2None
    BY DEF Pend2Inv, Pend2Protocol
  <1> DEFINE arms == (Fuse(3) \/ Fuse(5)) /\ ~StallFront /\ ~ClearEx
  <1>2. pend2_active' = arms
    <2>1. pend2_active = FALSE
      BY DEF Pend2Inv, ControlTypes
    <2>2. arms \in BOOLEAN
      BY DEF ClearEx, FlushEx, StallFront, StallPcIfId, Fuse
    <2> QED BY <2>1, <2>2 DEF ClockEdge, NextPend2Active
  <1>3. ~exmem'.pend2.valid /\ ~memwb'.pend2.valid /\ ~pend2_fire'.valid
    <2>1. CASE MuldivActive
      BY <1>1, <2>1 DEF ClockEdge, NextExMem, NextMemWb, NextPend2Fire, Pend2None
    <2>2. CASE ~MuldivActive
      BY <1>1, <2>2, StepAdvances DEF Pend2None
    <2> QED BY <2>1, <2>2
  <1>4. CASE arms
    <2>1. ~MuldivActive
      BY <1>4 DEF StallFront, StallPcIfId
    <2>2. idex' = Issued
      BY <1>4, <2>1 DEF ClockEdge, NextIdEx
    <2>3. Pend2InEx'
      BY <1>3, <1>4, <2>2, IssuedPend2 DEF Pend2InEx
    <2>4. ~muldiv'.busy
      BY <2>1, StepMuldiv DEF Pend2Inv
    <2> QED BY <1>2, <1>4, <2>3, <2>4 DEF Pend2Protocol
  <1>5. CASE ~arms
    <2>1. ~idex'.pend2.valid
      <3>1. CASE ClearEx
        BY <3>1 DEF ClockEdge, NextIdEx, IdExBubble, NoPend2
      <3>2. CASE ~ClearEx /\ MuldivActive
        BY <1>1, <3>2 DEF ClockEdge, NextIdEx, Pend2None
      <3>3. CASE ~ClearEx /\ ~MuldivActive
        <4>1. ~(Fuse(3) \/ Fuse(5))
          BY <1>5, <3>3, IssueImpliesNoStall
        <4> QED BY <3>3, <4>1, IssuedPend2 DEF ClockEdge, NextIdEx
      <3> QED BY <3>1, <3>2, <3>3
    <2> QED BY <1>2, <1>3, <1>5, <2>1 DEF Pend2Protocol, Pend2None
  <1> QED BY <1>4, <1>5

(* Every edge keeps the invariant.                                         *)
LEMMA StepPend2Inv == Pend2Inv /\ [Next]_vars => Pend2Inv'
  <1> SUFFICES ASSUME Pend2Inv, [Next]_vars PROVE Pend2Inv'
    OBVIOUS
  <1>1. CASE ClockEdge
    <2>1. ControlTypes'
      BY <1>1, StepControlTypes DEF Pend2Inv
    <2>2. MuldivHandshake(muldiv')
      BY <1>1, StepMuldiv DEF Pend2Inv
    <2>3. Pend2Protocol'
      BY <1>1, StepPending, StepIdle
    <2> QED BY <2>1, <2>2, <2>3 DEF Pend2Inv
  <1>2. CASE UNCHANGED vars
    BY <1>2 DEF vars, Pend2Inv, ControlTypes, MuldivHandshake, Pend2Protocol, Pend2InEx,
                Pend2InMem, Pend2InWb, Pend2Fires, Pend2None, ExIdle, MemIdle, WbIdle
  <1> QED BY <1>1, <1>2 DEF Next

(* So it always holds.                                                     *)
LEMMA Pend2Invariance == Spec => []Pend2Inv
  BY InitPend2Inv, StepPend2Inv, PTL DEF Spec

(* The control part of the type invariant, and the busy flag of the        *)
(* multiply/divide unit that says it is out of IDLE.                       *)
THEOREM ControlTypesInvariant == Spec => [](ControlTypes /\ MuldivHandshake(muldiv))
  <1>1. Pend2Inv => ControlTypes /\ MuldivHandshake(muldiv)
    BY DEF Pend2Inv
  <1> QED BY <1>1, Pend2Invariance, PTL

(* pend2_active is raised exactly while one second write is on its way,    *)
(* alone, and never in a freeze.                                           *)
THEOREM Pend2ProtocolHolds == Spec => []Pend2Protocol
  <1>1. Pend2Inv => Pend2Protocol
    BY DEF Pend2Inv
  <1> QED BY <1>1, Pend2Invariance, PTL

(* The second write never takes the write port from an instruction in WB.  *)
THEOREM WbPortHasOneWriter == Spec => []WbPortConflictFree
  <1>1. Pend2Inv => WbPortConflictFree
    BY DEF Pend2Inv, Pend2Protocol, WbPortConflictFree, Pend2InEx, Pend2InMem, Pend2InWb,
           Pend2Fires, Pend2None, WbIdle
  <1> QED BY <1>1, Pend2Invariance, PTL

-----------------------------------------------------------------------------
(* The front end.                                                          *)

LookaheadInv == FetchFromStream /\ LookaheadFromStream

(* What enters the fetch register is read at pc and pc + 4, or is the      *)
(* bubble; what enters ID comes from the fetch register or is invalid.     *)
LEMMA StepLookahead == LookaheadInv /\ [Next]_vars => LookaheadInv'
  <1> SUFFICES ASSUME LookaheadInv, [Next]_vars PROVE LookaheadInv'
    OBVIOUS
  <1>1. CASE ClockEdge
    <2>1. imem' = imem
      BY <1>1 DEF ClockEdge
    <2>2. FetchFromStream'
      <3>1. CASE fetch' = FetchBubble
        BY <3>1 DEF FetchFromStream, FetchBubble
      <3>2. CASE fetch' = fetch
        BY <2>1, <3>2 DEF LookaheadInv, FetchFromStream, FetchBubble
      <3>3. CASE fetch' = [pc |-> pc, instr |-> imem[MemIndex(pc)],
                           next |-> imem[MemIndex(Add(pc, 4))]]
        BY <2>1, <3>3 DEF FetchFromStream
      <3> QED BY <1>1, <3>1, <3>2, <3>3 DEF ClockEdge, NextFetch
    <2>3. LookaheadFromStream'
      <3>1. CASE ifid' = IfIdBubble
        BY <3>1 DEF LookaheadFromStream, IfIdBubble
      <3>2. CASE ifid' = ifid
        BY <2>1, <3>2 DEF LookaheadInv, LookaheadFromStream
      <3>3. CASE ifid' = [pc |-> fetch.pc, instr |-> fetch.instr, next |-> fetch.next,
                          lookahead_valid |-> ~FlushFront]
        BY <2>1, <3>3 DEF LookaheadInv, FetchFromStream, LookaheadFromStream, FetchBubble
      <3> QED BY <1>1, <3>1, <3>2, <3>3 DEF ClockEdge, NextIfId
    <2> QED BY <2>2, <2>3 DEF LookaheadInv
  <1>2. CASE UNCHANGED vars
    BY <1>2 DEF vars, LookaheadInv, FetchFromStream, LookaheadFromStream, FetchBubble
  <1> QED BY <1>1, <1>2 DEF Next

(* A valid lookahead word is the successor, in the program, of the         *)
(* instruction in ID: fusion never pairs words across a redirect.          *)
THEOREM LookaheadIsSuccessor == Spec => []LookaheadFromStream
  <1>1. Init => LookaheadInv
    BY DEF Init, LookaheadInv, FetchFromStream, LookaheadFromStream, IfIdBubble
  <1>2. LookaheadInv => LookaheadFromStream
    BY DEF LookaheadInv
  <1> QED BY <1>1, <1>2, StepLookahead, PTL DEF Spec

-----------------------------------------------------------------------------
(* Operand isolation.                                                      *)

(* Across any clock edge after which the unit is idle, the gates present   *)
(* what they presented before: either they were open, and the hold         *)
(* registers took what they passed, or they were closed already.           *)
THEOREM IsolationHoldsAlways == Spec => IsolationHolds
  <1> DEFINE A == ISOL_EN /\ UnitOperands' # UnitOperands => MuldivActive'
  <1>1. ASSUME [Next]_vars, ISOL_EN, ~MuldivActive' PROVE UnitOperands' = UnitOperands
    <2>1. ~GateOpen'
      BY <1>1 DEF GateOpen
    <2>2. UnitOperands' = <<isol_hold'["a"], isol_hold'["b"]>>
      BY <2>1 DEF UnitOperands, Gated
    <2>3. CASE ClockEdge /\ GateOpen
      <3>1. isol_hold' = [i \in {"a", "b"} |-> IF i = "a" THEN FwdA ELSE FwdB]
        BY <2>3 DEF ClockEdge, NextIsolHold
      <3>2. UnitOperands = <<FwdA, FwdB>>
        BY <2>3 DEF UnitOperands, Gated
      <3> QED BY <2>2, <3>1, <3>2
    <2>4. CASE ClockEdge /\ ~GateOpen
      <3>1. isol_hold' = isol_hold
        BY <2>4 DEF ClockEdge, NextIsolHold
      <3>2. UnitOperands = <<isol_hold["a"], isol_hold["b"]>>
        BY <2>4 DEF UnitOperands, Gated
      <3> QED BY <2>2, <3>1, <3>2
    <2>5. CASE UNCHANGED vars
      <3>1. idex' = idex /\ muldiv' = muldiv /\ isol_hold' = isol_hold
        BY <2>5 DEF vars
      <3>2. ~MuldivActive
        BY <1>1, <3>1 DEF MuldivActive, MuldivStart
      <3>3. UnitOperands = <<isol_hold["a"], isol_hold["b"]>>
        BY <1>1, <3>2 DEF UnitOperands, Gated, GateOpen
      <3> QED BY <2>2, <3>1, <3>3
    <2> QED BY <1>1, <2>3, <2>4, <2>5 DEF Next
  <1>2. [Next]_vars => [A]_vars
    BY <1>1
  <1> QED BY <1>2, PTL DEF Spec, IsolationHolds

-----------------------------------------------------------------------------
(* Bytes, halfwords and words.                                             *)

(* The weights of the byte lanes, by the law of exponents.                 *)
LEMMA LaneWeights ==
  /\ ByteMod \in Nat /\ ByteMod > 1
  /\ LaneMod(0) = 1 /\ LaneMod(1) = ByteMod /\ LaneMod(2) = ByteMod * ByteMod
  /\ LaneMod(3) = ByteMod * (ByteMod * ByteMod)
  /\ WordMod = (ByteMod * ByteMod) * (ByteMod * ByteMod)
  <1>1. PICK q \in Nat : q = W \div 4 /\ W = 4*q /\ q > 0
    BY WAssumption, LoadStoreAssumption
  <1>2. 0 * q = 0 /\ 1 * q = q /\ 2 * q = q + q /\ 3 * q = q + 2*q /\ W = 2*q + 2*q
    BY <1>1
  <1>3. q + q <= 2*W /\ q + 2*q <= 2*W /\ 2*q + 2*q <= 2*W
    BY <1>1
  <1>4. Pow2[2*q] = Pow2[q] * Pow2[q] /\ Pow2[3*q] = Pow2[q] * Pow2[2*q]
        /\ Pow2[W] = Pow2[2*q] * Pow2[2*q]
    <2>1. 2*q \in Nat
      BY <1>1
    <2> QED BY <1>1, <1>2, <1>3, <2>1, Pow2Sum
  <1>5. Pow2[q] \in Nat /\ Pow2[q] > 1
    <2>1. PICK p \in Nat : p + 1 = q
      BY <1>1
    <2>2. p \in 0 .. 2*W-1
      BY <1>1, <2>1
    <2>3. Pow2[q] = 2 * Pow2[p] /\ Pow2[p] \in Nat /\ Pow2[p] > 0
      BY <2>1, <2>2, Pow2Step, Pow2Type, WAssumption
    <2> QED BY <2>3
  <1> QED BY <1>1, <1>2, <1>4, <1>5, Pow2Step DEF ByteMod, LaneMod, WordMod

(* A word is at least four bits wide.                                      *)
LEMMA WideWord ==
  /\ 2 \in Word /\ 4 \in Word
  /\ HalfwordMod \in Nat /\ ByteMod <= HalfwordMod /\ HalfwordMod <= WordMod /\ HalfwordMod > 1
  <1>1. PICK b \in Nat : b = ByteMod /\ b > 1
    BY LaneWeights
  <1>2. PICK h \in Nat : h = b * b /\ h >= 4 /\ h >= b
    <2>1. b * b >= 2 * b
      BY <1>1
    <2> QED BY <1>1, <2>1
  <1>3. h * h >= 4 * h
    BY <1>2
  <1>4. WordMod = h * h /\ HalfwordMod = h
    BY <1>1, <1>2, LaneWeights DEF HalfwordMod
  <1>5. WordMod >= 16
    BY <1>2, <1>3, <1>4
  <1> QED BY <1>1, <1>2, <1>3, <1>4, <1>5, WordHalves DEF Word

(* A lane of a word is a byte.                                             *)
LEMMA ByteOfType ==
  ASSUME NEW x \in Nat, NEW k \in Lane
  PROVE  ByteOf(x, k) \in 0 .. ByteMod-1
  <1>1. LaneMod(k) \in Nat /\ LaneMod(k) > 0
    <2>1. ByteMod * ByteMod \in Nat /\ ByteMod * ByteMod > 0
      BY LaneWeights, TimesPositive
    <2>2. ByteMod * (ByteMod * ByteMod) \in Nat /\ ByteMod * (ByteMod * ByteMod) > 0
      BY <2>1, LaneWeights, TimesPositive
    <2>3. k = 0 \/ k = 1 \/ k = 2 \/ k = 3
      BY DEF Lane
    <2> QED BY <2>1, <2>2, <2>3, LaneWeights
  <1>2. x \div LaneMod(k) \in Int
    BY <1>1, DivMod
  <1>3. ByteMod \in Nat /\ ByteMod > 0
    BY LaneWeights
  <1> QED BY <1>2, <1>3, DivMod DEF ByteOf

(* Two digits below their bases make a number below the product.           *)
LEMMA TwoDigits ==
  ASSUME NEW x \in Nat, x > 0, NEW z \in Nat, z > 0, NEW lo \in 0 .. x-1, NEW hi \in 0 .. z-1
  PROVE  lo + hi * x \in 0 .. x * z - 1
  <1>1. x * hi + lo \in 0 .. x * z - 1
    BY LowerBits
  <1>2. x * hi = hi * x
    OBVIOUS
  <1> QED BY <1>1, <1>2

(* Bytes make up a word.                                                   *)
LEMMA WordOfType ==
  ASSUME NEW byte, \A k \in Lane : byte[k] \in 0 .. ByteMod-1
  PROVE  WordOf(byte) \in Word
  <1>1. PICK b \in Nat : b = ByteMod /\ b > 1
    BY LaneWeights
  <1>2. PICK p \in 0 .. b-1, q \in 0 .. b-1, r \in 0 .. b-1, s \in 0 .. b-1 :
          p = byte[0] /\ q = byte[1] /\ r = byte[2] /\ s = byte[3]
    BY <1>1 DEF Lane
  <1>3. PICK h \in Nat : h = b * b /\ h > 0
    BY <1>1, TimesPositive
  <1>4. PICK lo \in 0 .. h-1 : lo = p + q * b
    <2>1. p + q * b \in 0 .. b * b - 1
      BY <1>1, <1>2, TwoDigits
    <2> QED BY <1>3, <2>1
  <1>5. PICK hi \in 0 .. h-1 : hi = r + s * b
    <2>1. r + s * b \in 0 .. b * b - 1
      BY <1>1, <1>2, TwoDigits
    <2> QED BY <1>3, <2>1
  <1>6. lo + hi * h \in 0 .. h * h - 1
    BY <1>3, <1>4, <1>5, TwoDigits
  <1>7. WordOf(byte) = p + q * b + r * h + s * (b * h)
    BY <1>1, <1>2, <1>3, LaneWeights DEF WordOf
  <1>8. p + q * b + r * h + s * (b * h) = lo + hi * h
    <2>1. (r + s * b) * h = r * h + s * (b * h)
      BY <1>1, <1>2, <1>3
    <2> QED BY <1>1, <1>2, <1>3, <1>4, <1>5, <2>1
  <1>9. WordMod = h * h
    BY <1>1, <1>3, LaneWeights
  <1> QED BY <1>6, <1>7, <1>8, <1>9 DEF Word

(* A store leaves a word in memory.                                        *)
LEMMA StoreLanesType ==
  ASSUME NEW old \in Word, NEW x \in Word, NEW width, NEW lane \in Lane
  PROVE  StoreLanes(old, width, lane, x) \in Word
  <1> DEFINE data == IF width = "word" THEN x ELSE (Truncate(width, x) * LaneMod(lane)) % WordMod
             byte == [k \in Lane |-> ByteOf(IF k \in ByteEnable(width, lane) THEN data ELSE old, k)]
  <1>1. LaneMod(lane) \in Int
    <2>1. ByteMod * ByteMod \in Nat /\ ByteMod * (ByteMod * ByteMod) \in Nat
      BY LaneWeights
    <2>2. lane = 0 \/ lane = 1 \/ lane = 2 \/ lane = 3
      BY DEF Lane
    <2> QED BY <2>1, <2>2, LaneWeights
  <1>2. Truncate(width, x) \in Int
    BY LaneWeights, WideWord, SmallWords DEF Truncate
  <1>3. data \in Nat /\ old \in Nat
    <2>1. (Truncate(width, x) * LaneMod(lane)) \in Int
      BY <1>1, <1>2
    <2> QED BY <2>1, ModIsWord, SmallWords
  <1> HIDE DEF data
  <1>4. \A k \in Lane : byte[k] \in 0 .. ByteMod-1
    BY <1>3, ByteOfType
  <1> HIDE DEF byte
  <1>5. WordOf(byte) \in Word
    BY <1>4, WordOfType
  <1> QED BY <1>5 DEF StoreLanes, byte, data

(* A load brings a word.                                                   *)
LEMMA LoadLanesType ==
  ASSUME NEW raw \in Word, NEW width \in {"byte", "half", "word"}, NEW unsigned \in BOOLEAN,
         NEW lane \in Lane
  PROVE  LoadLanes(raw, width, unsigned, lane) \in Word
  <1>1. PICK b \in Nat : b = ByteMod /\ b > 1 /\ b <= WordMod
    BY LaneWeights, WideWord, WordHalves
  <1>2. PICK h \in Nat : h = HalfwordMod /\ h > 1 /\ h <= WordMod
    BY WideWord
  <1>3. LaneMod(lane) \in Nat /\ LaneMod(lane) > 0
    <2>1. ByteMod * ByteMod \in Nat /\ ByteMod * ByteMod > 0
      BY LaneWeights, TimesPositive
    <2>2. ByteMod * (ByteMod * ByteMod) \in Nat /\ ByteMod * (ByteMod * ByteMod) > 0
      BY <2>1, LaneWeights, TimesPositive
    <2>3. lane = 0 \/ lane = 1 \/ lane = 2 \/ lane = 3
      BY DEF Lane
    <2> QED BY <2>1, <2>2, <2>3, LaneWeights
  <1>4. PICK x \in Int : x = raw \div LaneMod(lane)
    BY <1>3, DivMod, SmallWords
  <1>5. x % b \in 0 .. b-1 /\ x % h \in 0 .. h-1
    BY <1>1, <1>2, DivMod
  <1>6. \A m \in Nat : \A y \in 0 .. m-1 : m <= WordMod => y \in Word /\ SignExtend(y, m) \in Word
    BY WordHalves DEF SignExtend, Word
  <1>7. CASE width = "word"
    BY <1>7 DEF LoadLanes
  <1>8. CASE width = "byte"
    BY <1>1, <1>4, <1>5, <1>6, <1>8 DEF LoadLanes, Extend, Truncate
  <1>9. CASE width = "half"
    BY <1>2, <1>4, <1>5, <1>6, <1>9 DEF LoadLanes, Extend, Truncate
  <1> QED BY <1>7, <1>8, <1>9

-----------------------------------------------------------------------------
(* The instructions and what they compute.                                 *)
LEMMA NopType == NOP \in Instr
  BY SmallWords, RegAssumption DEF NOP, Instr, Opcode, CsrAddr

(* Words are integers.                                                     *)
LEMMA WordsAreIntegers == \A x \in Word : x \in Int
  BY SmallWords

(* Sums and differences of words are words.                                *)
LEMMA AddType == \A a, b \in Word : Add(a, b) \in Word /\ Sub(a, b) \in Word
  <1>1. Word \subseteq Int
    BY SmallWords
  <1> QED BY <1>1, ArithmeticType

(* The ALU gives a word for every operation.                               *)
LEMMA AluType ==
  ASSUME NEW op, NEW a \in Word, NEW b \in Word
  PROVE  Alu(op, a, b) \in Word
  <1>1. a \in Int /\ b \in Int
    BY SmallWords
  <1>2. Add(a, b) \in Word /\ Sub(a, b) \in Word
    BY <1>1, ArithmeticType
  <1>3. ShiftL(a, b) \in Word /\ ShiftR(a, b) \in Word /\ ShiftRA(a, b) \in Word
    BY ShiftType
  <1>4. 0 \in Word /\ 1 \in Word
    BY SmallWords
  <1> QED BY <1>2, <1>3, <1>4, BitwiseType DEF Alu

(* So does the address of an indirect jump.                                *)
LEMMA JalrTargetType ==
  ASSUME NEW a \in Word, NEW b \in Word
  PROVE  JalrTarget(a, b) \in Word
  <1>1. PICK s \in Word : s = Add(a, b)
    BY AddType
  <1>2. s - (s % 2) \in Word
    <2>1. s \in Nat /\ s <= WordMod - 1
      BY <1>1, WordHalves DEF Word
    <2> QED BY <2>1, WordHalves DEF Word
  <1> QED BY <1>1, <1>2 DEF JalrTarget

(* So does the value a CSR instruction writes.                             *)
LEMMA CsrWriteValueType ==
  ASSUME NEW f3, NEW old, NEW a \in Word
  PROVE  CsrWriteValue(f3, old, a) \in Word
  BY BitwiseType, SmallWords DEF CsrWriteValue

(* An address falls into the memory.                                       *)
LEMMA MemIndexType ==
  ASSUME NEW addr \in Word
  PROVE  MemIndex(addr) \in 0 .. NW-1 /\ MemLane(addr) \in Lane
  <1>1. PICK s \in Word : s = Sub(addr, MemBase)
    BY AddType, MachineAssumption
  <1>2. s \in Nat
    BY SmallWords
  <1>3. s \div 4 \in Int /\ s % 4 \in 0 .. 3
    BY <1>2
  <1>4. (s \div 4) % NW \in 0 .. NW-1
    BY <1>3, MachineAssumption, DivMod
  <1> QED BY <1>1, <1>3, <1>4 DEF MemIndex, MemLane, Lane

(* The result bus of the unit is a word.                                   *)
LEMMA MuldivBusType ==
  ASSUME NEW m \in MuldivRegisters
  PROVE  MuldivBus(m) \in Word
  <1> DEFINE Product(negative) == IF negative THEN (DoubleMod - m.mul_acc) % DoubleMod
                                  ELSE m.mul_acc
  <1>1. \A r \in 0 .. DoubleMod-1 : r \div WordMod \in Word /\ r % WordMod \in Word
    BY UpperHalf, JoinRegister, DoubleWord DEF Word
  <1>2. Product(TRUE) \in 0 .. DoubleMod-1 /\ Product(FALSE) \in 0 .. DoubleMod-1
    <2>1. m.mul_acc \in Nat /\ DoubleMod \in Nat /\ DoubleMod > 0
      BY DoubleWord, RegisterTypes
    <2>2. DoubleMod - m.mul_acc \in Int
      BY <2>1
    <2> QED BY <2>1, <2>2, DivMod, RegisterTypes
  <1>3. \A n \in BOOLEAN : Product(n) \div WordMod \in Word /\ Product(n) % WordMod \in Word
    BY <1>1, <1>2
  <1>4. /\ m.mul_a_sign \in BOOLEAN /\ m.mul_b_sign \in BOOLEAN
        /\ m.div_a_sign \in BOOLEAN /\ m.div_b_sign \in BOOLEAN
    BY DEF MuldivRegisters
  <1>5. (m.mul_a_sign # m.mul_b_sign) \in BOOLEAN /\ (m.div_a_sign # m.div_b_sign) \in BOOLEAN
    OBVIOUS
  <1>6. /\ m.div_rem % WordMod \in Word /\ m.div_rem \div WordMod \in Word
        /\ m.mul_acc \div WordMod \in Word /\ m.op_a_r \in Word
    BY <1>1, RegisterTypes
  <1>7. /\ Magnitude(m.div_a_sign # m.div_b_sign, m.div_rem % WordMod) \in Word
        /\ Magnitude(m.div_a_sign, m.div_rem \div WordMod) \in Word
    BY <1>4, <1>5, <1>6, MagnitudeType
  <1>8. AllOnes \in Word /\ MinInt \in Word /\ 0 \in Word
    BY SmallWords DEF AllOnes, MinInt
  <1>9. /\ Product(m.mul_a_sign # m.mul_b_sign) % WordMod \in Word
        /\ Product(m.mul_a_sign # m.mul_b_sign) \div WordMod \in Word
        /\ Product(m.mul_a_sign) \div WordMod \in Word
    BY <1>3, <1>4, <1>5
  <1> QED BY <1>6, <1>7, <1>8, <1>9 DEF MuldivBus
-----------------------------------------------------------------------------
(* The wires carry words.  A trap CSR holds a word, which TypeOK leaves    *)
(* open for the counters' sake, and a redirect needs.                      *)
DataInv ==
  /\ TypeOK
  /\ \A a \in TrapCsr : csr[a] \in Word
  /\ UnitPhases(muldiv)

(* The widths of the registers into EX, one by one.                        *)
LEMMA IdExTypes ==
  ASSUME TypeOK
  PROVE  /\ idex.pc \in Word /\ idex.rs1_data \in Word /\ idex.rs2_data \in Word
         /\ idex.imm \in Word /\ idex.rs1 \in Reg /\ idex.rs2 \in Reg /\ idex.rd \in Reg
         /\ idex.instr \in Instr /\ idex.ctl \in Control /\ idex.pend2 \in Pend2
         /\ idex.fuse4.target \in Word
  BY DEF TypeOK

(* The widths of the fields of an instruction.                             *)
LEMMA InstrTypes ==
  ASSUME NEW i \in Instr
  PROVE  /\ i.f3 \in 0 .. 7 /\ i.rd \in Reg /\ i.rs1 \in Reg /\ i.rs2 \in Reg
         /\ i.imm \in Word /\ i.csr \in CsrAddr /\ i.enc \in Word
  BY DEF Instr

(* The widths of the registers into MEM.                                   *)
LEMMA ExMemTypes ==
  ASSUME TypeOK
  PROVE  /\ exmem.alu_result \in Word /\ exmem.muldiv_result \in Word
         /\ exmem.rs2_data \in Word /\ exmem.pc4 \in Word /\ exmem.imm \in Word
         /\ exmem.rd \in Reg /\ exmem.mem_width \in {"byte", "half", "word"}
         /\ exmem.mem_unsigned \in BOOLEAN /\ exmem.result_src \in {"alu", "mem", "pc4", "imm"}
         /\ exmem.reg_write \in BOOLEAN /\ exmem.is_muldiv \in BOOLEAN
         /\ exmem.is_csr \in BOOLEAN /\ exmem.csr_addr \in CsrAddr /\ exmem.pend2 \in Pend2
  BY DEF TypeOK

(* The widths of the registers into WB and of the memory read register.    *)
LEMMA MemWbTypes ==
  ASSUME TypeOK
  PROVE  /\ memwb.alu_result \in Word /\ memwb.muldiv_result \in Word
         /\ memwb.pc4 \in Word /\ memwb.imm \in Word /\ memwb.rd \in Reg
         /\ memwb.mem_width \in {"byte", "half", "word"} /\ memwb.mem_unsigned \in BOOLEAN
         /\ memwb.csr_addr \in CsrAddr /\ memwb.pend2 \in Pend2
         /\ mem_rdata.raw \in Word /\ mem_rdata.byte_sel \in Lane
  BY DEF TypeOK

(* What is forwarded is a word.                                            *)
LEMMA ForwardedTypes ==
  ASSUME TypeOK
  PROVE  MemForwardValue \in Word /\ WbData \in Word /\ FwdA \in Word /\ FwdB \in Word
  <1>1. MemForwardValue \in Word
    BY ExMemTypes, PipelineAssumption DEF MemForwardValue
  <1>2. WbData \in Word
    <2>1. LoadLanes(mem_rdata.raw, memwb.mem_width, memwb.mem_unsigned, mem_rdata.byte_sel) \in Word
      BY MemWbTypes, LoadLanesType
    <2> QED BY <2>1, MemWbTypes DEF WbData
  <1>3. \A rs : \A x \in Word : Forwarded(rs, x) \in Word
    BY <1>1, <1>2 DEF Forwarded
  <1> QED BY <1>1, <1>2, <1>3, IdExTypes DEF FwdA, FwdB

(* What EX computes is a word.                                             *)
LEMMA ExTypes ==
  ASSUME DataInv
  PROVE  /\ AluResult \in Word /\ CsrReadEx \in Word /\ RedirectTarget \in Word
         /\ MuldivBus(muldiv) \in Word
         /\ Gated("a", FwdA) \in Word /\ Gated("b", FwdB) \in Word
  <1>0. TypeOK
    BY DEF DataInv
  <1>1. AluResult \in Word
    BY <1>0, ForwardedTypes, IdExTypes, AluType DEF AluResult
  <1>2. CsrReadEx \in Word
    <2>1. CsrRead(csr, idex.instr.csr) \in Word
      <3>1. CASE idex.instr.csr = "none"
        BY <3>1, SmallWords DEF CsrRead
      <3>2. CASE idex.instr.csr # "none"
        <4>1. idex.instr.csr \in TrapCsr \cup CounterCsr
          BY <1>0, <3>2, IdExTypes, InstrTypes DEF CsrAddr, TrapCsr, CounterCsr
        <4>2. csr[idex.instr.csr] \in Int
          <5>1. csr \in [TrapCsr \cup CounterCsr -> Word \cup 0 .. CntMod-1]
            BY <1>0 DEF TypeOK
          <5>2. csr[idex.instr.csr] \in Word \cup 0 .. CntMod-1
            BY <4>1, <5>1
          <5>3. \A x \in 0 .. CntMod-1 : x \in Int
            BY CsrAssumption
          <5> QED BY <5>2, <5>3, WordsAreIntegers
        <4> QED BY <3>2, <4>2, ModIsWord DEF CsrRead
      <3> QED BY <3>1, <3>2
    <2> QED BY <1>0, <2>1, ExMemTypes, MemWbTypes DEF CsrReadEx
  <1>3. RedirectTarget \in Word
    <2>1. csr["mtvec"] \in Word
      BY DEF DataInv, TrapCsr
    <2>2. JalrTarget(FwdA, idex.imm) \in Word
      BY <1>0, ForwardedTypes, IdExTypes, JalrTargetType
    <2>3. Add(idex.pc, idex.imm) \in Word
      BY <1>0, IdExTypes, AddType
    <2> QED BY <1>0, <2>1, <2>2, <2>3, IdExTypes DEF RedirectTarget
  <1>4. MuldivBus(muldiv) \in Word
    BY <1>0, MuldivBusType DEF TypeOK
  <1>5. Gated("a", FwdA) \in Word /\ Gated("b", FwdB) \in Word
    BY <1>0, ForwardedTypes DEF Gated, TypeOK
  <1> QED BY <1>1, <1>2, <1>3, <1>4, <1>5

(* What ID reads is a word.                                                *)
LEMMA RegReadType ==
  ASSUME TypeOK
  PROVE  /\ PortWrite.data \in Word /\ PortWrite.rd \in Reg
         /\ \A r \in Reg : RegRead(r) \in Word
  <1>1. PortWrite.data \in Word /\ PortWrite.rd \in Reg
    <2>1. pend2_fire.addr \in Reg /\ pend2_fire.data \in Word
      BY DEF TypeOK, Pend2
    <2> QED BY <2>1, ForwardedTypes, MemWbTypes DEF PortWrite
  <1>2. \A r \in Reg : regs[r] \in Word
    BY DEF TypeOK
  <1> QED BY <1>1, <1>2, SmallWords DEF RegRead

(* What ID issues, fused or not, has the widths of the registers into EX.  *)
LEMMA IssuedType ==
  ASSUME TypeOK
  PROVE  Issued \in [pc : Word, rs1_data : Word, rs2_data : Word, imm : Word,
                     rs1 : Reg, rs2 : Reg, rd : Reg, instr : Instr, ctl : Control, pend2 : Pend2,
                     fuse4 : [valid : BOOLEAN, bne : BOOLEAN, target : Word]]
  <1>1. ifid.pc \in Word /\ ifid.instr \in Instr /\ ifid.next \in Instr
    BY DEF TypeOK
  <1>2. /\ ifid.instr.imm \in Word /\ ifid.next.imm \in Word /\ ifid.instr.rd \in Reg
        /\ ifid.next.rd \in Reg /\ ifid.instr.rs1 \in Reg /\ ifid.instr.rs2 \in Reg
    BY <1>1, InstrTypes
  <1>3. 4 \in Word
    BY WideWord
  <1>4. /\ Add(ifid.pc, ifid.instr.imm) \in Word /\ Add(ifid.pc, 4) \in Word
        /\ Add(ifid.instr.imm, ifid.next.imm) \in Word
        /\ Add(Add(ifid.pc, 4), ifid.next.imm) \in Word
    BY <1>1, <1>2, <1>3, AddType
  <1>5. RegRead(ifid.instr.rs1) \in Word /\ RegRead(ifid.instr.rs2) \in Word
    BY <1>2, RegReadType
  <1>6. IssuedControl \in Control
    BY IssuedControlType
  <1>7. \A k \in 1 .. 5 : Fuse(k) \in BOOLEAN
    BY DEF Fuse
  <1>8. (IF Fuse(3) THEN Add(ifid.pc, ifid.instr.imm)
         ELSE Add(RegRead(ifid.instr.rs1),
                  IF ifid.instr.op = "OP" THEN RegRead(ifid.instr.rs2) ELSE ifid.instr.imm)) \in Word
    BY <1>2, <1>4, <1>5, AddType
  <1>9. (CASE Fuse(1) \/ Fuse(2) -> Add(ifid.instr.imm, ifid.next.imm)
           [] Fuse(3) -> ifid.next.imm [] OTHER -> ifid.instr.imm) \in Word
    BY <1>2, <1>4
  <1>10. /\ (Fuse(3) \/ Fuse(5)) \in BOOLEAN /\ (ifid.next.f3 % 2 = 1) \in BOOLEAN
         /\ Fuse(4) \in BOOLEAN
    BY <1>7
  <1> QED BY <1>1, <1>2, <1>4, <1>5, <1>6, <1>8, <1>9, <1>10 DEF Issued, Pend2
-----------------------------------------------------------------------------
(* Type correctness across a clock edge, one register at a time.           *)
(* What the reset clauses and the initial contents put in the registers.   *)
LEMMA ResetValues ==
  /\ MemBase \in Word
  /\ FetchBubble \in [pc : Word, instr : Instr, next : Instr]
  /\ IfIdBubble \in [pc : Word, instr : Instr, next : Instr, lookahead_valid : BOOLEAN]
  /\ IdExBubble \in
       [pc : Word, rs1_data : Word, rs2_data : Word, imm : Word,
        rs1 : Reg, rs2 : Reg, rd : Reg, instr : Instr, ctl : Control, pend2 : Pend2,
        fuse4 : [valid : BOOLEAN, bne : BOOLEAN, target : Word]]
  /\ ExMemReset \in
       [alu_result : Word, muldiv_result : Word, rs2_data : Word, pc4 : Word,
        imm : Word, rd : Reg, reg_write : BOOLEAN, mem_read : BOOLEAN,
        mem_write : BOOLEAN, mem_width : {"byte", "half", "word"},
        mem_unsigned : BOOLEAN, result_src : {"alu", "mem", "pc4", "imm"},
        is_muldiv : BOOLEAN, is_csr : BOOLEAN, csr_addr : CsrAddr, pend2 : Pend2]
  /\ MemWbReset \in
       [alu_result : Word, muldiv_result : Word, pc4 : Word, imm : Word, rd : Reg,
        reg_write : BOOLEAN, mem_width : {"byte", "half", "word"},
        mem_unsigned : BOOLEAN, result_src : {"alu", "mem", "pc4", "imm"},
        is_muldiv : BOOLEAN, is_csr : BOOLEAN, csr_addr : CsrAddr, pend2 : Pend2]
  /\ NoPend2 \in Pend2
  /\ UnitPhases(MuldivReset) /\ MuldivReset \in MuldivRegisters
  /\ CsrReset \in [TrapCsr \cup CounterCsr -> Word \cup 0 .. CntMod-1]
  /\ \A a \in TrapCsr : CsrReset[a] \in Word
  <1>1. 0 \in Word /\ 0 \in Reg /\ NOP \in Instr /\ MemBase \in Word /\ "none" \in CsrAddr
    BY SmallWords, RegAssumption, NopType, MachineAssumption DEF CsrAddr
  <1>2. NoPend2 \in Pend2 /\ NoFuse4 \in [valid : BOOLEAN, bne : BOOLEAN, target : Word]
    BY <1>1 DEF NoPend2, Pend2, NoFuse4
  <1>3. NoControl \in Control
    BY DEF NoControl, Control, AluOp
  <1>4. /\ FetchBubble \in [pc : Word, instr : Instr, next : Instr]
        /\ IfIdBubble \in [pc : Word, instr : Instr, next : Instr, lookahead_valid : BOOLEAN]
    BY <1>1 DEF FetchBubble, IfIdBubble
  <1>5. IdExBubble \in
          [pc : Word, rs1_data : Word, rs2_data : Word, imm : Word,
           rs1 : Reg, rs2 : Reg, rd : Reg, instr : Instr, ctl : Control, pend2 : Pend2,
           fuse4 : [valid : BOOLEAN, bne : BOOLEAN, target : Word]]
    BY <1>1, <1>2, <1>3 DEF IdExBubble
  <1>6. ExMemReset \in
          [alu_result : Word, muldiv_result : Word, rs2_data : Word, pc4 : Word,
           imm : Word, rd : Reg, reg_write : BOOLEAN, mem_read : BOOLEAN,
           mem_write : BOOLEAN, mem_width : {"byte", "half", "word"},
           mem_unsigned : BOOLEAN, result_src : {"alu", "mem", "pc4", "imm"},
           is_muldiv : BOOLEAN, is_csr : BOOLEAN, csr_addr : CsrAddr, pend2 : Pend2]
    BY <1>1, <1>2 DEF ExMemReset
  <1>7. MemWbReset \in
          [alu_result : Word, muldiv_result : Word, pc4 : Word, imm : Word, rd : Reg,
           reg_write : BOOLEAN, mem_width : {"byte", "half", "word"},
           mem_unsigned : BOOLEAN, result_src : {"alu", "mem", "pc4", "imm"},
           is_muldiv : BOOLEAN, is_csr : BOOLEAN, csr_addr : CsrAddr, pend2 : Pend2]
    BY <1>1, <1>2 DEF MemWbReset
  <1>8. UnitPhases(MuldivReset) /\ MuldivReset \in MuldivRegisters
    BY UnitPhasesReset DEF UnitPhases
  <1>9. CsrReset \in [TrapCsr \cup CounterCsr -> Word \cup 0 .. CntMod-1]
        /\ \A a \in TrapCsr : CsrReset[a] \in Word
    BY <1>1, CsrAssumption DEF CsrReset
  <1> QED BY <1>1, <1>2, <1>4, <1>5, <1>6, <1>7, <1>8, <1>9

(* The reset values have them.                                             *)
LEMMA InitData == Init => DataInv
  <1> SUFFICES ASSUME Init PROVE DataInv
    OBVIOUS
  <1>1. imem \in [0 .. NW-1 -> Instr] /\ regs \in [Reg -> Word] /\ regs[0] = 0
        /\ dmem \in [0 .. NW-1 -> Word]
    BY MachineAssumption DEF Init
  <1>2. /\ pc = MemBase /\ fetch = FetchBubble /\ ifid = IfIdBubble /\ id_bound = FALSE
        /\ idex = IdExBubble /\ exmem = ExMemReset /\ memwb = MemWbReset
        /\ pend2_active = FALSE /\ pend2_fire = NoPend2 /\ muldiv = MuldivReset
        /\ csr = CsrReset
    BY DEF Init
  <1>3. mem_rdata \in [raw : Word, byte_sel : Lane] /\ isol_hold \in [{"a", "b"} -> Word]
    BY SmallWords DEF Init, Lane
  <1>4. uart \in [count : 0 .. UartMod-1, last : 0 .. ByteMod-1]
    BY MachineAssumption, LaneWeights DEF Init, UartInit
  <1>5. /\ fetch \in [pc : Word, instr : Instr, next : Instr] /\ pc \in Word
        /\ ifid \in [pc : Word, instr : Instr, next : Instr, lookahead_valid : BOOLEAN]
        /\ id_bound \in BOOLEAN /\ pend2_active \in BOOLEAN /\ pend2_fire \in Pend2
    BY <1>2, ResetValues
  <1>6. idex \in
          [pc : Word, rs1_data : Word, rs2_data : Word, imm : Word,
           rs1 : Reg, rs2 : Reg, rd : Reg, instr : Instr, ctl : Control, pend2 : Pend2,
           fuse4 : [valid : BOOLEAN, bne : BOOLEAN, target : Word]]
    BY <1>2, ResetValues
  <1>7. exmem \in
          [alu_result : Word, muldiv_result : Word, rs2_data : Word, pc4 : Word,
           imm : Word, rd : Reg, reg_write : BOOLEAN, mem_read : BOOLEAN,
           mem_write : BOOLEAN, mem_width : {"byte", "half", "word"},
           mem_unsigned : BOOLEAN, result_src : {"alu", "mem", "pc4", "imm"},
           is_muldiv : BOOLEAN, is_csr : BOOLEAN, csr_addr : CsrAddr, pend2 : Pend2]
    BY <1>2, ResetValues
  <1>8. memwb \in
          [alu_result : Word, muldiv_result : Word, pc4 : Word, imm : Word, rd : Reg,
           reg_write : BOOLEAN, mem_width : {"byte", "half", "word"},
           mem_unsigned : BOOLEAN, result_src : {"alu", "mem", "pc4", "imm"},
           is_muldiv : BOOLEAN, is_csr : BOOLEAN, csr_addr : CsrAddr, pend2 : Pend2]
    BY <1>2, ResetValues
  <1>9. /\ muldiv \in MuldivRegisters /\ UnitPhases(muldiv)
        /\ csr \in [TrapCsr \cup CounterCsr -> Word \cup 0 .. CntMod-1]
        /\ \A a \in TrapCsr : csr[a] \in Word
    BY <1>2, ResetValues
  <1>10. TypeOK
    BY <1>1, <1>3, <1>4, <1>5, <1>6, <1>7, <1>8, <1>9 DEF TypeOK
  <1> QED BY <1>9, <1>10 DEF DataInv

(* An edge keeps the widths of the front end.                              *)
LEMMA StepFrontTypes ==
  ASSUME DataInv, ClockEdge
  PROVE  /\ (imem \in [0 .. NW-1 -> Instr])'
         /\ (pc \in Word)'
         /\ (fetch \in [pc : Word, instr : Instr, next : Instr])'
         /\ (ifid \in [pc : Word, instr : Instr, next : Instr, lookahead_valid : BOOLEAN])'
         /\ (id_bound \in BOOLEAN)' /\ (pend2_active \in BOOLEAN)'
  <1>0. TypeOK
    BY DEF DataInv
  <1>1. imem' \in [0 .. NW-1 -> Instr]
    BY <1>0 DEF ClockEdge, TypeOK
  <1>2. pc \in Word /\ 4 \in Word
    BY <1>0, WideWord DEF TypeOK
  <1>3. pc' \in Word
    <2>1. Add(pc, 4) \in Word
      BY <1>2, AddType
    <2> QED BY <1>2, <2>1, ExTypes DEF ClockEdge, NextPC
  <1>4. NOP \in Instr /\ 0 \in Word /\ MemBase \in Word
    BY NopType, SmallWords, MachineAssumption
  <1>5. fetch' \in [pc : Word, instr : Instr, next : Instr]
    <2>1. imem[MemIndex(pc)] \in Instr /\ imem[MemIndex(Add(pc, 4))] \in Instr
      <3>1. MemIndex(pc) \in 0 .. NW-1 /\ MemIndex(Add(pc, 4)) \in 0 .. NW-1
        BY <1>2, AddType, MemIndexType
      <3> QED BY <1>0, <3>1 DEF TypeOK
    <2>2. CASE fetch' = FetchBubble
      BY <1>4, <2>2 DEF FetchBubble
    <2>3. CASE fetch' = fetch
      BY <1>0, <2>3 DEF TypeOK
    <2>4. CASE fetch' = [pc |-> pc, instr |-> imem[MemIndex(pc)],
                         next |-> imem[MemIndex(Add(pc, 4))]]
      BY <1>2, <2>1, <2>4
    <2> QED BY <2>2, <2>3, <2>4 DEF ClockEdge, NextFetch
  <1>6. ifid' \in [pc : Word, instr : Instr, next : Instr, lookahead_valid : BOOLEAN]
    <2>1. CASE ifid' = IfIdBubble
      BY <1>4, <2>1 DEF IfIdBubble
    <2>2. CASE ifid' = ifid
      BY <1>0, <2>2 DEF TypeOK
    <2>3. CASE ifid' = [pc |-> fetch.pc, instr |-> fetch.instr, next |-> fetch.next,
                        lookahead_valid |-> ~FlushFront]
      <3>1. fetch.pc \in Word /\ fetch.instr \in Instr /\ fetch.next \in Instr
        BY <1>0 DEF TypeOK
      <3>2. (~FlushFront) \in BOOLEAN
        OBVIOUS
      <3> QED BY <2>3, <3>1, <3>2
    <2> QED BY <2>1, <2>2, <2>3 DEF ClockEdge, NextIfId
  <1>7. id_bound' \in BOOLEAN /\ pend2_active' \in BOOLEAN
    BY <1>0 DEF TypeOK, ClockEdge, NextBound, NextPend2Active
  <1> QED BY <1>1, <1>3, <1>5, <1>6, <1>7

(* An edge keeps those of the registers into EX.                           *)
LEMMA StepIdExTypes ==
  ASSUME DataInv, ClockEdge
  PROVE  (idex \in [pc : Word, rs1_data : Word, rs2_data : Word, imm : Word,
                    rs1 : Reg, rs2 : Reg, rd : Reg, instr : Instr, ctl : Control, pend2 : Pend2,
                    fuse4 : [valid : BOOLEAN, bne : BOOLEAN, target : Word]])'
  <1>0. TypeOK
    BY DEF DataInv
  <1>1. CASE idex' = IdExBubble
    <2>1. 0 \in Word /\ 0 \in Reg /\ NOP \in Instr
      BY SmallWords, RegAssumption, NopType
    <2>2. NoPend2 \in Pend2 /\ NoFuse4 \in [valid : BOOLEAN, bne : BOOLEAN, target : Word]
      BY <2>1 DEF NoPend2, Pend2, NoFuse4
    <2>3. NoControl \in Control
      BY DEF NoControl, Control, AluOp
    <2> QED BY <1>1, <2>1, <2>2, <2>3 DEF IdExBubble
  <1>2. CASE idex' = idex
    BY <1>0, <1>2 DEF TypeOK
  <1>3. CASE idex' = Issued
    BY <1>0, <1>3, IssuedType
  <1> QED BY <1>1, <1>2, <1>3 DEF ClockEdge, NextIdEx

(* An edge keeps those of the registers into MEM.                          *)
LEMMA StepExMemTypes ==
  ASSUME DataInv, ClockEdge
  PROVE  (exmem \in [alu_result : Word, muldiv_result : Word, rs2_data : Word, pc4 : Word,
                     imm : Word, rd : Reg, reg_write : BOOLEAN, mem_read : BOOLEAN,
                     mem_write : BOOLEAN, mem_width : {"byte", "half", "word"},
                     mem_unsigned : BOOLEAN, result_src : {"alu", "mem", "pc4", "imm"},
                     is_muldiv : BOOLEAN, is_csr : BOOLEAN, csr_addr : CsrAddr, pend2 : Pend2])'
  <1>0. TypeOK
    BY DEF DataInv
  <1>1. CASE exmem' = exmem
    BY <1>0, <1>1 DEF TypeOK
  <1>2. CASE ~MuldivActive
    <2>1. (IF idex.ctl.is_csr THEN CsrReadEx ELSE AluResult) \in Word
      BY ExTypes
    <2>2. (IF idex.ctl.is_csr THEN CsrWriteValue(idex.instr.f3, CsrReadEx, FwdA)
           ELSE MuldivBus(muldiv)) \in Word
      BY <1>0, ExTypes, ForwardedTypes, CsrWriteValueType
    <2>3. FwdB \in Word
      BY <1>0, ForwardedTypes
    <2>4. Add(idex.pc, 4) \in Word
      BY <1>0, IdExTypes, AddType, WideWord
    <2>5. /\ idex.imm \in Word /\ idex.rd \in Reg /\ idex.ctl \in Control /\ idex.pend2 \in Pend2
          /\ idex.instr.csr \in CsrAddr
      BY <1>0, IdExTypes, InstrTypes
    <2>6. /\ idex.ctl.reg_write \in BOOLEAN /\ idex.ctl.mem_read \in BOOLEAN
          /\ idex.ctl.mem_write \in BOOLEAN /\ idex.ctl.mem_width \in {"byte", "half", "word"}
          /\ idex.ctl.mem_unsigned \in BOOLEAN
          /\ idex.ctl.result_src \in {"alu", "mem", "pc4", "imm"}
          /\ idex.ctl.is_muldiv \in BOOLEAN /\ idex.ctl.is_csr \in BOOLEAN
      BY <2>5 DEF Control
    <2> QED BY <1>2, <2>1, <2>2, <2>3, <2>4, <2>5, <2>6 DEF ClockEdge, NextExMem
  <1> QED BY <1>1, <1>2 DEF ClockEdge, NextExMem

(* An edge keeps those of the registers into WB and of a firing write.     *)
LEMMA StepMemWbTypes ==
  ASSUME DataInv, ClockEdge
  PROVE  /\ (memwb \in [alu_result : Word, muldiv_result : Word, pc4 : Word, imm : Word, rd : Reg,
                        reg_write : BOOLEAN, mem_width : {"byte", "half", "word"},
                        mem_unsigned : BOOLEAN, result_src : {"alu", "mem", "pc4", "imm"},
                        is_muldiv : BOOLEAN, is_csr : BOOLEAN, csr_addr : CsrAddr, pend2 : Pend2])'
         /\ (pend2_fire \in Pend2)'
  <1>0. TypeOK
    BY DEF DataInv
  <1>1. CASE MuldivActive
    BY <1>0, <1>1 DEF TypeOK, ClockEdge, NextMemWb, NextPend2Fire
  <1>2. CASE ~MuldivActive
    <2>1. memwb' \in [alu_result : Word, muldiv_result : Word, pc4 : Word, imm : Word, rd : Reg,
                      reg_write : BOOLEAN, mem_width : {"byte", "half", "word"},
                      mem_unsigned : BOOLEAN, result_src : {"alu", "mem", "pc4", "imm"},
                      is_muldiv : BOOLEAN, is_csr : BOOLEAN, csr_addr : CsrAddr, pend2 : Pend2]
      BY <1>0, <1>2, ExMemTypes DEF ClockEdge, NextMemWb
    <2>2. pend2_fire' \in Pend2
      BY <1>0, <1>2, MemWbTypes DEF ClockEdge, NextPend2Fire
    <2> QED BY <2>1, <2>2
  <1> QED BY <1>1, <1>2

(* The registers and memories that have no reset clause.                   *)
LEMMA StepMemoryTypes ==
  ASSUME TypeOK, NextRegs, NextDmem, NextIsolHold, NextUart, NextMemRdata
  PROVE  /\ (regs \in [Reg -> Word] /\ regs[0] = 0)'
         /\ (dmem \in [0 .. NW-1 -> Word])'
         /\ (isol_hold \in [{"a", "b"} -> Word])'
         /\ (uart \in [count : 0 .. UartMod-1, last : 0 .. ByteMod-1])'
         /\ (mem_rdata \in [raw : Word, byte_sel : Lane])'
  <1>1. regs' \in [Reg -> Word] /\ regs'[0] = 0
    <2>1. regs \in [Reg -> Word] /\ regs[0] = 0
      BY DEF TypeOK
    <2>2. PortWrite.data \in Word /\ PortWrite.rd \in Reg
      BY RegReadType
    <2>3. regs' = RegWrite(regs, PortWrite.we, PortWrite.rd, PortWrite.data)
      BY DEF NextRegs
    <2> QED BY <2>1, <2>2, <2>3, RegAssumption DEF RegWrite
  <1>2. dmem' \in [0 .. NW-1 -> Word]
    <2>1. dmem \in [0 .. NW-1 -> Word]
      BY DEF TypeOK
    <2>2. MemIndex(exmem.alu_result) \in 0 .. NW-1 /\ MemLane(exmem.alu_result) \in Lane
      BY ExMemTypes, MemIndexType
    <2>3. StoreLanes(dmem[MemIndex(exmem.alu_result)], exmem.mem_width,
                     MemLane(exmem.alu_result), exmem.rs2_data) \in Word
      BY <2>1, <2>2, ExMemTypes, StoreLanesType
    <2>4. StoreInMem \in [0 .. NW-1 -> Word]
      BY <2>1, <2>2, <2>3 DEF StoreInMem
    <2> QED BY <2>1, <2>4 DEF NextDmem
  <1>3. isol_hold' \in [{"a", "b"} -> Word]
    <2>1. isol_hold \in [{"a", "b"} -> Word]
      BY DEF TypeOK
    <2> QED BY <2>1, ForwardedTypes DEF NextIsolHold
  <1>4. uart' \in [count : 0 .. UartMod-1, last : 0 .. ByteMod-1]
    <2>1. uart.count \in Int /\ UartMod \in Nat /\ UartMod > 0
      BY MachineAssumption DEF TypeOK
    <2>2. (uart.count + 1) % UartMod \in 0 .. UartMod-1
      BY <2>1, DivMod
    <2>3. exmem.rs2_data % ByteMod \in 0 .. ByteMod-1
      <3>1. exmem.rs2_data \in Word
        BY ExMemTypes
      <3>2. exmem.rs2_data \in Int /\ ByteMod \in Nat /\ ByteMod > 0
        BY <3>1, WordsAreIntegers, LaneWeights
      <3> QED BY <3>2, DivMod
    <2>4. UartSend(uart, exmem.rs2_data) \in [count : 0 .. UartMod-1, last : 0 .. ByteMod-1]
      BY <2>2, <2>3 DEF UartSend
    <2>5. uart \in [count : 0 .. UartMod-1, last : 0 .. ByteMod-1]
      BY DEF TypeOK
    <2> QED BY <2>4, <2>5 DEF NextUart
  <1>5. mem_rdata' \in [raw : Word, byte_sel : Lane]
    <2>1. CASE MuldivActive
      BY <2>1 DEF NextMemRdata, TypeOK
    <2>2. CASE ~MuldivActive
      <3>1. MemIndex(exmem.alu_result) \in 0 .. NW-1 /\ MemLane(exmem.alu_result) \in Lane
        BY ExMemTypes, MemIndexType
      <3>2. dmem[MemIndex(exmem.alu_result)] \in Word
        BY <3>1 DEF TypeOK
      <3> QED BY <2>2, <3>1, <3>2 DEF NextMemRdata, MemRead
    <2> QED BY <2>1, <2>2
  <1> QED BY <1>1, <1>2, <1>3, <1>4, <1>5

(* An edge keeps those of the multiply/divide unit.                        *)
LEMMA StepMuldivTypes ==
  ASSUME DataInv, ClockEdge
  PROVE  UnitPhases(muldiv') /\ muldiv' \in MuldivRegisters
  <1>0. TypeOK /\ UnitPhases(muldiv)
    BY DEF DataInv
  <1>1. MuldivStart \in BOOLEAN /\ MuldivActive \in BOOLEAN
    <2>1. muldiv.busy \in BOOLEAN
      BY <1>0 DEF TypeOK, MuldivRegisters
    <2> QED BY <2>1 DEF MuldivStart, MuldivActive
  <1>2. idex.instr.f3 \in 0 .. 7
    BY <1>0, IdExTypes, InstrTypes
  <1>3. muldiv' = MuldivNext(muldiv, MuldivStart, MuldivActive,
                             Gated("a", FwdA), Gated("b", FwdB), idex.instr.f3)
    BY DEF ClockEdge, NextMuldiv
  <1>4. UnitPhases(muldiv')
    BY <1>0, <1>1, <1>2, <1>3, ExTypes, UnitPhasesNext
  <1> QED BY <1>4 DEF UnitPhases

(* An edge keeps those of the CSRs; no trap CSR takes a counter's value.   *)
LEMMA StepCsrTypes ==
  ASSUME DataInv, ClockEdge
  PROVE  /\ (csr \in [TrapCsr \cup CounterCsr -> Word \cup 0 .. CntMod-1])'
         /\ (\A a \in TrapCsr : csr[a] \in Word)'
  <1> DEFINE File == [TrapCsr \cup CounterCsr -> Word \cup 0 .. CntMod-1]
             Traps(f) == \A a \in TrapCsr : f[a] \in Word
             written == CsrPort(csr, TrapTaken, idex.pc, idex.instr,
                                memwb.is_csr /\ ~MuldivActive, memwb.csr_addr, memwb.muldiv_result)
  <1>0. TypeOK /\ csr \in File /\ Traps(csr)
    BY DEF DataInv, TypeOK
  <1>1. written \in File /\ Traps(written)
    <2>1. idex.pc \in Word /\ idex.instr.enc \in Word /\ 2 \in Word /\ memwb.muldiv_result \in Word
      BY <1>0, IdExTypes, InstrTypes, MemWbTypes, WideWord
    <2>2. CsrTrap(csr, idex.pc, idex.instr) \in File /\ Traps(CsrTrap(csr, idex.pc, idex.instr))
      BY <1>0, <2>1 DEF CsrTrap, TrapCsr
    <2>3. /\ CsrWrite(csr, memwb.csr_addr, memwb.muldiv_result) \in File
          /\ Traps(CsrWrite(csr, memwb.csr_addr, memwb.muldiv_result))
      BY <1>0, <2>1 DEF CsrWrite
    <2> QED BY <1>0, <2>2, <2>3 DEF CsrPort
  <1>2. csr' = CsrCount(written, MuldivStart, IsolActive, FusionActive)
    BY DEF ClockEdge, NextCsr
  <1> HIDE DEF written
  <1>3. \A n \in Word \cup 0 .. CntMod-1 : (n + 1) % CntMod \in 0 .. CntMod-1
    <2> TAKE n \in Word \cup 0 .. CntMod-1
    <2>1. n \in Nat
      BY SmallWords, CsrAssumption
    <2> QED BY <2>1, CsrAssumption
  <1>4. \A a \in CounterCsr : written[a] \in Word \cup 0 .. CntMod-1
    BY <1>1
  <1>5. csr' \in File /\ Traps(csr')
    BY <1>1, <1>2, <1>3, <1>4 DEF CsrCount, TrapCsr, CounterCsr
  <1> QED BY <1>5

(* An edge keeps all of them.                                              *)
LEMMA StepData == DataInv /\ [Next]_vars => DataInv'
  <1> SUFFICES ASSUME DataInv, [Next]_vars PROVE DataInv'
    OBVIOUS
  <1>1. CASE ClockEdge
    BY <1>1, StepFrontTypes, StepIdExTypes, StepExMemTypes, StepMemWbTypes, StepMemoryTypes,
       StepMuldivTypes, StepCsrTypes DEF DataInv, TypeOK, UnitPhases, ClockEdge
  <1>2. CASE UNCHANGED vars
    BY <1>2 DEF vars, DataInv, TypeOK, UnitPhases
  <1> QED BY <1>1, <1>2 DEF Next

(* Every register of the core holds a value of its declared width, from    *)
(* reset on, whatever the program does: no operation of the data path, no  *)
(* byte lane and no address overflows the vector it is assigned to         *)
(* (core_top_pipelined.sv, pipeline_regs.sv).                              *)
THEOREM TypesAlwaysOK == Spec => []TypeOK
  <1>1. DataInv => TypeOK
    BY DEF DataInv
  <1> QED BY <1>1, InitData, StepData, PTL DEF Spec
-----------------------------------------------------------------------------
(* The multiply/divide freeze.  A multiply or divide in EX redirects       *)
(* nothing, so EX, MEM and WB stand still until it is done, and with them  *)
(* the operands forwarded to it: the unit works on the request that EX     *)
(* makes now.                                                              *)
ExInv ==
  idex.ctl.is_muldiv => /\ ~idex.ctl.is_branch /\ ~idex.ctl.is_jal /\ ~idex.ctl.is_jalr
                        /\ ~idex.ctl.illegal /\ ~idex.fuse4.valid

RequestInv ==
  muldiv.busy \/ muldiv.done =>
    idex.ctl.is_muldiv /\ MuldivInv(muldiv, idex.instr.f3, FwdA, FwdB)

FreezeInv == DataInv /\ LookaheadInv /\ imem \in Programs /\ ExInv /\ RequestInv

(* After reset nothing is frozen.                                          *)
LEMMA InitFreeze == Init => FreezeInv
  <1> SUFFICES ASSUME Init PROVE FreezeInv
    OBVIOUS
  <1>1. DataInv
    BY InitData
  <1>2. LookaheadInv /\ imem \in Programs
    BY DEF Init, LookaheadInv, FetchFromStream, LookaheadFromStream, IfIdBubble
  <1>3. ExInv
    BY DEF Init, ExInv, IdExBubble, NoControl
  <1>4. RequestInv
    BY DEF Init, RequestInv, MuldivReset
  <1> QED BY <1>1, <1>2, <1>3, <1>4 DEF FreezeInv

(* What the decoder says of a multiply or divide.                          *)
LEMMA MuldivDecoded ==
  ASSUME NEW i, Decode(i).is_muldiv
  PROVE  /\ i.op = "OP" /\ i.f7 = 1
         /\ ~Decode(i).is_branch /\ ~Decode(i).is_jal /\ ~Decode(i).is_jalr /\ ~Decode(i).illegal
  <1>1. i.op = "OP" /\ i.f7 = 1
    BY DEF Decode
  <1> QED BY <1>1 DEF Decode, IsCsr

(* A multiply or divide issued is not fused, nor anything but that.        *)
LEMMA IssuedMuldiv ==
  ASSUME ProductsNotCompared, FreezeInv, Issued.ctl.is_muldiv
  PROVE  /\ ~Issued.ctl.is_branch /\ ~Issued.ctl.is_jal /\ ~Issued.ctl.is_jalr
         /\ ~Issued.ctl.illegal /\ ~Issued.fuse4.valid
  <1>1. ~Fuse(3) /\ ~Fuse(5)
    BY IssuedPend2
  <1>2. Issued.ctl = Decode(ifid.instr) /\ Issued.fuse4.valid = Fuse(4)
    BY <1>1 DEF Issued, IssuedControl
  <1>3. Decode(ifid.instr).is_muldiv /\ ifid.instr.op = "OP"
    BY <1>2, MuldivDecoded
  <1>4. ASSUME Fuse(4) PROVE FALSE
    <2>1. FUSION_EN /\ ifid.lookahead_valid /\ Pattern4(ifid.instr, ifid.next)
      BY <1>4 DEF Fuse, Matches
    <2>2. ifid.instr # NOP
      BY <1>3 DEF NOP
    <2>3. ifid.instr = imem[MemIndex(ifid.pc)] /\ ifid.next = imem[MemIndex(Add(ifid.pc, 4))]
      BY <2>1, <2>2 DEF FreezeInv, LookaheadInv, LookaheadFromStream
    <2>4. ifid.pc \in Word
      BY DEF FreezeInv, DataInv, TypeOK
    <2>5. imem \in Programs
      BY DEF FreezeInv
    <2> QED BY <1>3, <2>1, <2>3, <2>4, <2>5 DEF ProductsNotCompared
  <1> QED BY <1>2, <1>3, <1>4, MuldivDecoded

(* What freezes the pipeline neither redirects it nor is cleared from EX.  *)
LEMMA MuldivDoesNotRedirect ==
  ASSUME FreezeInv, MuldivActive
  PROVE  idex.ctl.is_muldiv /\ ~Redirect /\ ~ClearEx
  <1>1. idex.ctl.is_muldiv
    BY DEF FreezeInv, RequestInv, MuldivActive, MuldivStart
  <1>2. ~Redirect
    BY <1>1 DEF FreezeInv, ExInv, Redirect, Fuse4Taken, TrapTaken
  <1> QED BY <1>1, <1>2 DEF ClearEx, FlushEx

(* An edge keeps what is known of the operation in EX.                     *)
LEMMA StepEx ==
  ASSUME ProductsNotCompared, FreezeInv, ClockEdge
  PROVE  ExInv'
  <1>1. CASE idex' = IdExBubble
    BY <1>1 DEF ExInv, IdExBubble, NoControl
  <1>2. CASE idex' = idex
    BY <1>2 DEF ExInv, FreezeInv
  <1>3. CASE idex' = Issued
    BY <1>3, IssuedMuldiv DEF ExInv
  <1> QED BY <1>1, <1>2, <1>3 DEF ClockEdge, NextIdEx

(* Through the freeze, from the start pulse on, the request stands.        *)
LEMMA FreezeHoldsRequest ==
  ASSUME FreezeInv, ClockEdge, MuldivActive
  PROVE  idex' = idex /\ FwdA' = FwdA /\ FwdB' = FwdB
  <1>1. idex' = idex /\ exmem' = exmem /\ memwb' = memwb /\ mem_rdata' = mem_rdata
    BY MuldivDoesNotRedirect DEF ClockEdge, NextIdEx, NextExMem, NextMemWb, NextMemRdata
  <1> QED BY <1>1 DEF FwdA, FwdB, Forwarded, MemForwardValue, WbData

(* An edge keeps what is known of the request under way.                   *)
LEMMA StepRequest ==
  ASSUME FreezeInv, ClockEdge
  PROVE  RequestInv'
  <1>1. /\ UnitPhases(muldiv) /\ muldiv.busy \in BOOLEAN /\ muldiv.done \in BOOLEAN
        /\ muldiv.busy = (muldiv.state # "IDLE")
    <2>1. UnitPhases(muldiv)
      BY DEF FreezeInv, DataInv
    <2>2. muldiv \in MuldivRegisters /\ muldiv.busy = (muldiv.state # "IDLE")
      BY <2>1 DEF UnitPhases
    <2>3. muldiv.busy \in BOOLEAN /\ muldiv.done \in BOOLEAN
      BY <2>2 DEF MuldivRegisters
    <2> QED BY <2>1, <2>2, <2>3
  <1>2. /\ muldiv' = MuldivNext(muldiv, MuldivStart, MuldivActive,
                                Gated("a", FwdA), Gated("b", FwdB), idex.instr.f3)
        /\ MuldivStart \in BOOLEAN /\ MuldivActive \in BOOLEAN
    BY <1>1 DEF ClockEdge, NextMuldiv, MuldivStart, MuldivActive
  <1>3. /\ idex.instr.f3 \in 0 .. 7 /\ FwdA \in Word /\ FwdB \in Word
        /\ Gated("a", FwdA) \in Word /\ Gated("b", FwdB) \in Word
    BY IdExTypes, InstrTypes, ForwardedTypes, ExTypes DEF FreezeInv, DataInv
  <1>4. CASE muldiv.busy
    <2>1. MuldivActive /\ MuldivStart = FALSE /\ muldiv.state # "IDLE"
      BY <1>1, <1>4 DEF MuldivActive, MuldivStart
    <2>2. MuldivInv(muldiv, idex.instr.f3, FwdA, FwdB) /\ idex.ctl.is_muldiv
      BY <1>4 DEF FreezeInv, RequestInv
    <2>3. MuldivInv(muldiv', idex.instr.f3, FwdA, FwdB)
      BY <1>2, <1>3, <2>1, <2>2, StepWork
    <2>4. idex' = idex /\ FwdA' = FwdA /\ FwdB' = FwdB
      BY <2>1, FreezeHoldsRequest
    <2> QED BY <2>2, <2>3, <2>4
          DEF RequestInv, MuldivInv, UnitPhases, WorkDone, Multiplies, Divides
  <1>5. CASE ~muldiv.busy /\ MuldivStart
    <2>1. MuldivActive /\ MuldivStart = TRUE /\ MuldivActive = TRUE /\ muldiv.state = "IDLE"
      BY <1>1, <1>2, <1>5 DEF MuldivActive
    <2>2. Gated("a", FwdA) = FwdA /\ Gated("b", FwdB) = FwdB
      BY <2>1 DEF Gated, GateOpen
    <2>3. MuldivInv(muldiv', idex.instr.f3, FwdA, FwdB)
      BY <1>1, <1>2, <1>3, <2>1, <2>2, StartWork
    <2>4. idex' = idex /\ FwdA' = FwdA /\ FwdB' = FwdB
      BY <2>1, FreezeHoldsRequest
    <2>5. idex.ctl.is_muldiv
      BY <1>5 DEF MuldivStart
    <2> QED BY <2>3, <2>4, <2>5
          DEF RequestInv, MuldivInv, UnitPhases, WorkDone, Multiplies, Divides
  <1>6. CASE ~muldiv.busy /\ ~MuldivStart
    <2>1. muldiv.state = "IDLE"
      BY <1>1, <1>6
    <2>2. muldiv' = [muldiv EXCEPT !.done = FALSE]
      BY <1>2, <1>6, <2>1 DEF MuldivNext
    <2>3. muldiv'.done = FALSE /\ muldiv'.busy = muldiv.busy
      BY <1>1, <2>2 DEF UnitPhases, MuldivRegisters
    <2> QED BY <1>6, <2>3 DEF RequestInv
  <1> QED BY <1>1, <1>4, <1>5, <1>6

(* An edge keeps the whole invariant.                                      *)
LEMMA StepFreeze == ProductsNotCompared /\ FreezeInv /\ [Next]_vars => FreezeInv'
  <1> SUFFICES ASSUME ProductsNotCompared, FreezeInv, [Next]_vars PROVE FreezeInv'
    OBVIOUS
  <1>1. DataInv' /\ LookaheadInv'
    BY StepData, StepLookahead DEF FreezeInv
  <1>2. CASE ClockEdge
    <2>1. imem' \in Programs
      BY <1>2 DEF ClockEdge, FreezeInv
    <2> QED BY <1>1, <1>2, <2>1, StepEx, StepRequest DEF FreezeInv
  <1>3. CASE UNCHANGED vars
    <2>1. FwdA' = FwdA /\ FwdB' = FwdB
      BY <1>3 DEF vars, FwdA, FwdB, Forwarded, MemForwardValue, WbData
    <2>2. RequestInv'
      BY <1>3, <2>1
         DEF vars, FreezeInv, RequestInv, MuldivInv, UnitPhases, WorkDone, Multiplies, Divides
    <2>3. ExInv' /\ imem' \in Programs
      BY <1>3 DEF vars, FreezeInv, ExInv
    <2> QED BY <1>1, <2>2, <2>3 DEF FreezeInv
  <1> QED BY <1>2, <1>3 DEF Next

(* A frozen request has its operands in EX still.                          *)
LEMMA FreezeGivesStable == FreezeInv => MuldivOperandsStable
  <1> SUFFICES ASSUME FreezeInv, muldiv.busy PROVE MuldivOperandsStable
    BY DEF MuldivOperandsStable
  <1>1. idex.ctl.is_muldiv /\ MuldivInv(muldiv, idex.instr.f3, FwdA, FwdB)
    BY DEF FreezeInv, RequestInv
  <1>2. muldiv.state # "IDLE"
    BY <1>1 DEF MuldivInv, UnitPhases
  <1>3. WorkDone(muldiv, idex.instr.f3, FwdA, FwdB)
    BY <1>1, <1>2 DEF MuldivInv
  <1> QED BY <1>1, <1>3 DEF MuldivOperandsStable, WorkDone, Multiplies, Divides

(* A result is that of the operation in EX.                                *)
LEMMA FreezeGivesResult == FreezeInv => MuldivDelivers
  <1> SUFFICES ASSUME FreezeInv, muldiv.done PROVE MuldivDelivers
    BY DEF MuldivDelivers
  <1>1. idex.ctl.is_muldiv /\ MuldivInv(muldiv, idex.instr.f3, FwdA, FwdB)
    BY DEF FreezeInv, RequestInv
  <1>2. idex.instr.f3 \in 0 .. 7 /\ FwdA \in Word /\ FwdB \in Word
    BY IdExTypes, InstrTypes, ForwardedTypes DEF FreezeInv, DataInv
  <1> QED BY <1>1, <1>2, WorkDelivers DEF MuldivDelivers

(* The unit works for the operation in EX on the operands the forwarding   *)
(* network presents to it all through the freeze, in every program in      *)
(* which no multiply is compared by idiom 4                                *)
(* (core_top_pipelined.sv:374-393).                                        *)
THEOREM OperandsAlwaysStable == ProductsNotCompared => (Spec => []MuldivOperandsStable)
  <1> SUFFICES ASSUME ProductsNotCompared PROVE Spec => []MuldivOperandsStable
    OBVIOUS
  <1>1. FreezeInv /\ [Next]_vars => FreezeInv'
    BY StepFreeze
  <1> QED BY <1>1, InitFreeze, FreezeGivesStable, PTL DEF Spec

(* And what it delivers is the result of muldiv.sv on them: the iterative  *)
(* unit, behind the isolation gates and the forwarding network, and the    *)
(* combinational one cannot be told apart                                  *)
(* (core_top_pipelined.sv:374-400, muldiv_iter.sv:61-169, muldiv.sv).      *)
THEOREM UnitAlwaysDelivers == ProductsNotCompared => (Spec => []MuldivDelivers)
  <1> SUFFICES ASSUME ProductsNotCompared PROVE Spec => []MuldivDelivers
    OBVIOUS
  <1>1. FreezeInv /\ [Next]_vars => FreezeInv'
    BY StepFreeze
  <1> QED BY <1>1, InitFreeze, FreezeGivesResult, PTL DEF Spec
=============================================================================
