----------------------------- MODULE CommitLog -----------------------------
(***************************************************************************)
(* The commit log the benches print and the lockstep harness compares:     *)
(* tb_core.cpp for the single-cycle core, tb_pipeline.cpp for the          *)
(* pipelined one.  A line is a register or an address with the value it    *)
(* got.  due holds the lines of the instructions that have taken effect    *)
(* and have not been printed; episode measures how long a fused pair's     *)
(* second write holds up the front end, as tb_pipeline.cpp does.           *)
(***************************************************************************)
EXTENDS Lockstep, Sequences

VARIABLES due, episode

lvars == <<vars, due, episode>>

RegLine(rd, x)   == <<"x", rd, x>>
MemLine(addr, x) == <<"mem", addr, x>>
Line(cond, l)    == IF cond THEN <<l>> ELSE <<>>

(* Variant: a write held in WB by a freeze is printed in every cycle of it.*)
PipelineLinesInFreeze ==
  Line(memwb.reg_write /\ memwb.rd # 0, RegLine(memwb.rd, WbData))
    \o Line(pend2_fire.valid, RegLine(pend2_fire.addr, pend2_fire.data))
    \o Line(exmem.mem_write /\ ~MuldivActive,
            MemLine(exmem.alu_result, Truncate(exmem.mem_width, exmem.rs2_data)))

(* What tb_pipeline.cpp prints before a clock edge: WB, which is older,    *)
(* before MEM.                                                             *)
PipelineLines ==
  Line(memwb.reg_write /\ memwb.rd # 0 /\ ~MuldivActive, RegLine(memwb.rd, WbData))
    \o Line(pend2_fire.valid, RegLine(pend2_fire.addr, pend2_fire.data))
    \o Line(exmem.mem_write /\ ~MuldivActive,
            MemLine(exmem.alu_result, Truncate(exmem.mem_width, exmem.rs2_data)))

(* What tb_core.cpp prints for instruction i in state s.                   *)
CoreLines(s, i) ==
  LET d == Decode(i) IN
  Line(d.reg_write /\ i.rd # 0, RegLine(i.rd, SC!RdData(s, i)))
    \o Line(d.mem_write, MemLine(Add(s.regs[i.rs1], i.imm), Truncate(d.mem_width, s.regs[i.rs2])))

(* The lines of what leaves EX.  Of a fused pair, the second write is      *)
(* printed first, and a register written twice is printed once.            *)
LeavingLines ==
  LET s      == AbsArch
      first  == imem[MemIndex(s.pc)]
      second == imem[MemIndex(Add(s.pc, 4))]
      later  == CoreLines(SC!Retire(s), second)
  IN IF ~ExFused THEN CoreLines(s, first)
     ELSE later \o (IF later # <<>> /\ first.rd = second.rd THEN <<>> ELSE CoreLines(s, first))

LInit == Init /\ due = <<>> /\ episode = 0

LNext ==
  /\ Next
  /\ due' = SubSeq(due, Len(PipelineLines) + 1, Len(due)) \o (IF LeavesEx THEN LeavingLines ELSE <<>>)
  /\ episode' = IF pend2_active' THEN episode + 1 ELSE 0

(* The clock is free-running.                                              *)
LSpec == LInit /\ [][LNext]_lvars /\ WF_vars(Next)

-----------------------------------------------------------------------------
(* The log of the pipelined core is the program's: no line is missing,     *)
(* printed twice, out of order or has another value, through stalls,       *)
(* freezes, flushes and fusion, and a line comes at most a few cycles      *)
(* after its instruction left EX (tb_pipeline.cpp:7-10,71-86).             *)
LogInProgramOrder ==
  /\ Len(PipelineLines) <= Len(due)
  /\ PipelineLines = SubSeq(due, 1, Len(PipelineLines))
  /\ Len(due) <= 4

(* A pair's second write always holds up the front end for the same four   *)
(* cycles, EX to register file: the histogram tb_pipeline.cpp:113-125      *)
(* prints has one bar (core_top_pipelined.sv:242-261).                     *)
EpisodesTakeFour == [][pend2_active /\ ~pend2_active' => episode = 4]_lvars
=============================================================================
