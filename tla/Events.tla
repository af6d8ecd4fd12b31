------------------------------- MODULE Events -------------------------------
(***************************************************************************)
(* The pipelined core observed at the point where operations leave EX, in  *)
(* program order.  The history variables count what left and remember the  *)
(* FISOL markers that did, so that the event counters of csr_file.sv and   *)
(* the marker state kept in ID can be held against them.  A bubble is      *)
(* neither a multiply or divide nor a pair, so those are counted wherever  *)
(* in memory they are.                                                     *)
(***************************************************************************)
EXTENDS Lockstep

VARIABLES
  muldivs,     \* multiply/divide operations that have left EX, mod CntMod
  pairs,       \* fused pairs that have left EX, mod CntMod
  bound        \* FISOL.BOUND in force in program order

evars == <<vars, muldivs, pairs, bound>>

EInit == Init /\ muldivs = 0 /\ pairs = 0 /\ bound = FALSE

Count(event, n) == IF event THEN (n + 1) % CntMod ELSE n

ENext ==
  /\ Next
  /\ muldivs' = Count(~MuldivActive /\ idex.ctl.is_muldiv, muldivs)
  /\ pairs' = Count(~MuldivActive /\ ExFused, pairs)
  /\ bound' = IF LeavesEx /\ idex.ctl.fisol_bound THEN TRUE
              ELSE IF LeavesEx /\ idex.ctl.fisol_off THEN FALSE
              ELSE bound

ESpec == EInit /\ [][ENext]_evars /\ WF_vars(Next)

-----------------------------------------------------------------------------
(* mhpmcounter3 counts multiply/divide operations, once each, and not the  *)
(* cycles they take (csr_file.sv:80, core_top_pipelined.sv:374,430).       *)
MuldivCountedOnce ==
  csr["muldiv_active"] = Count(muldiv.busy \/ muldiv.done, muldivs)

(* mhpmcounter5 counts the fused pairs that execute, once each: a pair     *)
(* held in ID by a stall is not counted again, and one flushed from ID is  *)
(* not counted (csr_file.sv:82-86, core_top_pipelined.sv:226).             *)
FusionCountedOnce == csr["fusion_active"] = Count(ExFused, pairs)

(* What that rests on: a pair of idiom 1 or 2 is told by its immediate,    *)
(* which differs from that of its first instruction unless the second adds *)
(* zero.                                                                   *)
AddiAddsSomething ==
  \A p \in Programs, x \in Word :
    LET i == p[MemIndex(x)]
        n == p[MemIndex(Add(x, 4))]
    IN Pattern1(i, n) \/ Pattern2(i, n) => n.imm # 0

(* mhpmcounter4 counts the cycles in which the isolation gates are closed: *)
(* all but the W+2 a multiply or divide keeps the unit active for, stalls, *)
(* flushes and whatever else is in the pipeline notwithstanding            *)
(* (csr_file.sv:81, core_top_pipelined.sv:376-389).                        *)
UnitCycles == IF muldiv.done THEN W + 2
              ELSE IF ~muldiv.busy THEN 0
              ELSE IF muldiv.state = "FINISH" THEN W + 1 ELSE 1 + muldiv.iter_cnt

IsolCountsIdle ==
  csr["isol_active"] = (csr["mcycle"] - (W + 2) * muldivs - UnitCycles) % CntMod

(* Inside a FISOL.BOUND region of the program no pair executes fused       *)
(* (core_top_pipelined.sv:180-212).                                        *)
BoundRespected == [][LeavesEx /\ ExFused => ~bound]_evars

(* What that rests on: ID acts on a marker before the branch ahead of it   *)
(* can flush it, so none stands behind a jump, a taken branch or a trap    *)
(* that goes elsewhere (core_top_pipelined.sv:180-187).                     *)
IsMarker(i) == Decode(i).fisol_bound \/ Decode(i).fisol_off

MarkersOnPath ==
  IsMarker(imem[MemIndex(Add(AbsPc, 4))]) => SC!Retire(AbsArch).pc = Add(AbsPc, 4)

(* Which a program shows by its text if what stands ahead of a marker does *)
(* not jump, or not further than to the marker.                            *)
MarkersFallThrough ==
  \A p \in Programs, x \in Word :
    LET i == p[MemIndex(x)]
    IN IsMarker(p[MemIndex(Add(x, 4))]) =>
         /\ i.op # "JALR" /\ ~Decode(i).illegal
         /\ i.op \in {"JAL", "BRANCH"} => i.imm = 4
=============================================================================
