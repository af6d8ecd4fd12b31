------------------------------ MODULE MCFusion ------------------------------
(***************************************************************************)
(* Programs around the five fusion idioms: an instruction that may leave a *)
(* hazard in flight, the two instructions of a (near) pair, and consumers. *)
(***************************************************************************)
EXTENDS MCBase

Before == {NOP, ADDI(1, 2, 8), LW(1, 2, 0), LW(2, 3, 4), ADDI(2, 1, 4), MUL(3, 1, 2),
           FISOLBOUND, SW(2, 1, 0), BEQ(2, 2, 8)}
First  == {LUI(1, 128), [LUI(1, 128) EXCEPT !.rs1 = 1, !.rs2 = 2], AUIPC(1, 16), AUIPC(1, 0),
           ADDI(1, 2, 4), ADD(1, 2, 3), ADD(1, 1, 2), SLT(1, 2, 3), SLTI(1, 2, 0)}
Second == {ADDI(1, 1, 4), ADDI(2, 1, 4), JALR(2, 1, 12), JALR(0, 1, 8), LW(2, 1, 0), LW(0, 1, 0),
           LW(3, 1, 4), BNE(1, 0, 8), BEQ(1, 0, 8)}
After  == {ADD(3, 1, 2), SW(1, 2, 0), MUL(1, 1, 2), LW(3, 2, 0)}

Layout(b, f, s, a) ==
  [k \in 0 .. 7 |-> CASE k = 0 -> JAL(0, 4) [] k = 1 -> b [] k = 2 -> f [] k = 3 -> s
                      [] k = 4 -> a [] k = 5 -> ADD(2, 2, 1) [] OTHER -> HALT]

(* No word is accessed at an address derived from a comparison, which may  *)
(* be odd: the run of misaligned accesses is in MCDivergence.              *)
IsComparison(i) == i.f3 # 0
Pairs == {p \in First \X Second : ~(IsComparison(p[1]) /\ p[2].op = "LOAD")}
OddBase(p) == IsComparison(p[1]) /\ p[2] = ADDI(2, 1, 4)

FusionPrograms ==
  UNION {{Layout(b, p[1], p[2], a) : b \in Before,
            a \in {i \in After : OddBase(p) => i.op \notin {"LOAD", "STORE"}}} : p \in Pairs}

(* The pairs the runs of MCDivergence are about: with fusion off they are  *)
(* unremarkable.                                                           *)
ContestedPairs == {<<ADD(1, 2, 3), LW(1, 1, 0)>>, <<AUIPC(1, 16), JALR(1, 1, 8)>>,
                   <<MULHU(1, 2, 3), BNE(1, 0, 8)>>, <<SLT(0, 2, 3), BNE(0, 0, 8)>>}

BaselinePrograms ==
  {Layout(b, p[1], p[2], ADD(3, 1, 2)) : b \in Before, p \in Pairs}
  \cup {Layout(b, p[1], p[2], a) : b \in Before, p \in ContestedPairs, a \in After}
=============================================================================
