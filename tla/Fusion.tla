------------------------------- MODULE Fusion -------------------------------
(***************************************************************************)
(* The decode-stage fusion detector of core_top_pipelined.sv: which pairs  *)
(* (i, n) of adjacent instructions match one of the five idioms.  The      *)
(* single-cycle specification uses the same patterns to say which two      *)
(* instructions may retire on one clock edge.                              *)
(***************************************************************************)
EXTENDS ISA

Idiom == 1 .. 5

(* n is ADDI rd, rd, imm where i wrote rd.                                 *)
AddiOnto(i, n) ==
  n.op = "OPIMM" /\ n.f3 = 0 /\ i.rd # 0 /\ n.rd = i.rd /\ n.rs1 = i.rd

Pattern1(i, n) == i.op = "LUI" /\ AddiOnto(i, n)

Pattern2(i, n) == i.op = "AUIPC" /\ AddiOnto(i, n)

Pattern3(i, n) ==
  i.op = "AUIPC" /\ n.op = "JALR" /\ n.f3 = 0 /\ i.rd # 0 /\ n.rs1 = i.rd

Pattern4(i, n) ==
  /\ i.op \in {"OP", "OPIMM"} /\ i.f3 \in {2, 3}
  /\ n.op = "BRANCH" /\ n.f3 \in {0, 1}
  /\ n.rs1 = i.rd /\ n.rs2 = 0

Pattern5(i, n) ==
  /\ (i.op = "OP" /\ i.f7 = 0) \/ i.op = "OPIMM"
  /\ i.f3 = 0
  /\ n.op = "LOAD" /\ n.f3 = 2
  /\ i.rd # 0 /\ n.rs1 = i.rd /\ n.imm = 0

Matches(k, i, n) ==
  CASE k = 1 -> Pattern1(i, n)
    [] k = 2 -> Pattern2(i, n)
    [] k = 3 -> Pattern3(i, n)
    [] k = 4 -> Pattern4(i, n)
    [] OTHER -> Pattern5(i, n)
=============================================================================
