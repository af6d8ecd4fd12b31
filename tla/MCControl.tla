----------------------------- MODULE MCControl -----------------------------
(***************************************************************************)
(* Branches, jumps, loops and traps next to loads, stores and fusible      *)
(* pairs.  The handler at TrapVec returns past the faulting instruction.   *)
(***************************************************************************)
EXTENDS MCBase

Setup == {ADDI(1, 0, 2), LW(1, 2, 0), SLT(1, 2, 3), ADDI(3, 3, 4)}
Turn  == {BEQ(1, 0, 8), BNE(1, 0, 8), BLT(1, 2, 8), BGEU(2, 1, 8), BNE(1, 0, 4), JAL(3, 8),
          JALR(3, 2, 4), ILLEGAL, SLT(1, 3, 2), SW(1, 2, 0)}
Path  == {SLTU(1, 2, 3), LUI(1, 132), ADDI(1, 1, -1), SW(3, 2, 0), ILLEGAL, AUIPC(1, 0),
          MUL(1, 1, 2), FISOLOFF}
Join  == {BNE(1, 0, -4), BNE(1, 0, -8), BEQ(1, 0, 8), ADDI(1, 1, 4), JALR(2, 3, 8), ILLEGAL,
          JAL(0, 8), ADD(2, 3, 1)}

ControlPrograms ==
  {[k \in 0 .. 7 |-> CASE k = 0 -> a [] k = 1 -> t [] k = 2 -> p [] k = 3 -> j
                       [] k = 4 -> JAL(2, 12)
                       [] k = 5 -> CSRRS(3, "mepc", 0) [] k = 6 -> JALR(0, 3, 4) [] OTHER -> HALT] :
     a \in Setup, t \in Turn, p \in Path, j \in Join}
=============================================================================
