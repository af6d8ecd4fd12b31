------------------------------ MODULE MCMuldiv ------------------------------
(***************************************************************************)
(* Multiply and divide operations with their producers and consumers on    *)
(* either side: loads and stores, the UART, branches and fused pairs.      *)
(***************************************************************************)
EXTENDS MCBase

Around == {MUL(1, 2, 3), DIV(2, 3, 1), REM(3, 1, 2), MULHU(1, 1, 3), LW(1, 0, 136), LBU(1, 2, 0),
           LH(3, 0, 142), SB(1, 2, 0), SW(1, 0, 128), ADD(3, 1, 2), BLT(1, 2, 8), ADDI(1, 2, -9),
           ADDI(3, 2, 5)}

MuldivPrograms ==
  {[k \in 0 .. 7 |-> CASE k = 0 -> a [] k = 1 -> b [] k = 2 -> c [] k = 3 -> ADD(1, 1, 3)
                       [] k = 4 -> LBU(2, 1, 0) [] k = 5 -> SW(2, 0, 128) [] OTHER -> HALT] :
     a \in Around, b \in Around, c \in Around}

(* The programs of a run satisfy what the theorems on the multiply/divide  *)
(* unit assume of a program.                                               *)
ASSUME ProductsAssumption == ProductsNotCompared
=============================================================================
