------------------------------ MODULE MCReset ------------------------------
(* Programs with every kind of write under way when a reset strikes.       *)
EXTENDS Reset, Asm

MCReg  == 0 .. 3
MCBoot == [r \in MCReg |-> IF r = 0 THEN 0 ELSE 128 + 4 * r]
MCDmem == [i \in 0 .. NW-1 |-> 144 + 4 * (i % 4)]

Straight(a, b, c, d, e) ==
  [k \in 0 .. 7 |-> CASE k = 0 -> a [] k = 1 -> b [] k = 2 -> c [] k = 3 -> d [] k = 4 -> e
                      [] k = 5 -> ADDI(3, 0, 8) [] k = 6 -> ILLEGAL [] OTHER -> HALT]

(* Fused pairs of every idiom, stores to memory and to the UART, a freeze, *)
(* a load-use stall, a FISOL region, CSR writes and a trap.                *)
ResetPrograms ==
  {Straight(a, p[1], p[2], s, t) :
     a \in {ADDI(3, 2, 4), MUL(3, 1, 2), SW(3, 0, 132), BEQ(1, 2, 8)},
     p \in {<<AUIPC(1, 8), JALR(2, 1, 4)>>, <<ADD(1, 2, 0), LW(2, 1, 0)>>, <<LUI(1, 132), ADDI(1, 1, 4)>>,
            <<SLT(1, 2, 3), BNE(1, 0, 8)>>,
            <<SW(2, 0, 128), CSRRW(1, "mtvec", 2)>>},
     s \in {SW(2, 0, 148), DIV(3, 1, 2), FISOLBOUND},
     t \in {LW(1, 0, 148), SB(3, 0, 128)}}

(* They satisfy what the theorems assume of a program.                     *)
ASSUME TameAssumption == ProgramsTame
=============================================================================
