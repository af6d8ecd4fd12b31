------------------------------ MODULE MCEvents ------------------------------
(***************************************************************************)
(* Programs for the CSR file: the event counters with the FISOL markers,   *)
(* and CSR instructions at every distance from one another with a trap     *)
(* once the last of them has left the pipeline.  No FISOL is placed where  *)
(* a branch or jump can leave it on the wrong path, except in              *)
(* WrongPathFisol.                                                         *)
(***************************************************************************)
EXTENDS MCBase, Events

Lead == {NOP, FISOLBOUND, MUL(3, 1, 2), LW(1, 2, 0), BEQ(2, 2, 8)}
One  == {LUI(1, 128), AUIPC(1, 16), ADD(1, 2, 3), SLT(1, 2, 3), ADDI(1, 2, 4)}
Two  == {ADDI(1, 1, 4), JALR(2, 1, 12), LW(2, 1, 0), BNE(1, 0, 8)}
Tail == {MUL(3, 1, 2), ADD(3, 1, 2), DIV(2, 1, 3)}
Mark == {FISOLOFF, FISOLBOUND, NOP}

EventPrograms ==
  {[k \in 0 .. 15 |-> CASE k = 0 -> JAL(0, 4) [] k = 1 -> a [] k = 2 -> b [] k = 3 -> c
                        [] k = 4 -> d [] k = 5 -> ADDI(2, 0, 136) [] k = 6 -> m
                        [] k = 7 -> LUI(1, 128) [] k = 8 -> ADDI(1, 1, 12) [] k = 9 -> MUL(3, 1, 2)
                        [] k = 10 -> ADD(1, 2, 3) [] k = 11 -> LW(3, 1, 0)
                        [] OTHER -> HALT] :
     a \in Lead, <<b, c>> \in (One \X Two) \ {<<SLT(1, 2, 3), LW(2, 1, 0)>>},
     d \in Tail, m \in Mark}

CsrAccess == {CSRRW(1, "mepc", 2), CSRRS(1, "mepc", 1), CSRRC(2, "mepc", 1), CSRRS(3, "mtvec", 0),
          CSRRW(0, "mtval", 1), CSRRW(2, "mtvec", 3), CSRRS(1, "none", 0), CSRRC(1, "mcause", 3)}

CsrPrograms ==
  {[k \in 0 .. 15 |-> CASE k = 0 -> a [] k = 1 -> b [] k = 2 -> c [] k = 3 -> d
                        [] k \in {4, 5} -> ADDI(0, 0, 1) [] k = 6 -> ILLEGAL
                        [] k = 8 -> CSRRS(1, "mepc", 0) [] k = 9 -> CSRRS(2, "mcause", 0)
                        [] k = 10 -> CSRRW(3, "mtval", 1)
                        [] OTHER -> HALT] :
     a \in CsrAccess, b \in CsrAccess \cup {NOP, MUL(1, 2, 3)}, c \in CsrAccess, d \in {ADD(2, 1, 3), SB(1, 2, 0)}}

CsrAndEventPrograms == CsrPrograms \cup EventPrograms

(* The programs of a run satisfy what the theorem on mhpmcounter5 assumes  *)
(* of a program.                                                           *)
ASSUME PairsAssumption == AddiAddsSomething

(* A FISOL.OFF that is fetched behind a taken branch and never executed.   *)
WrongPathFisol ==
  {[k \in 0 .. 7 |-> CASE k = 0 -> FISOLBOUND [] k = 1 -> JAL(0, 8) [] k = 2 -> FISOLOFF
                       [] k = 3 -> LUI(1, 128) [] k = 4 -> ADDI(1, 1, 4) [] OTHER -> HALT]}
=============================================================================
