------------------------------- MODULE MCBase -------------------------------
(* Values the runs of the pipelined core share.                            *)
EXTENDS Lockstep, Asm

MCReg  == 0 .. 3
MCBoot == [r \in MCReg |-> IF r = 0 THEN 0 ELSE 128 + 4 * r]
MCDmem == [i \in 0 .. NW-1 |-> 144 + 4 * (i % 4)]
=============================================================================
