---------------------------- MODULE MCDivergence ----------------------------
(***************************************************************************)
(* Short programs on which the core does not do what its documents, tests  *)
(* or comments say.  Each set of programs has a run of its own.            *)
(***************************************************************************)
EXTENDS MCBase

Short(a, b, c, d) ==
  [k \in 0 .. 7 |-> CASE k = 0 -> a [] k = 1 -> b [] k = 2 -> c [] k = 3 -> d
                      [] k = 5 -> CSRRS(3, "mepc", 0) [] OTHER -> HALT]

(* The two results of a pair share a register: the code of a far call     *)
(* (auipc ra; jalr ra, imm(ra)), and a load over its own address.          *)
SameRd == {Short(ADDI(2, 0, 136), AUIPC(1, 0), JALR(1, 1, 12), NOP),
           Short(ADDI(1, 2, 0), LW(1, 1, 0), NOP, HALT)}

(* A multiply whose funct3 is SLTU's and a branch on its result, and a     *)
(* comparison into x0 in front of a branch that compares x0 with x0.       *)
LooseCompare == {Short(ADDI(2, 0, 3), MULHU(1, 2, 2), BNE(1, 0, 8), ADD(3, 1, 2)),
                 Short(SLT(0, 1, 2), BNE(0, 0, 8), ADDI(3, 1, 2), HALT)}

(* A word stored and loaded two bytes into a word of memory.               *)
Misaligned == {Short(SW(3, 1, 6), LW(2, 1, 6), LW(1, 1, 8), HALT)}

(* A CSR read immediately ahead of an illegal instruction.                 *)
ReadThenTrap == {Short(ADDI(2, 0, 156), NOP, CSRRS(1, "mepc", 0), ILLEGAL)}

-----------------------------------------------------------------------------
(* The fusion detector fails safe to the baseline behaviour, never to an   *)
(* incorrect one (04_part8_microarchitecture.md:43).                       *)
FusionFailsSafe == InOrderRetirement

(* "Unaligned accesses handled directly in hardware" by byte-lane shifting *)
(* (04_part8_microarchitecture.md:62): they retire as the single-cycle     *)
(* core, which reads and writes any four bytes, retires them.              *)
UnalignedHandled == InOrderRetirement

(* In programs whose only CSR instructions are csrrs with x0, which "never *)
(* writes" (t_csr_basic.s:11), the trap CSRs change only when a trap is    *)
(* taken.                                                                  *)
CsrReadNeverWrites ==
  [][[a \in TrapCsr |-> csr[a]]' # [a \in TrapCsr |-> csr[a]] => TrapTaken]_vars
=============================================================================
