------------------------------ MODULE CsrFile ------------------------------
(***************************************************************************)
(* csr_file.sv and trap_unit.sv: the trap CSRs with their single write     *)
(* port, and the event counters.  CntMod is the modulus of the counters    *)
(* (2^32 in csr_file.sv); CntMod = 1 leaves the counters out of a model.   *)
(***************************************************************************)
EXTENDS ISA

CONSTANTS CntMod,     \* modulus of the event counters
          TrapVec     \* reset value of mtvec

ASSUME CsrAssumption == CntMod \in Nat \ {0} /\ TrapVec \in Word

TrapCsr    == {"mepc", "mcause", "mtval", "mtvec"}
CounterCsr == {"muldiv_active", "isol_active", "fusion_active", "mcycle"}

CsrReset == [a \in TrapCsr \cup CounterCsr |-> IF a = "mtvec" THEN TrapVec ELSE 0]

(* An address that is not implemented reads as zero.                       *)
CsrRead(csr, addr) == IF addr = "none" THEN 0 ELSE csr[addr] % WordMod

(* A software write reaches the four trap CSRs and is dropped elsewhere.   *)
CsrWrite(csr, addr, val) ==
  IF addr \in TrapCsr THEN [csr EXCEPT ![addr] = val] ELSE csr

(* trap_unit.sv: the request an illegal instruction at pc makes; cause 2.  *)
CsrTrap(csr, pc, instr) ==
  [csr EXCEPT !["mepc"] = pc, !["mcause"] = 2, !["mtval"] = instr.enc]

(* The write port: a trap wins over a software write of the same cycle.    *)
CsrPort(csr, trap, pc, instr, we, addr, val) ==
  IF trap THEN CsrTrap(csr, pc, instr)
  ELSE IF we THEN CsrWrite(csr, addr, val)
  ELSE csr

(* The counters, each enabled by its event; mcycle counts every edge.      *)
CsrCount(csr, muldiv, isol, fusion) ==
  LET Bump(event, n) == IF event THEN (n + 1) % CntMod ELSE n IN
  [csr EXCEPT !["muldiv_active"] = Bump(muldiv, @),
              !["isol_active"]   = Bump(isol, @),
              !["fusion_active"] = Bump(fusion, @),
              !["mcycle"]        = Bump(TRUE, @)]
=============================================================================
