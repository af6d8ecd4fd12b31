------------------------------- MODULE Reset -------------------------------
(***************************************************************************)
(* The pipelined core with its reset line.  rst_n falls at any time, not   *)
(* only at a clock edge, and is held low for any number of edges.  The     *)
(* registers with a reset clause are cleared at once; the register file,   *)
(* the data memory, the memory read register, the isolation gates and the  *)
(* address and data of a second write have none and go on as they are.     *)
(***************************************************************************)
EXTENDS Lockstep

CONSTANT MaxResets       \* how often the reset line is pulled

VARIABLES
  rst_n,
  resets,      \* times rst_n has fallen
  trail        \* program-order states before the last two steps that left EX

rvars == <<vars, rst_n, resets, trail>>

RS == INSTANCE Restart WITH arch <- AbsArch

-----------------------------------------------------------------------------
(* Variants: a reset clause that is missing.                               *)
ResetPend2ActiveMissing == pend2_active' = pend2_active
ResetMuldivMissing      == muldiv' = muldiv
ResetExMemMissing       == exmem' = exmem

ResetPend2Fire   == pend2_fire' = [pend2_fire EXCEPT !.valid = FALSE]
ResetPend2Active == pend2_active' = FALSE
ResetMuldiv      == muldiv' = MuldivReset
ResetExMem       == exmem' = ExMemReset

(* The reset clauses of the design.                                        *)
Cleared ==
  /\ pc' = MemBase /\ fetch' = FetchBubble /\ ifid' = IfIdBubble /\ id_bound' = FALSE
  /\ idex' = IdExBubble /\ ResetExMem /\ memwb' = MemWbReset
  /\ ResetPend2Active /\ ResetPend2Fire /\ ResetMuldiv /\ csr' = CsrReset

RInit == Init /\ rst_n = TRUE /\ resets = 0 /\ trail = <<>>

Clock ==
  /\ rst_n /\ Next
  /\ trail' = IF LeavesEx THEN RS!Remember(trail, AbsArch) ELSE trail
  /\ UNCHANGED <<rst_n, resets>>

(* rst_n falls.                                                            *)
Assert ==
  /\ rst_n /\ resets < MaxResets
  /\ rst_n' = FALSE /\ resets' = resets + 1 /\ trail' = <<>>
  /\ Cleared
  /\ UNCHANGED <<imem, mem_rdata, regs, dmem, isol_hold, uart>>

(* A clock edge with rst_n low: what has no reset clause is clocked.       *)
HeldEdge ==
  /\ ~rst_n
  /\ Cleared /\ NextMemRdata /\ NextRegs /\ NextDmem /\ NextUart /\ NextIsolHold
  /\ UNCHANGED <<imem, rst_n, resets, trail>>

Release == ~rst_n /\ rst_n' = TRUE /\ UNCHANGED <<vars, resets, trail>>

RNext == Clock \/ Assert \/ HeldEdge \/ Release

(* The clock is free-running, and whoever pulls the reset line lets go.    *)
RSpec == RInit /\ [][RNext]_rvars /\ WF_rvars(Clock) /\ WF_rvars(Release)

-----------------------------------------------------------------------------
(* A reset in any cycle leaves what a program-order machine leaves: of the *)
(* instructions under way a suffix is lost as a whole, registers, memory   *)
(* and UART agreeing on which, and nothing of it is written afterwards;    *)
(* only a second write that is about to fire is lost alone                 *)
(* (core_top_pipelined.sv:56-58,85-86,181-182,245-261,                     *)
(* pipeline_regs.sv:24-26, muldiv_iter.sv:60-68).                          *)
RestartsCleanly == RS!RsSpec
=============================================================================
