---------------------------- MODULE HazardUnit ----------------------------
(***************************************************************************)
(* hazard_unit.sv: where an EX operand comes from, and which pipeline      *)
(* registers hold or are cleared at the next clock edge.  All of it is     *)
(* combinational, so these are operators and the core owns the state.      *)
(***************************************************************************)

(* Variant: the older of two writers wins.                                 *)
ForwardSelectOlder(rs, mem_rd, mem_reg_write, wb_rd, wb_reg_write) ==
  CASE wb_reg_write /\ wb_rd # 0 /\ wb_rd = rs -> "WB"
    [] ~(wb_reg_write /\ wb_rd # 0 /\ wb_rd = rs)
       /\ mem_reg_write /\ mem_rd # 0 /\ mem_rd = rs -> "MEM"
    [] OTHER -> "ID"

(* EX operand: the youngest older instruction that writes the register.    *)
ForwardSelect(rs, mem_rd, mem_reg_write, wb_rd, wb_reg_write) ==
  CASE mem_reg_write /\ mem_rd # 0 /\ mem_rd = rs -> "MEM"
    [] ~(mem_reg_write /\ mem_rd # 0 /\ mem_rd = rs)
       /\ wb_reg_write /\ wb_rd # 0 /\ wb_rd = rs -> "WB"
    [] OTHER -> "ID"

(* A load whose destination the instruction in ID names.                   *)
LoadUse(is_load, rd, id_rs1, id_rs2) ==
  is_load /\ rd # 0 /\ (rd = id_rs1 \/ rd = id_rs2)

StallPcIfId(load_use, muldiv_active, pend2_active) ==
  load_use \/ muldiv_active \/ pend2_active

(* Variant: a load-use bubble is inserted in a multiply/divide freeze too. *)
FlushExInFreeze(redirect, load_use, muldiv_active, pend2_active) ==
  redirect \/ load_use \/ (~muldiv_active /\ pend2_active)

(* Variant: the instruction in ID is not cleared by a redirect.            *)
FlushExStallsOnly(redirect, load_use, muldiv_active, pend2_active) ==
  ~muldiv_active /\ (load_use \/ pend2_active)

FlushEx(redirect, load_use, muldiv_active, pend2_active) ==
  redirect \/ (~muldiv_active /\ (load_use \/ pend2_active))
=============================================================================
