----------------------------- MODULE MuldivIter -----------------------------
(***************************************************************************)
(* The iterative unit on its own, with any caller that keeps its side of   *)
(* the handshake: start only when the unit is neither busy nor done, and   *)
(* with op_en open (core_top_pipelined.sv:374-376).  The inputs may change *)
(* freely while the unit works.  req remembers what was asked.             *)
(***************************************************************************)
EXTENDS MuldivUnit

CONSTANTS MaxOps,     \* bound: operations requested in one behaviour
          Earlier,    \* bound: the operations another one follows
          StrayWord   \* words the inputs may carry while nothing is started

ASSUME MuldivIterAssumption == MaxOps \in Nat /\ StrayWord \subseteq Word

VARIABLES unit, req

muvars == <<unit, req>>

MuInit ==
  /\ unit = MuldivReset
  /\ req = [n |-> 0, op |-> 0, a |-> 0, b |-> 0]

Request(op, a, b) ==
  /\ ~unit.busy /\ ~unit.done
  /\ req.n < MaxOps /\ (req.n > 0 => <<req.op, req.a, req.b>> \in Earlier)
  /\ unit' = MuldivNext(unit, TRUE, TRUE, a, b, op)
  /\ req' = [n |-> req.n + 1, op |-> op, a |-> a, b |-> b]

Tick(op, a, b) ==
  /\ unit' = MuldivNext(unit, FALSE, TRUE, a, b, op)
  /\ UNCHANGED req

AnyRequest == \E op \in 0..7, a, b \in Word : Request(op, a, b)
AnyTick    == \E op \in {0, 7}, a, b \in StrayWord : Tick(op, a, b)

MuNext == AnyRequest \/ AnyTick

(* The clock is free-running, so a started operation goes on.              *)
MuSpec == MuInit /\ [][MuNext]_muvars /\ WF_muvars(AnyTick)

-----------------------------------------------------------------------------
(* The result is the combinational unit's: signs, division by zero and the *)
(* signed overflow included, whatever the previous operation left in the   *)
(* registers (muldiv_iter.sv:61-169 against muldiv.sv).                    *)
ResultCorrect == unit.done => MuldivBus(unit) = MuldivResult(req.op, req.a, req.b)

(* After k shift-add steps the accumulator holds, above its W-k multiplier *)
(* bits still to be used, the product of the multiplicand and the k bits   *)
(* used (muldiv_iter.sv:105-114): with k = iter_cnt,                       *)
(*   acc * 2^k = mcand * (multiplier mod 2^k) * 2^W + multiplier bits left.*)
PartialProduct ==
  unit.state = "MUL_RUN" =>
    LET multiplier == Magnitude(unit.mul_a_sign, unit.op_a_r)
        used == Pow2[unit.iter_cnt]
    IN unit.mul_acc * used =
         unit.mul_mcand * (multiplier % used) * WordMod + (multiplier \div used) * used

(* After k restoring-division steps the register holds a remainder, the    *)
(* dividend bits still to be used and k quotient bits, and the remainder   *)
(* and the quotient are those of the dividend's k leading bits             *)
(* (muldiv_iter.sv:116-129), whatever the divisor but zero.                *)
PartialQuotient ==
  unit.state = "DIV_RUN" /\ ~unit.div_by_zero =>
    LET dividend  == Magnitude(unit.div_a_sign, unit.op_a_r)
        low       == unit.div_rem % WordMod
        unused    == Pow2[W - unit.iter_cnt]
        found     == Pow2[unit.iter_cnt]
        remainder == unit.div_rem \div WordMod
    IN /\ low \div found = dividend % unused
       /\ dividend \div unused = (low % found) * unit.div_divisor + remainder
       /\ remainder < unit.div_divisor

(* Every operation that is started finishes.                               *)
Finishes == unit.busy ~> unit.done
=============================================================================
