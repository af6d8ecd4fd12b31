---------------------------- MODULE MuldivUnit ----------------------------
(***************************************************************************)
(* The multiply/divide units as functions of their state and inputs:       *)
(* muldiv.sv, the combinational unit of the single-cycle core, and         *)
(* muldiv_iter.sv, the iterative unit of the pipelined one, one iteration  *)
(* per result bit.                                                         *)
(***************************************************************************)
EXTENDS Words

DoubleMod == Pow2[2*W]
AllOnes   == WordMod - 1
MinInt    == HalfMod

Abs(x) == IF x < 0 THEN -x ELSE x
Sign(x) == IF x < 0 THEN -1 ELSE 1

(* Division truncating toward zero, as SystemVerilog's / and % on signed.  *)
Quot(x, y) == Sign(x) * Sign(y) * (Abs(x) \div Abs(y))
Rem(x, y)  == x - y * Quot(x, y)

(* muldiv.sv: funct3 0..7 is mul mulh mulhsu mulhu div divu rem remu.      *)
MuldivResult(op, a, b) ==
  LET sa == Signed(a)
      sb == Signed(b)
      overflow == a = MinInt /\ b = AllOnes
  IN CASE op = 0 -> (sa * sb) % WordMod
       [] op = 1 -> ((sa * sb) \div WordMod) % WordMod
       [] op = 2 -> ((sa * b) \div WordMod) % WordMod
       [] op = 3 -> (a * b) \div WordMod
       [] op = 4 -> IF b = 0 THEN AllOnes ELSE IF overflow THEN MinInt
                    ELSE Quot(sa, sb) % WordMod
       [] op = 5 -> IF b = 0 THEN AllOnes ELSE a \div b
       [] op = 6 -> IF b = 0 THEN a ELSE IF overflow THEN 0 ELSE Rem(sa, sb) % WordMod
       [] OTHER  -> IF b = 0 THEN a ELSE a % b

-----------------------------------------------------------------------------
(* The registers of muldiv_iter.sv after reset.                            *)
MuldivReset ==
  [state |-> "IDLE", busy |-> FALSE, done |-> FALSE, op_a_r |-> 0, op_r |-> 0,
   iter_cnt |-> 0, mul_acc |-> 0, mul_mcand |-> 0,
   mul_a_sign |-> FALSE, mul_b_sign |-> FALSE,
   div_a_sign |-> FALSE, div_b_sign |-> FALSE,
   div_rem |-> 0, div_divisor |-> 0, div_by_zero |-> FALSE, is_div_overflow |-> FALSE]

MuldivRegisters ==
  [state : {"IDLE", "MUL_RUN", "DIV_RUN", "FINISH"}, busy : BOOLEAN, done : BOOLEAN,
   op_a_r : Word, op_r : 0..7, iter_cnt : 0..W, mul_acc : 0 .. DoubleMod-1,
   mul_mcand : Word, mul_a_sign : BOOLEAN, mul_b_sign : BOOLEAN,
   div_a_sign : BOOLEAN, div_b_sign : BOOLEAN, div_rem : 0 .. DoubleMod-1,
   div_divisor : Word, div_by_zero : BOOLEAN, is_div_overflow : BOOLEAN]

Magnitude(negative, x) == IF negative THEN Neg(x) ELSE x

(* IDLE with start: latch the magnitudes and signs, and go to work.  The   *)
(* operand and operation registers are behind the op_en gate.              *)
MulAccept(m, a, b, op) ==
  LET negA == op % 4 # 3 /\ a >= HalfMod
      negB == op % 4 = 1 /\ b >= HalfMod
  IN [m EXCEPT !.state = "MUL_RUN", !.mul_a_sign = negA, !.mul_b_sign = negB,
               !.mul_mcand = Magnitude(negB, b), !.mul_acc = Magnitude(negA, a)]

(* Variant: the division-by-zero flag is set, and never cleared.           *)
DivAcceptSticky(m, a, b, op) ==
  LET negA == op % 2 = 0 /\ a >= HalfMod
      negB == op % 2 = 0 /\ b >= HalfMod
  IN [m EXCEPT !.state = "DIV_RUN", !.div_a_sign = negA, !.div_b_sign = negB,
               !.div_by_zero = @ \/ b = 0, !.div_divisor = Magnitude(negB, b),
               !.is_div_overflow = (a = MinInt /\ negB /\ b = AllOnes),
               !.div_rem = Magnitude(negA, a)]

DivAccept(m, a, b, op) ==
  LET negA == op % 2 = 0 /\ a >= HalfMod
      negB == op % 2 = 0 /\ b >= HalfMod
  IN [m EXCEPT !.state = "DIV_RUN", !.div_a_sign = negA, !.div_b_sign = negB,
               !.div_by_zero = (b = 0), !.div_divisor = Magnitude(negB, b),
               !.is_div_overflow = (a = MinInt /\ negB /\ b = AllOnes),
               !.div_rem = Magnitude(negA, a)]

MuldivAccept(m, op_en, a, b, op) ==
  LET gated == IF op_en THEN [m EXCEPT !.op_a_r = a, !.op_r = op] ELSE m
      started == [gated EXCEPT !.busy = TRUE, !.done = FALSE, !.iter_cnt = 0]
  IN IF op < 4 THEN MulAccept(started, a, b, op) ELSE DivAccept(started, a, b, op)

(* Variant of a multiply step: the bit tested is the one after.            *)
MulStepLate(acc, mcand) ==
  LET upper == acc \div WordMod
  IN (IF (acc \div 2) % 2 = 1 THEN upper + mcand ELSE upper) * HalfMod
       + (acc % WordMod) \div 2

(* One shift-add step on the double-width accumulator.  The sum has W+1    *)
(* bits, so its carry is the new top bit.                                  *)
MulStep(acc, mcand) ==
  LET upper == acc \div WordMod
      lower == acc % WordMod
  IN (IF acc % 2 = 1 THEN upper + mcand ELSE upper) * HalfMod + lower \div 2

(* Variant of a division step: a remainder equal to the divisor is kept.   *)
DivStepStrict(rem, divisor) ==
  LET shifted == (rem * 2) % DoubleMod
      trial   == shifted \div WordMod
  IN IF trial > divisor THEN (trial - divisor) * WordMod + 2 * ((shifted % WordMod) \div 2) + 1
     ELSE shifted

(* One restoring-division step on {remainder, quotient}; the shift drops   *)
(* the top bit of the remainder.                                           *)
DivStep(rem, divisor) ==
  LET shifted == (rem * 2) % DoubleMod
      trial   == shifted \div WordMod
  IN IF trial >= divisor THEN (trial - divisor) * WordMod + 2 * ((shifted % WordMod) \div 2) + 1
     ELSE shifted

(* Variant: a counter too narrow to reach the value it is compared with.   *)
IteratedNarrow(m) ==
  [m EXCEPT !.done = FALSE, !.iter_cnt = (@ + 1) % W,
            !.state = IF m.iter_cnt = W THEN "FINISH" ELSE @]

Iterated(m) ==
  [m EXCEPT !.done = FALSE, !.iter_cnt = @ + 1,
            !.state = IF m.iter_cnt = W - 1 THEN "FINISH" ELSE @]

(* One clock edge of muldiv_iter.sv.                                       *)
MuldivNext(m, start, op_en, a, b, op) ==
  CASE m.state = "IDLE" ->
         IF start THEN MuldivAccept(m, op_en, a, b, op) ELSE [m EXCEPT !.done = FALSE]
    [] m.state = "MUL_RUN" ->
         [Iterated(m) EXCEPT !.mul_acc = MulStep(m.mul_acc, m.mul_mcand)]
    [] m.state = "DIV_RUN" ->
         [Iterated(m) EXCEPT !.div_rem = DivStep(m.div_rem, m.div_divisor)]
    [] OTHER ->
         [m EXCEPT !.busy = FALSE, !.done = TRUE, !.state = "IDLE"]

(* The result bus: signs restored, special cases of division selected.     *)
MuldivBus(m) ==
  LET Product(negative) == IF negative THEN (DoubleMod - m.mul_acc) % DoubleMod
                           ELSE m.mul_acc
      quotient  == m.div_rem % WordMod
      remainder == m.div_rem \div WordMod
  IN CASE m.op_r = 0 -> Product(m.mul_a_sign # m.mul_b_sign) % WordMod
       [] m.op_r = 1 -> Product(m.mul_a_sign # m.mul_b_sign) \div WordMod
       [] m.op_r = 2 -> Product(m.mul_a_sign) \div WordMod
       [] m.op_r = 3 -> m.mul_acc \div WordMod
       [] m.op_r = 4 -> IF m.div_by_zero THEN AllOnes
                        ELSE IF m.is_div_overflow THEN MinInt
                        ELSE Magnitude(m.div_a_sign # m.div_b_sign, quotient)
       [] m.op_r = 5 -> IF m.div_by_zero THEN AllOnes ELSE quotient
       [] m.op_r = 6 -> IF m.div_by_zero THEN m.op_a_r
                        ELSE IF m.is_div_overflow THEN 0
                        ELSE Magnitude(m.div_a_sign, remainder)
       [] OTHER      -> IF m.div_by_zero THEN m.op_a_r ELSE remainder
=============================================================================
