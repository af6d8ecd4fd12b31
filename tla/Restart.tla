------------------------------ MODULE Restart ------------------------------
(***************************************************************************)
(* The machine a program sees, when the reset line may be pulled at any    *)
(* time.  A reset clears the program counter and the CSRs and keeps the    *)
(* register file and the memories, in a state the program went through a   *)
(* moment ago: of the last retirements, those still under way are undone   *)
(* as a whole.  Only a fused pair with two destinations can be caught      *)
(* half-way, with its second result in the register file and not its first.*)
(***************************************************************************)
EXTENDS SingleCycle

VARIABLE trail      \* arch before each of the last two steps, newest first

rsvars == <<scvars, trail>>

Remember(past, s) == IF past = <<>> THEN <<s>> ELSE <<s, past[1]>>

(* What is left after a reset that finds the state s in the memories.      *)
Restarted(s) == [s EXCEPT !.pc = MemBase, !.csr = [a \in TrapCsr |-> CsrReset[a]]]

(* The state in the middle of the last step, when that retired a pair with *)
(* two destinations.                                                       *)
HalfWay ==
  LET before == trail[1]
      i == imem[MemIndex(before.pc)]
      n == imem[MemIndex(Add(before.pc, 4))]
  IN IF /\ trail # <<>>
        /\ Matches(3, i, n) \/ Matches(5, i, n)
        /\ arch = Retire(Retire(before))
     THEN {[arch EXCEPT !.regs[i.rd] = before.regs[i.rd]]}
     ELSE {}

RsInit == Init /\ trail = <<>>

RsRetire == Next /\ trail' = Remember(trail, arch)

Reset ==
  /\ \E s \in {arch} \cup {trail[k] : k \in DOMAIN trail} \cup HalfWay : arch' = Restarted(s)
  /\ trail' = <<>>
  /\ UNCHANGED imem

RsSpec == RsInit /\ [][RsRetire \/ Reset]_rsvars
=============================================================================
