---------------------------- MODULE MCMuldivIter ----------------------------
EXTENDS MuldivIter

MCStray == {0, AllOnes}
(* Operations that leave every sign, a zero divisor, the signed overflow   *)
(* and a full accumulator behind in the unit's registers.                  *)
MCEarlier ==
  {<<op, HalfMod, AllOnes>> : op \in {1, 2, 4, 6}} \cup {<<op, HalfMod + 1, 0>> : op \in {4, 7}}
  \cup {<<op, AllOnes, HalfMod - 1>> : op \in {0, 3, 5, 6}} \cup {<<4, 3, AllOnes>>, <<6, 5, HalfMod + 3>>}
=============================================================================
