------------------------------ MODULE MCUnits ------------------------------
(* The programs around the multiply/divide unit and the CSR file, in the   *)
(* larger memory of the latter.                                            *)
EXTENDS MCEvents, MCMuldiv

Longer(p) == [k \in 0 .. 15 |-> IF k < 8 THEN p[k] ELSE HALT]
UnitPrograms == CsrAndEventPrograms \cup {Longer(p) : p \in MuldivPrograms}

(* What the theorem on the markers assumes of the programs of a run.       *)
ASSUME UnitsAssumption == PathsTame /\ MarkersFallThrough
=============================================================================
