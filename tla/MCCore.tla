------------------------------- MODULE MCCore -------------------------------
(* The programs of the fusion and control runs, with the commit log.       *)
EXTENDS MCFusion, MCControl, CommitLog

CorePrograms == FusionPrograms \cup ControlPrograms

(* The text of the programs is what the proof of the refinement asks.      *)
ASSUME ProgramsAssumption == ProgramsTame
=============================================================================
