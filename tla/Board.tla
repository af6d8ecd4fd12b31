------------------------------- MODULE Board -------------------------------
(***************************************************************************)
(* How a benchmark is timed: main_wrapper.c and board_support.c for the    *)
(* Embench programs, start_time, stop_time and get_time of core_portme.c   *)
(* for CoreMark.  Both read mcycle before and after the benchmark and      *)
(* report the difference, one as a signed and one as an unsigned number.   *)
(***************************************************************************)
EXTENDS Words

CONSTANTS Suites,     \* {"embench", "coremark"}
          RunLengths, \* bound: the cycles a benchmark may take
          Boot        \* values mcycle may have when main starts

ASSUME BoardAssumption == RunLengths \subseteq Word /\ Boot \subseteq Word

VARIABLES suite, phase, mcycle, start_cyc, stop_cyc,
          took,       \* cycles between the two readings
          correct,    \* what verify_benchmark said
          exit_code

bvars == <<suite, phase, mcycle, start_cyc, stop_cyc, took, correct, exit_code>>

Ready ==
  /\ phase = "start" /\ start_cyc = 0 /\ stop_cyc = 0
  /\ took = 0 /\ correct = FALSE /\ exit_code = 0
BoardInit == suite \in Suites /\ mcycle \in Boot /\ Ready
BoardIdle == suite = "none" /\ mcycle = 0 /\ Ready

StartTrigger ==
  /\ phase = "start" /\ phase' = "benchmark" /\ start_cyc' = mcycle
  /\ UNCHANGED <<suite, mcycle, stop_cyc, took, correct, exit_code>>

Benchmark(k) ==
  /\ phase = "benchmark" /\ phase' = "stop"
  /\ mcycle' = Add(mcycle, k) /\ took' = k
  /\ UNCHANGED <<suite, start_cyc, stop_cyc, correct, exit_code>>

StopTrigger ==
  /\ phase = "stop" /\ phase' = "verify" /\ stop_cyc' = mcycle
  /\ UNCHANGED <<suite, mcycle, start_cyc, took, correct, exit_code>>

(* The result is verified after the clock has been stopped.                *)
Verify(ok, k) ==
  /\ phase = "verify" /\ phase' = "report"
  /\ correct' = ok /\ mcycle' = Add(mcycle, k)
  /\ UNCHANGED <<suite, start_cyc, stop_cyc, took, exit_code>>

Exit ==
  /\ phase = "report" /\ phase' = "exit" /\ exit_code' = IF correct THEN 0 ELSE 1
  /\ UNCHANGED <<suite, mcycle, start_cyc, stop_cyc, took, correct>>

BoardNext ==
  \/ StartTrigger \/ StopTrigger \/ Exit
  \/ \E k \in RunLengths : Benchmark(k)
  \/ \E ok \in BOOLEAN, k \in RunLengths : Verify(ok, k)

(* Variant: the larger reading less the smaller.                           *)
ElapsedUnwrapped == IF stop_cyc >= start_cyc THEN stop_cyc - start_cyc ELSE start_cyc - stop_cyc

(* The readings are unsigned, so the difference wraps as mcycle does.      *)
Elapsed == Sub(stop_cyc, start_cyc)
=============================================================================
