------------------------------ MODULE Runtime ------------------------------
(***************************************************************************)
(* The C code under a benchmark: a program prints, moves bytes, takes heap *)
(* and times itself.  "task" says which of these a behaviour is about.     *)
(***************************************************************************)
EXTENDS MiniPrintf, MiniString, Board, Heap

VARIABLE task

rtvars == <<task, pvars, svars, bvars, hvars>>

PrintIdle == call = [fmt |-> <<>>, args |-> <<>>] /\ EeReady /\ MiniInit

RtInit ==
  \/ task = "print"  /\ PInit /\ StringIdle /\ BoardIdle /\ HeapInit
  \/ task = "string" /\ StringInit /\ PrintIdle /\ BoardIdle /\ HeapInit
  \/ task = "time"   /\ BoardInit /\ PrintIdle /\ StringIdle /\ HeapInit
  \/ task = "heap"   /\ HeapInit /\ PrintIdle /\ StringIdle /\ BoardIdle

RtNext ==
  /\ UNCHANGED task
  /\ \/ task = "print"  /\ PNext /\ UNCHANGED <<svars, bvars, hvars>>
     \/ task = "string" /\ StringNext /\ UNCHANGED <<pvars, bvars, hvars>>
     \/ task = "time"   /\ BoardNext /\ UNCHANGED <<pvars, svars, hvars>>
     \/ task = "heap"   /\ HeapNext /\ UNCHANGED <<pvars, svars, bvars>>

(* The processor keeps executing the code.                                 *)
RtSpec == RtInit /\ [][RtNext]_rtvars /\ WF_rtvars(RtNext)

-----------------------------------------------------------------------------
(* The number a report prints reads as the cycles the benchmark took, on   *)
(* whatever side of mcycle's wrap it started and ended, with verification  *)
(* left out: Embench reads a signed number, so for a benchmark shorter     *)
(* than half of mcycle's range, and CoreMark an unsigned one               *)
(* (main_wrapper.c:12-17, core_portme.c:34-50).                            *)
TextOf(n) == IF n < 0 THEN <<"-">> \o PrintUint(-n) ELSE PrintUint(n)

TimeReported ==
  phase = "exit" =>
    IF suite = "embench" THEN took < HalfMod => PrintInt(Elapsed) = TextOf(took)
    ELSE PrintUint(Elapsed) = TextOf(took)

(* Every call comes back: the formatters reach the end of the format, the  *)
(* loops of the string functions their bound or a terminator.              *)
EveryCallReturns ==
  /\ task = "print" => <>(stage = "sent" /\ (call \in MiniCalls => mini.done))
  /\ task = "string" => <>(ret # <<>>)
=============================================================================
