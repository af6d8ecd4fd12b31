--------------------------- MODULE ObserverProofs ---------------------------
(***************************************************************************)
(* What is proved with the history variables of the two observers of the   *)
(* pipelined core: how long a fused pair's second write holds up the front *)
(* end and in which order the commit log is printed (CommitLog), and what  *)
(* the event counters of the CSR file count (Events).                      *)
(***************************************************************************)
EXTENDS CommitLog, Events, RefinementProofs, SequenceTheorems

(* The length of the episode so far tells where the write is, which is in  *)
(* one place only.                                                         *)
EpisodeInv ==
  /\ Pend2Inv
  /\ ~pend2_active => episode = 0
  /\ pend2_active => /\ Pend2InEx  => episode = 1
                     /\ Pend2InMem => episode = 2
                     /\ Pend2InWb  => episode = 3
                     /\ Pend2Fires => episode = 4

(* No episode has begun.                                                   *)
LEMMA InitEpisodeInv == LInit => EpisodeInv
  <1> SUFFICES ASSUME LInit PROVE EpisodeInv
    OBVIOUS
  <1>1. Pend2Inv
    BY InitPend2Inv DEF LInit
  <1>2. pend2_active = FALSE /\ episode = 0
    BY DEF LInit, Init
  <1> QED BY <1>1, <1>2 DEF EpisodeInv

(* Every edge moves an episode one stage on or ends it.                    *)
LEMMA StepEpisodeInv == EpisodeInv /\ [LNext]_lvars => EpisodeInv'
  <1> SUFFICES ASSUME EpisodeInv, [LNext]_lvars PROVE EpisodeInv'
    OBVIOUS
  <1>1. CASE LNext
    <2>1. Pend2Inv /\ ClockEdge
      BY <1>1 DEF LNext, Next, EpisodeInv
    <2>2. Pend2Inv'
      BY <2>1, StepPend2Inv DEF Next
    <2>3. episode' = IF pend2_active' THEN episode + 1 ELSE 0
      BY <1>1 DEF LNext
    <2>4. CASE pend2_active
      <3>1. Pend2InEx \/ Pend2InMem \/ Pend2InWb \/ Pend2Fires
        BY <2>1, <2>4 DEF Pend2Inv, Pend2Protocol
      <3>2. CASE Pend2InEx
        <4>1. Pend2InMem' /\ pend2_active' /\ episode = 1
          BY <2>1, <2>4, <3>2, PendingMoves DEF EpisodeInv
        <4>2. ~Pend2InEx' /\ ~Pend2InWb' /\ ~Pend2Fires'
          BY <4>1 DEF Pend2InEx, Pend2InMem, Pend2InWb, Pend2Fires,
                       ExIdle, MemIdle, WbIdle
        <4> QED BY <2>2, <2>3, <4>1, <4>2 DEF EpisodeInv
      <3>3. CASE Pend2InMem
        <4>1. Pend2InWb' /\ pend2_active' /\ episode = 2
          BY <2>1, <2>4, <3>3, PendingMoves DEF EpisodeInv
        <4>2. ~Pend2InEx' /\ ~Pend2InMem' /\ ~Pend2Fires'
          BY <4>1 DEF Pend2InEx, Pend2InMem, Pend2InWb, Pend2Fires,
                       ExIdle, MemIdle, WbIdle
        <4> QED BY <2>2, <2>3, <4>1, <4>2 DEF EpisodeInv
      <3>4. CASE Pend2InWb
        <4>1. Pend2Fires' /\ pend2_active' /\ episode = 3
          BY <2>1, <2>4, <3>4, PendingMoves DEF EpisodeInv
        <4>2. ~Pend2InEx' /\ ~Pend2InMem' /\ ~Pend2InWb'
          BY <4>1 DEF Pend2InEx, Pend2InMem, Pend2InWb, Pend2Fires,
                       ExIdle, MemIdle, WbIdle
        <4> QED BY <2>2, <2>3, <4>1, <4>2 DEF EpisodeInv
      <3>5. CASE Pend2Fires
        BY <2>1, <2>2, <2>3, <2>4, <3>5, PendingMoves DEF EpisodeInv
      <3> QED BY <3>1, <3>2, <3>3, <3>4, <3>5
    <2>5. CASE ~pend2_active
      <3>1. episode = 0 /\ (pend2_active' => Pend2InEx')
        BY <2>1, <2>5, StepIdle DEF EpisodeInv
      <3>2. pend2_active' => ~Pend2InMem' /\ ~Pend2InWb' /\ ~Pend2Fires'
        BY <3>1 DEF Pend2InEx, Pend2InMem, Pend2InWb, Pend2Fires,
                      ExIdle, MemIdle, WbIdle
      <3> QED BY <2>2, <2>3, <3>1, <3>2 DEF EpisodeInv
    <2> QED BY <2>4, <2>5
  <1>2. CASE UNCHANGED lvars
    <2>1. UNCHANGED vars /\ episode' = episode
      BY <1>2 DEF lvars
    <2>2. Pend2Inv'
      BY <2>1, StepPend2Inv DEF EpisodeInv
    <2> QED BY <2>1, <2>2 DEF vars, EpisodeInv, Pend2InEx, Pend2InMem, Pend2InWb, Pend2Fires,
                               ExIdle, MemIdle, WbIdle
  <1> QED BY <1>1, <1>2

(* pend2_active is lowered when the write has fired, and then it has been  *)
(* up for four cycles: no freeze, stall or redirect makes an episode       *)
(* longer or shorter (core_top_pipelined.sv:242-261).                      *)
THEOREM EpisodesAlwaysTakeFour == LSpec => EpisodesTakeFour
  <1>1. EpisodeInv /\ [LNext]_lvars => [pend2_active /\ ~pend2_active' => episode = 4]_lvars
    <2> SUFFICES ASSUME EpisodeInv, LNext, pend2_active, ~pend2_active' PROVE episode = 4
      OBVIOUS
    <2>1. Pend2Inv /\ ClockEdge
      BY DEF LNext, Next, EpisodeInv
    <2>2. Pend2InEx \/ Pend2InMem \/ Pend2InWb \/ Pend2Fires
      BY <2>1 DEF Pend2Inv, Pend2Protocol
    <2>3. Pend2Fires
      BY <2>1, <2>2, PendingMoves
    <2> QED BY <2>3 DEF EpisodeInv
  <1> QED BY <1>1, InitEpisodeInv, StepEpisodeInv, PTL DEF LSpec, EpisodesTakeFour
-----------------------------------------------------------------------------
(* The event counters.                                                     *)

(* Each counter goes up by its own event and by nothing else: the write    *)
(* port of the CSR file does not reach them.                               *)
LEMMA CountersStep ==
  ASSUME DataInv, ClockEdge
  PROVE  /\ csr'["muldiv_active"] = Count(MuldivStart, csr["muldiv_active"])
         /\ csr'["isol_active"] = Count(IsolActive, csr["isol_active"])
         /\ csr'["fusion_active"] = Count(FusionActive, csr["fusion_active"])
         /\ csr'["mcycle"] = (csr["mcycle"] + 1) % CntMod
  <1> DEFINE written == CsrPort(csr, TrapTaken, idex.pc, idex.instr,
                                memwb.is_csr /\ ~MuldivActive, memwb.csr_addr, memwb.muldiv_result)
  <1>1. DOMAIN csr = TrapCsr \cup CounterCsr
    BY DEF DataInv, TypeOK
  <1>2. DOMAIN written = TrapCsr \cup CounterCsr
        /\ \A c \in CounterCsr : written[c] = csr[c]
    BY <1>1 DEF CsrPort, CsrTrap, CsrWrite, TrapCsr, CounterCsr
  <1>3. csr' = CsrCount(written, MuldivStart, IsolActive, FusionActive)
    BY DEF ClockEdge, NextCsr
  <1> HIDE DEF written
  <1> QED BY <1>2, <1>3 DEF CsrCount, Count, TrapCsr, CounterCsr

(* A counter counts modulo CntMod.                                         *)
LEMMA CountType ==
  ASSUME NEW event, NEW n \in 0 .. CntMod-1
  PROVE  Count(event, n) \in 0 .. CntMod-1
  <1>1. (n + 1) % CntMod \in 0 .. CntMod-1
    BY CsrAssumption
  <1> QED BY <1>1 DEF Count

(* The phases of the unit across a clock edge: from the start pulse on it  *)
(* is one cycle further, and idle when the operation has left.             *)
LEMMA UnitCyclesStep ==
  ASSUME FreezeInv, ClockEdge
  PROVE  /\ MuldivActive  => /\ UnitCycles' = UnitCycles + 1 /\ UnitCycles \in Nat
                             /\ muldiv'.busy \/ muldiv'.done
         /\ ~MuldivActive => /\ ~muldiv'.busy /\ ~muldiv'.done /\ UnitCycles' = 0
                             /\ UnitCycles = IF idex.ctl.is_muldiv THEN W + 2 ELSE 0
                             /\ muldiv.done = idex.ctl.is_muldiv
  <1>1. /\ UnitPhases(muldiv) /\ muldiv \in MuldivRegisters
        /\ muldiv.busy \in BOOLEAN /\ muldiv.done \in BOOLEAN
        /\ muldiv.busy = (muldiv.state # "IDLE")
        /\ muldiv.state \in {"IDLE", "MUL_RUN", "DIV_RUN", "FINISH"} /\ muldiv.iter_cnt \in 0 .. W
    <2>1. UnitPhases(muldiv) /\ muldiv \in MuldivRegisters
      BY DEF FreezeInv, DataInv, UnitPhases
    <2> QED BY <2>1, RegisterTypes DEF UnitPhases, MuldivRegisters
  <1>2. muldiv' = MuldivNext(muldiv, MuldivStart, MuldivActive,
                             Gated("a", FwdA), Gated("b", FwdB), idex.instr.f3)
    BY DEF ClockEdge, NextMuldiv
  <1>3. CASE muldiv.state = "IDLE" /\ ~MuldivStart
    <2>1. ~muldiv.busy /\ ~MuldivActive
      BY <1>1, <1>3 DEF MuldivActive
    <2>2. muldiv' = [muldiv EXCEPT !.done = FALSE]
      BY <1>2, <1>3 DEF MuldivNext
    <2>3. muldiv'.busy = FALSE /\ muldiv'.done = FALSE
      BY <1>1, <2>1, <2>2 DEF MuldivRegisters
    <2>4. muldiv.done => idex.ctl.is_muldiv
      BY DEF FreezeInv, RequestInv
    <2>5. idex.ctl.is_muldiv => muldiv.done
      BY <1>3, <2>1 DEF MuldivStart
    <2>6. idex.ctl.is_muldiv \in BOOLEAN
      BY IdExTypes DEF FreezeInv, DataInv, Control
    <2> QED BY <1>1, <2>1, <2>3, <2>4, <2>5, <2>6 DEF UnitCycles
  <1>4. CASE muldiv.state = "IDLE" /\ MuldivStart
    <2>1. ~muldiv.busy /\ ~muldiv.done /\ MuldivActive
      BY <1>4 DEF MuldivActive, MuldivStart
    <2>2. UnitCycles = 0
      BY <2>1 DEF UnitCycles
    <2>3. muldiv'.busy = TRUE /\ muldiv'.done = FALSE /\ muldiv'.iter_cnt = 0
          /\ muldiv'.state \in {"MUL_RUN", "DIV_RUN"}
      <3> DEFINE op_en == MuldivActive
                 a == Gated("a", FwdA)
                 b == Gated("b", FwdB)
                 op == idex.instr.f3
                 gated == IF op_en THEN [muldiv EXCEPT !.op_a_r = a, !.op_r = op] ELSE muldiv
                 started == [gated EXCEPT !.busy = TRUE, !.done = FALSE, !.iter_cnt = 0]
      <3>1. muldiv' = IF op < 4 THEN MulAccept(started, a, b, op) ELSE DivAccept(started, a, b, op)
        BY <1>2, <1>4 DEF MuldivNext, MuldivAccept
      <3>2. DOMAIN gated = DOMAIN muldiv
        OBVIOUS
      <3>3. DOMAIN muldiv = {"state", "busy", "done", "op_a_r", "op_r", "iter_cnt", "mul_acc",
                             "mul_mcand", "mul_a_sign", "mul_b_sign", "div_a_sign", "div_b_sign",
                             "div_rem", "div_divisor", "div_by_zero", "is_div_overflow"}
        BY <1>1 DEF MuldivRegisters
      <3> HIDE DEF gated
      <3>4. /\ started.busy = TRUE /\ started.done = FALSE /\ started.iter_cnt = 0
            /\ DOMAIN started = DOMAIN muldiv
        BY <3>2, <3>3
      <3> HIDE DEF started, a, b, op
      <3>5. CASE op < 4
        BY <3>1, <3>3, <3>4, <3>5 DEF MulAccept
      <3>6. CASE ~(op < 4)
        BY <3>1, <3>3, <3>4, <3>6 DEF DivAccept
      <3> QED BY <3>5, <3>6
    <2>4. UnitCycles' = 1
      BY <2>3 DEF UnitCycles
    <2> QED BY <2>1, <2>2, <2>3, <2>4
  <1>5. CASE muldiv.state \in {"MUL_RUN", "DIV_RUN"}
    <2>1. muldiv.busy /\ MuldivActive /\ ~muldiv.done /\ muldiv.iter_cnt < W
      BY <1>1, <1>5 DEF MuldivActive, UnitPhases
    <2>2. /\ muldiv'.state = (IF muldiv.iter_cnt = W - 1 THEN "FINISH" ELSE muldiv.state)
          /\ muldiv'.iter_cnt = muldiv.iter_cnt + 1
          /\ muldiv'.done = FALSE /\ muldiv'.busy = muldiv.busy
      <3>1. Iterated(muldiv) \in MuldivRegisters
        BY <1>1, <2>1, IteratedType
      <3>2. \/ muldiv' = [Iterated(muldiv) EXCEPT !.mul_acc = MulStep(muldiv.mul_acc, muldiv.mul_mcand)]
            \/ muldiv' = [Iterated(muldiv) EXCEPT !.div_rem = DivStep(muldiv.div_rem, muldiv.div_divisor)]
        BY <1>2, <1>5 DEF MuldivNext
      <3>3. /\ muldiv'.state = Iterated(muldiv).state /\ muldiv'.iter_cnt = Iterated(muldiv).iter_cnt
            /\ muldiv'.done = Iterated(muldiv).done /\ muldiv'.busy = Iterated(muldiv).busy
        BY <3>1, <3>2 DEF MuldivRegisters
      <3> QED BY <1>1, <3>3, IteratedFields
    <2>3. UnitCycles = 1 + muldiv.iter_cnt
      BY <1>5, <2>1 DEF UnitCycles
    <2>4. UnitCycles' = 2 + muldiv.iter_cnt
      <3>1. CASE muldiv.iter_cnt = W - 1
        <4>1. UnitCycles' = W + 1
          BY <2>1, <2>2, <3>1 DEF UnitCycles
        <4> QED BY <3>1, <4>1, WAssumption
      <3>2. CASE muldiv.iter_cnt # W - 1
        <4>1. UnitCycles' = 1 + (muldiv.iter_cnt + 1)
          BY <1>5, <2>1, <2>2, <3>2 DEF UnitCycles
        <4> QED BY <1>1, <4>1
      <3> QED BY <3>1, <3>2
    <2> QED BY <1>1, <2>1, <2>2, <2>3, <2>4
  <1>6. CASE muldiv.state = "FINISH"
    <2>1. muldiv.busy /\ MuldivActive /\ ~muldiv.done
      BY <1>1, <1>6 DEF MuldivActive, UnitPhases
    <2>2. muldiv'.done = TRUE
      BY <1>1, <1>2, <1>6 DEF MuldivNext, MuldivRegisters
    <2>3. UnitCycles = W + 1 /\ UnitCycles' = W + 2
      BY <1>6, <2>1, <2>2 DEF UnitCycles
    <2> QED BY <2>1, <2>2, <2>3, WAssumption
  <1> QED BY <1>1, <1>3, <1>4, <1>5, <1>6

(* What the histories are about: counters in range, and what the unit has  *)
(* been started for is what has left EX or is still there.                 *)
CountInv ==
  /\ FreezeInv
  /\ \A c \in CounterCsr : csr[c] \in 0 .. CntMod-1
  /\ muldivs \in 0 .. CntMod-1 /\ pairs \in 0 .. CntMod-1
  /\ MuldivCountedOnce

(* After reset nothing has been counted.                                   *)
LEMMA InitCount == EInit => CountInv
  <1> SUFFICES ASSUME EInit PROVE CountInv
    OBVIOUS
  <1>1. FreezeInv
    BY InitFreeze DEF EInit
  <1>2. \A c \in CounterCsr : csr[c] = 0
    BY DEF EInit, Init, CsrReset, CounterCsr
  <1>3. muldivs = 0 /\ pairs = 0 /\ ~muldiv.busy /\ ~muldiv.done /\ 0 \in 0 .. CntMod-1
    BY CsrAssumption DEF EInit, Init, MuldivReset
  <1>4. MuldivCountedOnce
    BY <1>2, <1>3 DEF MuldivCountedOnce, Count, CounterCsr
  <1> QED BY <1>1, <1>2, <1>3, <1>4 DEF CountInv

(* Every edge keeps what the counters' proofs rest on.                     *)
LEMMA StepCount == ProductsNotCompared /\ CountInv /\ [ENext]_evars => CountInv'
  <1> SUFFICES ASSUME ProductsNotCompared, CountInv, [ENext]_evars PROVE CountInv'
    OBVIOUS
  <1>1. FreezeInv'
    <2>1. [Next]_vars
      BY DEF ENext, evars
    <2> QED BY <2>1, StepFreeze DEF CountInv
  <1>2. CASE ENext
    <2>1. ClockEdge /\ FreezeInv /\ DataInv
      BY <1>2 DEF ENext, Next, CountInv, FreezeInv
    <2>2. \A c \in CounterCsr : csr'[c] \in 0 .. CntMod-1
      <3>1. \A c \in CounterCsr : csr[c] \in 0 .. CntMod-1
        BY DEF CountInv
      <3>2. \A event : \A c \in CounterCsr : Count(event, csr[c]) \in 0 .. CntMod-1
        BY <3>1, CountType
      <3>3. (csr["mcycle"] + 1) % CntMod \in 0 .. CntMod-1
        BY <3>1, CsrAssumption DEF CounterCsr
      <3> QED BY <2>1, <3>2, <3>3, CountersStep DEF CounterCsr
    <2>3. muldivs' \in 0 .. CntMod-1 /\ pairs' \in 0 .. CntMod-1
      BY <1>2, CountType DEF ENext, CountInv
    <2>4. MuldivCountedOnce'
      <3>1. csr'["muldiv_active"] = Count(MuldivStart, csr["muldiv_active"])
            /\ csr["muldiv_active"] = Count(muldiv.busy \/ muldiv.done, muldivs)
        BY <2>1, CountersStep DEF CountInv, MuldivCountedOnce
      <3>2. muldivs' = Count(~MuldivActive /\ idex.ctl.is_muldiv, muldivs)
        BY <1>2 DEF ENext
      <3>3. CASE MuldivActive
        <4>1. muldiv'.busy \/ muldiv'.done
          BY <2>1, <3>3, UnitCyclesStep
        <4>2. muldivs' = muldivs
          BY <3>2, <3>3 DEF Count
        <4>3. MuldivStart <=> ~(muldiv.busy \/ muldiv.done)
          <5>1. muldiv.busy => ~muldiv.done
            BY DEF CountInv, FreezeInv, DataInv, UnitPhases
          <5> QED BY <3>3, <5>1 DEF MuldivActive, MuldivStart
        <4> QED BY <3>1, <4>1, <4>2, <4>3 DEF MuldivCountedOnce, Count
      <3>4. CASE ~MuldivActive
        <4>1. ~muldiv'.busy /\ ~muldiv'.done /\ muldiv.done = idex.ctl.is_muldiv
          BY <2>1, <3>4, UnitCyclesStep
        <4>2. ~MuldivStart /\ ~muldiv.busy
          BY <3>4 DEF MuldivActive
        <4> QED BY <3>1, <3>2, <3>4, <4>1, <4>2 DEF MuldivCountedOnce, Count
      <3> QED BY <3>3, <3>4
    <2> QED BY <1>1, <2>2, <2>3, <2>4 DEF CountInv
  <1>3. CASE UNCHANGED evars
    <2>1. UNCHANGED vars /\ muldivs' = muldivs /\ pairs' = pairs
      BY <1>3 DEF evars
    <2> QED BY <1>1, <2>1 DEF vars, CountInv, MuldivCountedOnce, Count
  <1> QED BY <1>2, <1>3

(* Every multiply or divide is counted when the unit starts on it, and     *)
(* once: not in the cycles of the freeze, and not again when its result is *)
(* there (csr_file.sv:80, core_top_pipelined.sv:374,430).                  *)
THEOREM MuldivsCountedOnce == ProductsNotCompared => (ESpec => []MuldivCountedOnce)
  <1> SUFFICES ASSUME ProductsNotCompared PROVE ESpec => []MuldivCountedOnce
    OBVIOUS
  <1>1. CountInv /\ [ENext]_evars => CountInv'
    BY StepCount
  <1>2. CountInv => MuldivCountedOnce
    BY DEF CountInv
  <1> QED BY <1>1, <1>2, InitCount, PTL DEF ESpec

(* Remainders.                                                             *)
LEMMA Congruent ==
  ASSUME NEW m \in Nat, m > 0, NEW x \in Int, NEW r \in 0 .. m-1
  PROVE  r = x % m <=> \E k \in Int : x = m * k + r
  <1>1. ASSUME r = x % m PROVE \E k \in Int : x = m * k + r
    <2>1. x \div m \in Int /\ x = m * (x \div m) + r
      BY <1>1, DivMod
    <2> QED BY <2>1
  <1>2. ASSUME NEW k \in Int, x = m * k + r PROVE r = x % m
    BY <1>2, DivModUnique
  <1> QED BY <1>1, <1>2

(* A remainder, with the quotient it goes with.                            *)
LEMMA Remainder ==
  ASSUME NEW m \in Nat, m > 0, NEW x \in Int
  PROVE  \E q \in Int, r \in 0 .. m-1 : r = x % m /\ x = m * q + r
  <1>1. x \div m \in Int /\ x % m \in 0 .. m-1 /\ x = m * (x \div m) + (x % m)
    BY DivMod
  <1> QED BY <1>1

(* The sum the isolation counter is held against, one cycle later: c       *)
(* cycles, k operations of n cycles each, u cycles of the one under way.   *)
IdleSum(m, n, c, k, u, i) == i = (c - n * k - u) % m

IdleSumNext(m, n, c, k, u, i) ==
  /\ i = (((c + 1) % m) - n * k - (u + 1)) % m
  /\ u = 0 => (i + 1) % m = (((c + 1) % m) - n * k - 0) % m
  /\ u = n => (i + 1) % m = (((c + 1) % m) - n * ((k + 1) % m) - 0) % m

(* One more cycle, idle or not, on both sides of the sum.                  *)
LEMMA IdleSumStep ==
  ASSUME NEW m \in Nat, m > 0, NEW n \in Nat,
         NEW c \in 0 .. m-1, NEW k \in 0 .. m-1, NEW u \in Int,
         NEW i \in 0 .. m-1, IdleSum(m, n, c, k, u, i)
  PROVE  IdleSumNext(m, n, c, k, u, i)
  <1>1. PICK q \in Int : c - n * k - u = m * q + i
    <2>1. n * k \in Int /\ c - n * k - u \in Int
      OBVIOUS
    <2> QED BY <2>1, Congruent DEF IdleSum
  <1>2. PICK qc \in Int, c1 \in 0 .. m-1 : c1 = (c + 1) % m /\ c + 1 = m * qc + c1
    <2>1. c + 1 \in Int
      OBVIOUS
    <2> QED BY <2>1, Remainder
  <1>3. PICK qk \in Int, k1 \in 0 .. m-1 : k1 = (k + 1) % m /\ k + 1 = m * qk + k1
    <2>1. k + 1 \in Int
      OBVIOUS
    <2> QED BY <2>1, Remainder
  <1>4. PICK qi \in Int, i1 \in 0 .. m-1 : i1 = (i + 1) % m /\ i + 1 = m * qi + i1
    <2>1. i + 1 \in Int
      OBVIOUS
    <2> QED BY <2>1, Remainder
  <1>5. PICK nk \in Int, nk1 \in Int, mq \in Int, mc \in Int, mi \in Int :
          nk = n * k /\ nk1 = n * k1 /\ mq = m * q /\ mc = m * qc /\ mi = m * qi
    OBVIOUS
  <1>6. c - nk - u = mq + i /\ c + 1 = mc + c1 /\ i + 1 = mi + i1
    BY <1>1, <1>2, <1>4, <1>5
  <1>7. i = (c1 - nk - (u + 1)) % m
    <2>1. m * (q - qc) = mq - mc /\ q - qc \in Int
      BY <1>5
    <2>2. c1 - nk - (u + 1) = m * (q - qc) + i
      BY <1>6, <2>1
    <2>3. c1 - nk - (u + 1) \in Int
      OBVIOUS
    <2> QED BY <2>1, <2>2, <2>3, Congruent
  <1>8. ASSUME u = 0 PROVE i1 = (c1 - nk - 0) % m
    <2>1. m * (q - qc + qi) = mq - mc + mi /\ q - qc + qi \in Int
      BY <1>5
    <2>2. c1 - nk - 0 = m * (q - qc + qi) + i1
      BY <1>6, <1>8, <2>1
    <2>3. c1 - nk - 0 \in Int
      OBVIOUS
    <2> QED BY <2>1, <2>2, <2>3, Congruent
  <1>9. ASSUME u = n PROVE i1 = (c1 - nk1 - 0) % m
    <2>1. PICK nqk \in Int : nqk = n * qk
      OBVIOUS
    <2>2. PICK mnq \in Int : mnq = m * nqk
      OBVIOUS
    <2>3. nk + n = mnq + nk1
      <3>1. n * (k + 1) = n * (m * qk + k1)
        BY <1>3
      <3>2. n * (k + 1) = nk + n
        BY <1>5
      <3>3. n * (m * qk + k1) = n * (m * qk) + nk1
        BY <1>5
      <3>4. n * (m * qk) = m * (n * qk)
        OBVIOUS
      <3> QED BY <2>1, <2>2, <3>1, <3>2, <3>3, <3>4
    <2>4. m * (q - qc + qi + nqk) = mq - mc + mi + mnq /\ q - qc + qi + nqk \in Int
      BY <1>5, <2>2
    <2>5. c1 - nk1 - 0 = m * (q - qc + qi + nqk) + i1
      BY <1>6, <1>9, <2>3, <2>4
    <2>6. c1 - nk1 - 0 \in Int
      OBVIOUS
    <2> QED BY <2>4, <2>5, <2>6, Congruent
  <1> QED BY <1>2, <1>3, <1>4, <1>5, <1>7, <1>8, <1>9 DEF IdleSumNext

(* The idle counter and the history stay apart by the same amount.         *)
LEMMA StepIsol ==
  ASSUME ISOL_EN, ~BR_CMP_EN, CountInv, IsolCountsIdle, [ENext]_evars
  PROVE  IsolCountsIdle'
  <1>1. CASE ENext
    <2> DEFINE isol == csr["isol_active"]
               cyc == csr["mcycle"]
    <2>1. ClockEdge /\ FreezeInv /\ DataInv
      BY <1>1 DEF ENext, Next, CountInv, FreezeInv
    <2>2. /\ CntMod \in Nat /\ CntMod > 0 /\ W + 2 \in Nat
          /\ cyc \in 0 .. CntMod-1 /\ isol \in 0 .. CntMod-1 /\ muldivs \in 0 .. CntMod-1
      BY CsrAssumption, WAssumption DEF CountInv, CounterCsr
    <2>3. /\ isol' = Count(~MuldivActive, isol) /\ cyc' = (cyc + 1) % CntMod
          /\ muldivs' = Count(~MuldivActive /\ idex.ctl.is_muldiv, muldivs)
      <3>1. IsolActive <=> ~MuldivActive
        BY DEF IsolActive
      <3> QED BY <1>1, <2>1, <3>1, CountersStep DEF ENext, Count
    <2>4. UnitCycles \in Int
      <3>1. CASE MuldivActive
        BY <2>1, <3>1, UnitCyclesStep
      <3>2. CASE ~MuldivActive
        BY <2>1, <2>2, <3>2, UnitCyclesStep
      <3> QED BY <3>1, <3>2
    <2>5. IdleSumNext(CntMod, W + 2, cyc, muldivs, UnitCycles, isol)
      <3>1. IdleSum(CntMod, W + 2, cyc, muldivs, UnitCycles, isol)
        BY DEF IsolCountsIdle, IdleSum
      <3> QED BY <2>2, <2>4, <3>1, IdleSumStep, Zenon
    <2>6. CASE MuldivActive
      <3>1. isol' = isol /\ muldivs' = muldivs
        BY <2>3, <2>6 DEF Count
      <3>2. UnitCycles' = UnitCycles + 1 /\ UnitCycles \in Int
        BY <2>1, <2>6, UnitCyclesStep
      <3>3. isol = (((cyc + 1) % CntMod) - (W + 2) * muldivs - (UnitCycles + 1)) % CntMod
        BY <2>5, <3>2 DEF IdleSumNext
      <3> QED BY <2>3, <3>1, <3>2, <3>3 DEF IsolCountsIdle
    <2>7. CASE ~MuldivActive /\ idex.ctl.is_muldiv
      <3>1. isol' = (isol + 1) % CntMod /\ muldivs' = (muldivs + 1) % CntMod
        BY <2>3, <2>7 DEF Count
      <3>2. UnitCycles' = 0 /\ UnitCycles = W + 2
        BY <2>1, <2>7, UnitCyclesStep
      <3>3. (isol + 1) % CntMod =
              (((cyc + 1) % CntMod) - (W + 2) * ((muldivs + 1) % CntMod) - 0) % CntMod
        BY <2>5, <3>2 DEF IdleSumNext
      <3> QED BY <2>3, <3>1, <3>2, <3>3 DEF IsolCountsIdle
    <2>8. CASE ~MuldivActive /\ ~idex.ctl.is_muldiv
      <3>1. isol' = (isol + 1) % CntMod /\ muldivs' = muldivs
        BY <2>3, <2>8 DEF Count
      <3>2. UnitCycles' = 0 /\ UnitCycles = 0
        BY <2>1, <2>8, UnitCyclesStep
      <3>3. (isol + 1) % CntMod = (((cyc + 1) % CntMod) - (W + 2) * muldivs - 0) % CntMod
        BY <2>5, <3>2 DEF IdleSumNext
      <3> QED BY <2>3, <3>1, <3>2, <3>3 DEF IsolCountsIdle
    <2> QED BY <2>6, <2>7, <2>8
  <1>2. CASE UNCHANGED evars
    BY <1>2 DEF evars, vars, IsolCountsIdle, UnitCycles
  <1> QED BY <1>1, <1>2

(* With isolation on and the branch comparator off, the cycles in which    *)
(* the gates are closed and those the unit works, W + 2 for each operation,*)
(* add up to all cycles (csr_file.sv:81, core_top_pipelined.sv:376-389).   *)
THEOREM IsolAlwaysCountsIdle ==
  ProductsNotCompared /\ ISOL_EN /\ ~BR_CMP_EN => (ESpec => []IsolCountsIdle)
  <1> SUFFICES ASSUME ProductsNotCompared, ISOL_EN, ~BR_CMP_EN
               PROVE  ESpec => []IsolCountsIdle
    OBVIOUS
  <1>1. EInit => CountInv /\ IsolCountsIdle
    <2> SUFFICES ASSUME EInit PROVE IsolCountsIdle
      BY InitCount
    <2>1. csr["isol_active"] = 0 /\ csr["mcycle"] = 0 /\ muldivs = 0
      BY DEF EInit, Init, CsrReset, CounterCsr
    <2>2. UnitCycles = 0
      BY DEF EInit, Init, MuldivReset, UnitCycles
    <2>3. 0 - (W + 2) * 0 - 0 = 0 /\ 0 % CntMod = 0
      BY WAssumption, CsrAssumption
    <2> QED BY <2>1, <2>2, <2>3 DEF IsolCountsIdle
  <1>2. CountInv /\ IsolCountsIdle /\ [ENext]_evars => CountInv' /\ IsolCountsIdle'
    BY StepCount, StepIsol
  <1> QED BY <1>1, <1>2, PTL DEF ESpec

(* A pair that enters EX fused is in ID with its successor, so its         *)
(* immediate is not that of its first instruction.                         *)
LEMMA IssuedFused ==
  ASSUME AddiAddsSomething, FreezeInv
  PROVE  AnyFuse <=> \/ Issued.pend2.valid
                     \/ Issued.fuse4.valid
                     \/ Issued.instr.op \in {"LUI", "AUIPC"} /\ Issued.imm # Issued.instr.imm
  <1>1. /\ Issued.pend2.valid = (Fuse(3) \/ Fuse(5)) /\ Issued.fuse4.valid = Fuse(4)
        /\ Issued.instr = ifid.instr
        /\ Issued.imm = CASE Fuse(1) \/ Fuse(2) -> Add(ifid.instr.imm, ifid.next.imm)
                          [] Fuse(3) -> ifid.next.imm
                          [] OTHER -> ifid.instr.imm
    BY DEF Issued
  <1>2. AnyFuse <=> Fuse(1) \/ Fuse(2) \/ Fuse(3) \/ Fuse(4) \/ Fuse(5)
    BY DEF AnyFuse, Idiom
  <1>3. ASSUME Fuse(1) \/ Fuse(2)
        PROVE  /\ ifid.instr.op \in {"LUI", "AUIPC"}
               /\ Add(ifid.instr.imm, ifid.next.imm) # ifid.instr.imm
    <2>1. /\ ifid.lookahead_valid
          /\ Pattern1(ifid.instr, ifid.next) \/ Pattern2(ifid.instr, ifid.next)
          /\ ifid.instr.op \in {"LUI", "AUIPC"}
      BY <1>3 DEF Fuse, Matches, Pattern1, Pattern2
    <2>2. ifid.instr # NOP
      BY <2>1 DEF NOP
    <2>3. ifid.instr = imem[MemIndex(ifid.pc)] /\ ifid.next = imem[MemIndex(Add(ifid.pc, 4))]
      BY <2>1, <2>2 DEF FreezeInv, LookaheadInv, LookaheadFromStream
    <2>4. /\ ifid.pc \in Word /\ imem \in Programs
          /\ ifid.instr.imm \in Word /\ ifid.next.imm \in Word
      BY InstrTypes DEF FreezeInv, DataInv, TypeOK
    <2>5. ifid.next.imm # 0
      BY <2>1, <2>3, <2>4 DEF AddiAddsSomething
    <2>6. \A x, y \in Word : y # 0 => Add(x, y) # x
      <3> SUFFICES ASSUME NEW x \in Word, NEW y \in Word, y # 0, Add(x, y) = x PROVE FALSE
        OBVIOUS
      <3>1. x \in Nat /\ y \in Nat /\ x < WordMod /\ y < WordMod /\ WordMod \in Nat /\ y > 0
        BY SmallWords, WordHalves DEF Word
      <3>2. PICK q \in Int : x + y = WordMod * q + x
        BY <3>1, DivMod DEF Add
      <3>3. y = WordMod * q
        BY <3>1, <3>2
      <3>4. q >= 1
        <4> SUFFICES ASSUME q <= 0 PROVE FALSE
          OBVIOUS
        <4>1. WordMod * (-q) >= 0
          BY <3>1
        <4> QED BY <3>1, <3>3, <4>1
      <3>5. WordMod * (q - 1) >= 0
        BY <3>1, <3>4
      <3> QED BY <3>1, <3>3, <3>5
    <2> QED BY <2>1, <2>4, <2>5, <2>6
  <1>4. Fuse(3) => ~Fuse(1) /\ ~Fuse(2)
    BY DEF Fuse, Matches, Pattern1, Pattern2, Pattern3, AddiOnto
  <1> QED BY <1>1, <1>2, <1>3, <1>4

(* A pair is counted when it is issued and remembered when it leaves EX.   *)
LEMMA StepFused ==
  ASSUME AddiAddsSomething, CountInv, FusionCountedOnce, [ENext]_evars
  PROVE  FusionCountedOnce'
  <1>1. CASE ENext
    <2>1. ClockEdge /\ FreezeInv /\ DataInv
      BY <1>1 DEF ENext, Next, CountInv, FreezeInv
    <2>2. csr'["fusion_active"] = Count(FusionActive, csr["fusion_active"])
          /\ csr["fusion_active"] = Count(ExFused, pairs)
          /\ pairs' = Count(~MuldivActive /\ ExFused, pairs)
      BY <1>1, <2>1, CountersStep DEF ENext, FusionCountedOnce
    <2>3. CASE MuldivActive
      <3>1. idex' = idex
        BY <2>1, <2>3, FreezeHoldsRequest
      <3>2. ExFused' <=> ExFused
        BY <3>1 DEF ExFused
      <3> QED BY <2>2, <2>3, <3>2 DEF FusionActive, FusionCountedOnce, Count
    <2>4. CASE ~MuldivActive
      <3>1. ExFused' <=> FusionActive
        <4>1. CASE ClearEx
          <5>1. idex' = IdExBubble
            BY <2>1, <4>1 DEF ClockEdge, NextIdEx
          <5>2. ~ExFused'
            BY <5>1 DEF ExFused, IdExBubble, NoPend2, NoFuse4, NOP
          <5> QED BY <4>1, <5>2 DEF FusionActive
        <4>2. CASE ~ClearEx
          <5>1. idex' = Issued
            BY <2>1, <2>4, <4>2 DEF ClockEdge, NextIdEx
          <5> QED BY <2>1, <2>4, <4>2, <5>1, IssuedFused DEF ExFused, FusionActive
        <4> QED BY <4>1, <4>2
      <3> QED BY <2>2, <2>4, <3>1 DEF FusionCountedOnce, Count
    <2> QED BY <2>3, <2>4
  <1>2. CASE UNCHANGED evars
    BY <1>2 DEF evars, vars, FusionCountedOnce, ExFused, Count
  <1> QED BY <1>1, <1>2

(* A pair is counted in the one cycle in which it goes from ID to EX, and  *)
(* every pair that does executes                                           *)
(* (csr_file.sv:82-86, core_top_pipelined.sv:226).                         *)
THEOREM PairsCountedOnce ==
  ProductsNotCompared /\ AddiAddsSomething => (ESpec => []FusionCountedOnce)
  <1> SUFFICES ASSUME ProductsNotCompared, AddiAddsSomething
               PROVE  ESpec => []FusionCountedOnce
    OBVIOUS
  <1>1. EInit => CountInv /\ FusionCountedOnce
    <2> SUFFICES ASSUME EInit PROVE FusionCountedOnce
      BY InitCount
    <2>1. csr["fusion_active"] = 0 /\ pairs = 0
      BY DEF EInit, Init, CsrReset, CounterCsr
    <2>2. ~ExFused
      BY DEF EInit, Init, ExFused, IdExBubble, NoPend2, NoFuse4, NOP
    <2> QED BY <2>1, <2>2 DEF FusionCountedOnce, Count
  <1>2. CountInv /\ FusionCountedOnce /\ [ENext]_evars => CountInv' /\ FusionCountedOnce'
    BY StepCount, StepFused
  <1> QED BY <1>1, <1>2, PTL DEF ESpec

-----------------------------------------------------------------------------
(* The markers.                                                            *)

(* The region the program is in behind the operation in EX.                *)
BoundAfterEx == IF ExReal /\ idex.ctl.fisol_bound THEN TRUE
                ELSE IF ExReal /\ idex.ctl.fisol_off THEN FALSE
                ELSE bound

(* ID is in that region, or has already acted on the marker that was       *)
(* flushed from it and is to be fetched again.                             *)
MarkerAgain ==
  ~ExReal /\ IsMarker(At(FrontPc)) /\ id_bound = Decode(At(FrontPc)).fisol_bound

BoundInv ==
  /\ bound \in BOOLEAN
  /\ ExFused => ~bound
  /\ idex.pend2.valid \/ idex.fuse4.valid => ~IfReal
  /\ id_bound = BoundAfterEx \/ MarkerAgain

(* Which words are markers.                                                *)
LEMMA MarkerWords ==
  \A i : /\ Decode(i).fisol_bound = (i.op = "CUSTOM0" /\ i.f3 = 0)
         /\ Decode(i).fisol_off = (i.op = "CUSTOM0" /\ i.f3 = 1)
         /\ IsMarker(i) => i.op = "CUSTOM0"
  BY DEF Decode, IsMarker

(* After reset no marker has been seen.                                    *)
LEMMA InitBound == EInit => BoundInv
  <1> SUFFICES ASSUME EInit PROVE BoundInv
    OBVIOUS
  <1>1. idex = IdExBubble /\ ifid = IfIdBubble /\ id_bound = FALSE /\ bound = FALSE
    BY DEF EInit, Init
  <1>2. ~idex.pend2.valid /\ ~idex.fuse4.valid /\ ~ExFused /\ ~ExReal
    BY <1>1 DEF ExFused, ExReal, IsReal, IdExBubble, NoPend2, NoFuse4, NOP
  <1> QED BY <1>1, <1>2 DEF BoundInv, BoundAfterEx

(* A frozen edge moves neither the marker in EX nor the one in ID.         *)
LEMMA FrozenBound ==
  ASSUME BoundInv, CoreInv, TargetsAligned, ENext, MuldivActive
  PROVE  BoundInv'
  <1>0. ClockEdge /\ FreezeInv /\ StreamInv /\ FrontInv
    BY DEF ENext, Next, CoreInv, StreamInv
  <1>1. ~Redirect /\ StallFront /\ ~LeavesEx
    BY <1>0, MuldivDoesNotRedirect DEF StallFront, StallPcIfId, LeavesEx
  <1>2. idex' = idex /\ ifid' = ifid /\ id_bound' = id_bound /\ imem' = imem
    BY <1>0, <1>1, FreezeHoldsRequest DEF ClockEdge, NextIfId, NextBound, FlushFront
  <1>3. bound' = bound
    BY <1>1 DEF ENext
  <1>4. FrontPc' = FrontPc
    BY <1>0, <1>1, FrontMoves
  <1>5. (ExReal' <=> ExReal) /\ (ExFused' <=> ExFused) /\ (IfReal' <=> IfReal)
    BY <1>2 DEF ExReal, ExFused, IfReal
  <1>6. At(FrontPc)' = At(FrontPc)
    BY <1>2, <1>4 DEF At
  <1>7. BoundAfterEx' = BoundAfterEx
    BY <1>2, <1>3, <1>5 DEF BoundAfterEx
  <1>8. MarkerAgain => MarkerAgain'
    BY <1>2, <1>5, <1>6 DEF MarkerAgain
  <1> QED BY <1>2, <1>3, <1>5, <1>7, <1>8 DEF BoundInv

(* A marker flushed from ID is the one the program goes on with.           *)
LEMMA FlushedMarker ==
  ASSUME BoundInv, CoreInv, NoCsrAheadOfTrap, MarkersOnPath, Redirect, IsMarker(ifid.instr)
  PROVE  RedirectTarget = ifid.pc /\ ifid.instr = At(ifid.pc)
  <1>0. RegsInv /\ FreezeInv /\ StreamInv /\ FrontInv
    BY DEF CoreInv, StreamInv
  <1>1. ExReal
    BY <1>0, EmptyIsHarmless DEF StreamInv, ExHolds
  <1>2. IfReal
    BY MarkerWords DEF IfReal, IsReal, NOP
  <1>3. ~idex.pend2.valid /\ ~idex.fuse4.valid
    BY <1>2 DEF BoundInv
  <1>4. ExSingle
    <2>1. ~ExCall /\ ~ExCompare /\ ~ExIndexed
      BY <1>3 DEF ExCall, ExCompare, ExIndexed
    <2>2. ~ExAddi
      <3>1. ASSUME ExAddi PROVE ~Redirect
        <4>1. idex.instr.op \in {"LUI", "AUIPC"} /\ idex.ctl = Decode(idex.instr)
          BY <3>1 DEF ExAddi, Pattern1, Pattern2
        <4>2. ~idex.ctl.illegal
          BY <4>1 DEF Decode
        <4>3. ~idex.ctl.is_branch /\ ~idex.ctl.is_jal /\ ~idex.ctl.is_jalr
          BY <4>1, DecodedPaths
        <4> QED BY <1>3, <4>2, <4>3 DEF Redirect, Fuse4Taken, TrapTaken
      <3> QED BY <3>1
    <2> QED BY <1>0, <1>1, <2>1, <2>2 DEF StreamInv, ExHolds
  <1>5. /\ ifid.pc = Add(AbsPc, 4) /\ ifid.instr = At(ifid.pc)
    <2>1. FrontPc = Add(AbsPc, 4)
      BY <1>1, <1>4, OldestPc DEF ExSingle
    <2> QED BY <1>0, <1>2, <2>1 DEF FrontPc, FrontInv
  <1>6. SC!Retire(AbsArch).pc = RedirectTarget
    BY <1>0, <1>1, <1>4, SingleGoes
  <1>7. imem[MemIndex(Add(AbsPc, 4))] = ifid.instr
    BY <1>5 DEF At
  <1> QED BY <1>5, <1>6, <1>7 DEF MarkersOnPath

(* Where the program turns, ID is ready for what it goes on with.          *)
LEMMA TurningBound ==
  ASSUME BoundInv, CoreInv, Tame, MarkersOnPath, ENext, ~MuldivActive, Redirect
  PROVE  BoundInv'
  <1>0. ClockEdge /\ FreezeInv /\ StreamInv /\ FrontInv /\ TargetsAligned /\ NoCsrAheadOfTrap
    BY DEF ENext, Next, CoreInv, StreamInv, Tame
  <1>1. idex' = IdExBubble /\ ifid' = IfIdBubble /\ imem' = imem
    BY <1>0 DEF ClockEdge, NextIdEx, NextIfId, FlushFront, ClearEx, FlushEx
  <1>2. ~ExReal' /\ ~ExFused' /\ ~IfReal'
    BY <1>1 DEF ExReal, ExFused, IfReal, IsReal, IdExBubble, IfIdBubble, NoPend2, NoFuse4, NOP
  <1>3. bound' = BoundAfterEx /\ bound' \in BOOLEAN
    BY DEF ENext, BoundInv, BoundAfterEx, LeavesEx
  <1>4. BoundAfterEx' = BoundAfterEx
    BY <1>2, <1>3 DEF BoundAfterEx
  <1>5. ExReal
    BY <1>0, EmptyIsHarmless DEF StreamInv, ExHolds
  <1>6. id_bound = BoundAfterEx
    BY <1>5 DEF BoundInv, MarkerAgain
  <1>7. CASE StallFront \/ ~IsMarker(ifid.instr)
    <2>1. id_bound' = id_bound
      BY <1>0, <1>7 DEF ClockEdge, NextBound, IsMarker
    <2> QED BY <1>2, <1>3, <1>4, <1>6, <2>1 DEF BoundInv
  <1>8. CASE ~StallFront /\ IsMarker(ifid.instr)
    <2>1. RedirectTarget = ifid.pc /\ ifid.instr = At(ifid.pc)
      BY <1>0, <1>8, FlushedMarker
    <2>2. FrontPc' = ifid.pc
      BY <1>0, <2>1, FrontMoves
    <2>3. At(FrontPc)' = ifid.instr
      BY <1>1, <2>1, <2>2 DEF At
    <2>4. id_bound' = Decode(ifid.instr).fisol_bound
      BY <1>0, <1>8, MarkerWords DEF ClockEdge, NextBound, IsMarker
    <2>5. MarkerAgain'
      BY <1>2, <1>8, <2>3, <2>4 DEF MarkerAgain
    <2> QED BY <1>2, <1>3, <2>5 DEF BoundInv
  <1> QED BY <1>7, <1>8

(* A stall holds the marker in ID, and EX is cleared.                      *)
LEMMA StalledBound ==
  ASSUME BoundInv, CoreInv, Tame, ENext, ~MuldivActive, ~Redirect, StallFront
  PROVE  BoundInv'
  <1>0. ClockEdge /\ FreezeInv /\ FrontInv /\ TargetsAligned
    BY DEF ENext, Next, CoreInv, StreamInv, Tame
  <1>1. ClearEx
    BY DEF StallFront, StallPcIfId, ClearEx, FlushEx
  <1>2. idex' = IdExBubble /\ imem' = imem /\ id_bound' = id_bound
    BY <1>0, <1>1 DEF ClockEdge, NextIdEx, NextBound
  <1>3. ~ExReal' /\ ~ExFused' /\ ~idex'.pend2.valid /\ ~idex'.fuse4.valid
    BY <1>2 DEF ExReal, ExFused, IsReal, IdExBubble, NoPend2, NoFuse4, NOP
  <1>4. bound' = BoundAfterEx /\ bound' \in BOOLEAN
    BY DEF ENext, BoundInv, BoundAfterEx, LeavesEx
  <1>5. BoundAfterEx' = BoundAfterEx
    BY <1>3, <1>4 DEF BoundAfterEx
  <1>6. FrontPc' = FrontPc
    BY <1>0, FrontMoves
  <1>7. At(FrontPc)' = At(FrontPc)
    BY <1>2, <1>6 DEF At
  <1>8. MarkerAgain => MarkerAgain'
    BY <1>2, <1>3, <1>7 DEF MarkerAgain
  <1> QED BY <1>2, <1>3, <1>4, <1>5, <1>8 DEF BoundInv

(* What is issued takes the region ID was in with it, and a pair is issued *)
(* outside of one only.                                                    *)
LEMMA IssuedBound ==
  ASSUME BoundInv, CoreInv, Tame, ENext, ~MuldivActive, ~Redirect, ~StallFront
  PROVE  BoundInv'
  <1>0. ClockEdge /\ FreezeInv /\ StreamInv /\ FrontInv /\ TargetsAligned
    BY DEF ENext, Next, CoreInv, StreamInv, Tame
  <1>1. ~ClearEx
    BY DEF StallFront, StallPcIfId, ClearEx, FlushEx
  <1>2. idex' = Issued /\ imem' = imem
    BY <1>0, <1>1 DEF ClockEdge, NextIdEx
  <1>3. ExReal' <=> IfReal
    BY <1>0, <1>1, IssueHolds
  <1>4. bound' = BoundAfterEx /\ bound' \in BOOLEAN
    BY DEF ENext, BoundInv, BoundAfterEx, LeavesEx
  <1>5. /\ idex'.ctl.fisol_bound = Decode(ifid.instr).fisol_bound
        /\ idex'.ctl.fisol_off = Decode(ifid.instr).fisol_off
    <2>1. IssuedControl.fisol_bound = Decode(ifid.instr).fisol_bound
      BY DEF IssuedControl, Decode
    <2>2. IssuedControl.fisol_off = Decode(ifid.instr).fisol_off
      BY DEF IssuedControl, Decode
    <2>3. idex'.ctl = IssuedControl
      BY <1>2 DEF Issued
    <2> QED BY <2>1, <2>2, <2>3
  <1>6. id_bound' = IF Decode(ifid.instr).fisol_bound THEN TRUE
                    ELSE IF Decode(ifid.instr).fisol_off THEN FALSE ELSE id_bound
    BY <1>0 DEF ClockEdge, NextBound
  <1>7. BoundAfterEx' = IF IfReal /\ Decode(ifid.instr).fisol_bound THEN TRUE
                        ELSE IF IfReal /\ Decode(ifid.instr).fisol_off THEN FALSE
                        ELSE BoundAfterEx
    BY <1>3, <1>4, <1>5 DEF BoundAfterEx
  <1>8. id_bound' = BoundAfterEx' \/ MarkerAgain'
    <2>1. CASE IfReal
      <3>1. FrontPc = ifid.pc /\ ifid.instr = At(ifid.pc)
        BY <1>0, <2>1 DEF FrontPc, FrontInv
      <3>2. id_bound = BoundAfterEx \/ IsMarker(ifid.instr)
        BY <3>1 DEF BoundInv, MarkerAgain
      <3> QED BY <1>6, <1>7, <2>1, <3>2 DEF IsMarker
    <2>2. CASE ~IfReal
      <3>1. ~Decode(ifid.instr).fisol_bound /\ ~Decode(ifid.instr).fisol_off
        BY <2>2, MarkerWords DEF IfReal, IsReal, NOP
      <3>2. id_bound' = id_bound /\ BoundAfterEx' = BoundAfterEx
        BY <1>6, <1>7, <3>1
      <3>3. FrontPc' = FrontPc
        BY <1>0, <2>2, FrontMoves
      <3>4. At(FrontPc)' = At(FrontPc)
        BY <1>2, <3>3 DEF At
      <3>5. MarkerAgain => MarkerAgain'
        BY <1>3, <2>2, <3>2, <3>4 DEF MarkerAgain
      <3> QED BY <3>2, <3>5 DEF BoundInv
    <2> QED BY <2>1, <2>2
  <1>9. ExFused' => AnyFuse
    <2>1. /\ idex'.pend2.valid = (Fuse(3) \/ Fuse(5)) /\ idex'.fuse4.valid = Fuse(4)
          /\ idex'.instr = ifid.instr
          /\ idex'.imm = CASE Fuse(1) \/ Fuse(2) -> Add(ifid.instr.imm, ifid.next.imm)
                           [] Fuse(3) -> ifid.next.imm
                           [] OTHER -> ifid.instr.imm
      BY <1>2 DEF Issued
    <2>2. Fuse(1) \/ Fuse(2) \/ Fuse(3) \/ Fuse(4) \/ Fuse(5) => AnyFuse
      BY DEF AnyFuse, Idiom
    <2> QED BY <2>1, <2>2 DEF ExFused
  <1>10. AnyFuse => ~id_bound /\ IfReal /\ ~IsMarker(ifid.instr)
    <2>1. AnyFuse => ~id_bound /\ ifid.instr.op \in {"LUI", "AUIPC", "OP", "OPIMM"}
      BY DEF AnyFuse, Idiom, Fuse, Matches, Pattern1, Pattern2, Pattern3, Pattern4, Pattern5
    <2> QED BY <1>0, <2>1, NopsDoNotFuse, MarkerWords
  <1>11. ExFused' => ~bound'
    <2>1. ASSUME AnyFuse PROVE ~BoundAfterEx
      <3>1. FrontPc = ifid.pc /\ ifid.instr = At(ifid.pc)
        BY <1>0, <1>10, <2>1 DEF FrontPc, FrontInv
      <3> QED BY <1>10, <2>1, <3>1 DEF BoundInv, MarkerAgain
    <2> QED BY <1>4, <1>9, <2>1
  <1>12. idex'.pend2.valid \/ idex'.fuse4.valid => ~IfReal'
    <2>1. idex'.pend2.valid \/ idex'.fuse4.valid => ExFused'
      BY DEF ExFused
    <2>2. AnyFuse => ifid' = IfIdBubble
      BY <1>0 DEF ClockEdge, NextIfId
    <2>3. ifid' = IfIdBubble => ~IfReal'
      BY DEF IfReal, IsReal, IfIdBubble
    <2> QED BY <1>9, <2>1, <2>2, <2>3
  <1> QED BY <1>4, <1>8, <1>11, <1>12 DEF BoundInv

(* Every step of a tame execution keeps it.                                *)
LEMMA StepBound ==
  Tame /\ CoreInv /\ MarkersOnPath /\ BoundInv /\ [ENext]_evars => BoundInv'
  <1> SUFFICES ASSUME Tame, CoreInv, MarkersOnPath, BoundInv, [ENext]_evars PROVE BoundInv'
    OBVIOUS
  <1>1. CASE ENext /\ MuldivActive
    BY <1>1, FrozenBound DEF Tame
  <1>2. CASE ENext /\ ~MuldivActive
    BY <1>2, TurningBound, StalledBound, IssuedBound
  <1>3. CASE UNCHANGED evars
    <2>1. /\ imem' = imem /\ pc' = pc /\ fetch' = fetch /\ ifid' = ifid /\ idex' = idex
          /\ id_bound' = id_bound /\ bound' = bound
      BY <1>3 DEF evars, vars
    <2>2. /\ (ExReal' <=> ExReal) /\ (IfReal' <=> IfReal) /\ (FetchReal' <=> FetchReal)
          /\ (ExFused' <=> ExFused)
      BY <2>1 DEF ExReal, IfReal, FetchReal, ExFused
    <2>3. FrontPc' = FrontPc
      BY <2>1, <2>2 DEF FrontPc
    <2>4. At(FrontPc)' = At(FrontPc)
      BY <2>1, <2>3 DEF At
    <2>5. BoundAfterEx' = BoundAfterEx /\ (MarkerAgain => MarkerAgain')
      BY <2>1, <2>2, <2>4 DEF BoundAfterEx, MarkerAgain
    <2> QED BY <2>1, <2>2, <2>5 DEF BoundInv
  <1> QED BY <1>1, <1>2, <1>3

(* A region of the program that FISOL.BOUND and FISOL.OFF delimit is free  *)
(* of fused pairs, if no marker stands where the program does not go: it   *)
(* would take effect in ID all the same (core_top_pipelined.sv:180-187).   *)
THEOREM BoundAlwaysRespected ==
  PathsTame => (ESpec /\ []MachineTame /\ []MarkersOnPath => BoundRespected)
  <1> SUFFICES ASSUME PathsTame
               PROVE ESpec /\ []MachineTame /\ []MarkersOnPath => BoundRespected
    OBVIOUS
  <1>1. ESpec => Spec
    <2>1. EInit => Init
      BY DEF EInit
    <2>2. [ENext]_evars => [Next]_vars
      BY DEF ENext, evars
    <2> QED BY <2>1, <2>2, PTL DEF ESpec, Spec
  <1>2. Spec /\ []MachineTame => []Tame
    BY TameEverywhere
  <1>3. Init => CoreInv
    BY InitCore
  <1>4. CoreInv /\ Tame /\ [Next]_vars => CoreInv'
    BY StepCore
  <1>5. BoundInv => (LeavesEx /\ ExFused => ~bound)
    BY DEF BoundInv
  <1> QED BY <1>1, <1>2, <1>3, <1>4, <1>5, InitBound, StepBound, PTL DEF ESpec, Spec, BoundRespected

(* A program has its markers there if nothing ahead of them jumps further. *)
LEMMA MarkersByText ==
  ASSUME MarkersFallThrough, CoreInv
  PROVE  MarkersOnPath
  <1> DEFINE i == At(AbsArch.pc)
  <1>0. imem \in Programs /\ AbsPc \in Word /\ AbsArch.pc = AbsPc
    BY OldestAligned, ArchParts DEF CoreInv, FreezeInv
  <1> SUFFICES ASSUME IsMarker(imem[MemIndex(Add(AbsPc, 4))])
               PROVE  SC!Retire(AbsArch).pc = Add(AbsPc, 4)
    BY DEF MarkersOnPath
  <1>1. i.op # "JALR" /\ ~Decode(i).illegal /\ (i.op \in {"JAL", "BRANCH"} => i.imm = 4)
    BY <1>0 DEF MarkersFallThrough, At
  <1>2. SC!Retire(AbsArch).pc = SC!NextPc(AbsArch, i)
    BY <1>1, RetirePc
  <1> QED BY <1>0, <1>1, <1>2, NextPcIs

(* So it is enough that the text of the programs shows it, as that of the  *)
(* programs of the run on the units does (core_top_pipelined.sv:180-187).  *)
THEOREM MarkedRegionsRespected ==
  PathsTame /\ MarkersFallThrough => (ESpec /\ []MachineTame => BoundRespected)
  <1> SUFFICES ASSUME PathsTame, MarkersFallThrough
               PROVE ESpec /\ []MachineTame => BoundRespected
    OBVIOUS
  <1>1. EInit => Init
    BY DEF EInit
  <1>2. [ENext]_evars => [Next]_vars
    BY DEF ENext, evars
  <1>3. Spec /\ []MachineTame => []Tame
    BY TameEverywhere
  <1>4. CoreInv /\ Tame /\ [Next]_vars => CoreInv'
    BY StepCore
  <1>5. CoreInv => MarkersOnPath
    BY MarkersByText
  <1>6. ESpec /\ []MachineTame /\ []MarkersOnPath => BoundRespected
    BY BoundAlwaysRespected
  <1> QED BY <1>1, <1>2, <1>3, <1>4, <1>5, <1>6, InitCore, PTL DEF ESpec, Spec

-----------------------------------------------------------------------------
(* The commit log.                                                         *)

(* The lines of what has left EX and is not printed: in WB, at the write   *)
(* port, and in MEM.                                                       *)
WbLine   == Line(memwb.reg_write /\ memwb.rd # 0, RegLine(memwb.rd, WbData))
FireLine == Line(pend2_fire.valid, RegLine(pend2_fire.addr, pend2_fire.data))
WbPend2  == Line(memwb.pend2.valid, RegLine(memwb.pend2.addr, memwb.pend2.data))
MemStore ==
  Line(exmem.mem_write, MemLine(exmem.alu_result, Truncate(exmem.mem_width, exmem.rs2_data)))
MemWrite == Line(exmem.reg_write /\ exmem.rd # 0, RegLine(exmem.rd, MemResult))
MemPend2 == Line(exmem.pend2.valid, RegLine(exmem.pend2.addr, exmem.pend2.data))

LinesInWb  == (WbLine \o FireLine) \o WbPend2
LinesInMem == (MemStore \o MemWrite) \o MemPend2

(* They are what is due.                                                   *)
LogInv ==
  /\ CoreInv
  /\ memwb.pend2.valid => ~exmem.mem_write
  /\ due = LinesInWb \o LinesInMem

(* A line or none.                                                         *)
LEMMA LineOrNone ==
  ASSUME NEW c, NEW l
  PROVE  /\ Line(c, l) = <<>> \/ Line(c, l) = <<l>>
         /\ ~c => Line(c, l) = <<>>
         /\ c => Line(c, l) = <<l>>
         /\ \A S : l \in S => Line(c, l) \in Seq(S)
         /\ Len(Line(c, l)) \in {0, 1}
  BY DEF Line

(* What is printed first and what is left.                                 *)
LEMMA PrintedFirst ==
  ASSUME NEW S, NEW p \in Seq(S), NEW q \in Seq(S)
  PROVE  /\ p = SubSeq(p \o q, 1, Len(p))
         /\ SubSeq(p \o q, Len(p) + 1, Len(p \o q)) = q
         /\ Len(p \o q) = Len(p) + Len(q) /\ p \o q \in Seq(S)
  OBVIOUS

(* The length of three in a row.                                           *)
LEMMA ThreeLong ==
  ASSUME NEW S, NEW p \in Seq(S), NEW q \in Seq(S), NEW r \in Seq(S)
  PROVE  (p \o q) \o r \in Seq(S) /\ Len((p \o q) \o r) = Len(p) + Len(q) + Len(r)
  <1>1. PICK x \in Seq(S) : x = p \o q /\ Len(x) = Len(p) + Len(q)
    BY PrintedFirst, Zenon
  <1>2. Len(x \o r) = Len(x) + Len(r) /\ x \o r \in Seq(S)
    BY PrintedFirst
  <1> QED BY <1>1, <1>2

(* Sequences in a row.                                                     *)
Then(a, b) == a \o b

LEMMA InARow ==
  ASSUME NEW S, NEW a \in Seq(S), NEW b \in Seq(S), NEW c \in Seq(S)
  PROVE  Then(Then(a, b), c) = Then(a, Then(b, c)) /\ Then(a, b) \in Seq(S)
  BY DEF Then

(* What is in MEM moves on, and what was in EX is in MEM.                  *)
LEMMA LinesMove ==
  ASSUME CoreInv, ClockEdge, ~MuldivActive
  PROVE  /\ WbLine' = MemWrite /\ FireLine' = WbPend2 /\ WbPend2' = MemPend2
         /\ exmem'.mem_write = idex.ctl.mem_write /\ exmem'.mem_width = idex.ctl.mem_width
         /\ ~idex.ctl.is_csr => exmem'.alu_result = AluResult
         /\ exmem'.rs2_data = FwdB /\ exmem'.rd = idex.rd
         /\ exmem'.reg_write = idex.ctl.reg_write /\ exmem'.pend2 = idex.pend2
         /\ memwb'.pend2 = exmem.pend2
  <1>1. WbData' = MemResult
    BY ResultMovesOn DEF CoreInv, FreezeInv, DataInv
  <1>2. /\ memwb'.reg_write = exmem.reg_write /\ memwb'.rd = exmem.rd
        /\ memwb'.pend2 = exmem.pend2 /\ pend2_fire' = memwb.pend2
    BY DEF ClockEdge, NextMemWb, NextPend2Fire
  <1>3. /\ exmem'.mem_write = idex.ctl.mem_write /\ exmem'.mem_width = idex.ctl.mem_width
        /\ ~idex.ctl.is_csr => exmem'.alu_result = AluResult
        /\ exmem'.rs2_data = FwdB /\ exmem'.rd = idex.rd
        /\ exmem'.reg_write = idex.ctl.reg_write /\ exmem'.pend2 = idex.pend2
    BY DEF ClockEdge, NextExMem
  <1> QED BY <1>1, <1>2, <1>3 DEF WbLine, MemWrite, FireLine, WbPend2, MemPend2

(* A frozen edge leaves them where they are.                               *)
LEMMA LinesStay ==
  ASSUME exmem' = exmem, memwb' = memwb, pend2_fire' = pend2_fire, mem_rdata' = mem_rdata,
         dmem' = dmem
  PROVE  /\ WbLine' = WbLine /\ FireLine' = FireLine /\ WbPend2' = WbPend2
         /\ MemStore' = MemStore /\ MemWrite' = MemWrite /\ MemPend2' = MemPend2
  <1>1. WbData' = WbData /\ MemResult' = MemResult
    BY DEF WbData, MemResult, MemForwardValue
  <1> QED BY <1>1 DEF WbLine, FireLine, WbPend2, MemStore, MemWrite, MemPend2

(* Six short sequences.                                                    *)
LinesTyped ==
  \E S : /\ WbLine \in Seq(S) /\ FireLine \in Seq(S) /\ WbPend2 \in Seq(S)
         /\ MemStore \in Seq(S) /\ MemWrite \in Seq(S) /\ MemPend2 \in Seq(S)

LEMMA LinesAreSequences == LinesTyped
  <1> DEFINE S == {RegLine(memwb.rd, WbData), RegLine(pend2_fire.addr, pend2_fire.data),
                   RegLine(memwb.pend2.addr, memwb.pend2.data),
                   MemLine(exmem.alu_result, Truncate(exmem.mem_width, exmem.rs2_data)),
                   RegLine(exmem.rd, MemResult), RegLine(exmem.pend2.addr, exmem.pend2.data)}
  <1>1. \A c, l : l \in S => Line(c, l) \in Seq(S)
    BY LineOrNone
  <1>2. /\ RegLine(memwb.rd, WbData) \in S /\ RegLine(pend2_fire.addr, pend2_fire.data) \in S
        /\ RegLine(memwb.pend2.addr, memwb.pend2.data) \in S
        /\ MemLine(exmem.alu_result, Truncate(exmem.mem_width, exmem.rs2_data)) \in S
        /\ RegLine(exmem.rd, MemResult) \in S
        /\ RegLine(exmem.pend2.addr, exmem.pend2.data) \in S
    OBVIOUS
  <1> HIDE DEF S
  <1>3. /\ WbLine \in Seq(S) /\ FireLine \in Seq(S) /\ WbPend2 \in Seq(S)
        /\ MemStore \in Seq(S) /\ MemWrite \in Seq(S) /\ MemPend2 \in Seq(S)
    BY <1>1, <1>2 DEF WbLine, FireLine, WbPend2, MemStore, MemWrite, MemPend2
  <1> QED BY <1>3 DEF LinesTyped

(* So what is due is a sequence.                                           *)
LEMMA DueTyped ==
  ASSUME LogInv
  PROVE  \E S : due \in Seq(S)
  <1>1. PICK S : /\ WbLine \in Seq(S) /\ FireLine \in Seq(S) /\ WbPend2 \in Seq(S)
                 /\ MemStore \in Seq(S) /\ MemWrite \in Seq(S) /\ MemPend2 \in Seq(S)
    BY LinesAreSequences DEF LinesTyped
  <1>2. LinesInWb \in Seq(S) /\ LinesInMem \in Seq(S)
    BY <1>1 DEF LinesInWb, LinesInMem
  <1> QED BY <1>2 DEF LogInv

(* A second write is alone.                                                *)
LEMMA PendingAlone ==
  ASSUME LogInv
  PROVE  /\ memwb.pend2.valid => FireLine = <<>> /\ MemStore = <<>> /\ MemWrite = <<>>
                                  /\ MemPend2 = <<>>
         /\ pend2_fire.valid => WbLine = <<>> /\ WbPend2 = <<>> /\ MemPend2 = <<>>
         /\ ~memwb.pend2.valid => WbPend2 = <<>>
         /\ ~pend2_fire.valid => FireLine = <<>>
  <1>1. Pend2Protocol /\ (memwb.pend2.valid => ~exmem.mem_write)
    BY DEF LogInv, CoreInv, RegsInv, Pend2Inv
  <1>2. /\ memwb.pend2.valid => ~pend2_fire.valid /\ ~exmem.reg_write /\ ~exmem.pend2.valid
        /\ pend2_fire.valid => ~memwb.reg_write /\ ~memwb.pend2.valid /\ ~exmem.pend2.valid
    BY <1>1 DEF Pend2Protocol, Pend2None, Pend2InEx, Pend2InMem, Pend2InWb, Pend2Fires,
                ExIdle, MemIdle, WbIdle
  <1>3. \A c, l : ~c => Line(c, l) = <<>>
    BY LineOrNone
  <1>4. /\ ~pend2_fire.valid => FireLine = <<>>
        /\ ~memwb.pend2.valid => WbPend2 = <<>>
        /\ ~exmem.pend2.valid => MemPend2 = <<>>
        /\ ~exmem.mem_write => MemStore = <<>>
    BY <1>3 DEF FireLine, WbPend2, MemPend2, MemStore
  <1>5. /\ ~exmem.reg_write => MemWrite = <<>>
        /\ ~memwb.reg_write => WbLine = <<>>
    BY <1>3 DEF WbLine, MemWrite
  <1> QED BY <1>1, <1>2, <1>4, <1>5

(* What is printed at this edge, and what waits.                           *)
LEMMA DueSplits ==
  ASSUME LogInv, ~MuldivActive
  PROVE  /\ PipelineLines = (WbLine \o FireLine) \o MemStore
         /\ due = PipelineLines \o ((MemWrite \o WbPend2) \o MemPend2)
  <1>1. PipelineLines = (WbLine \o FireLine) \o MemStore
    BY DEF PipelineLines, WbLine, FireLine, MemStore, Line
  <1>2. PICK S : /\ WbLine \in Seq(S) /\ FireLine \in Seq(S) /\ WbPend2 \in Seq(S)
                 /\ MemStore \in Seq(S) /\ MemWrite \in Seq(S) /\ MemPend2 \in Seq(S)
    BY LinesAreSequences DEF LinesTyped
  <1>3. due = ((WbLine \o FireLine) \o WbPend2) \o ((MemStore \o MemWrite) \o MemPend2)
    BY DEF LogInv, LinesInWb, LinesInMem
  <1>4. PICK x \in Seq(S) : x = WbLine \o FireLine
    BY <1>2, ConcatProperties
  <1>5. CASE memwb.pend2.valid
    <2>1. MemStore = <<>> /\ MemWrite = <<>> /\ MemPend2 = <<>>
      BY <1>5, PendingAlone
    <2>2. /\ (x \o WbPend2) \o ((<<>> \o <<>>) \o <<>>) = x \o WbPend2
          /\ (x \o <<>>) \o ((<<>> \o WbPend2) \o <<>>) = x \o WbPend2
      BY <1>2, ConcatEmptySeq, ConcatProperties
    <2> QED BY <1>1, <1>3, <1>4, <2>1, <2>2
  <1>6. CASE ~memwb.pend2.valid
    <2>1. WbPend2 = <<>>
      BY <1>6, PendingAlone
    <2>2. x \o ((MemStore \o MemWrite) \o MemPend2) = (x \o MemStore) \o (MemWrite \o MemPend2)
      <3>1. Then(x, Then(Then(MemStore, MemWrite), MemPend2)) =
              Then(Then(x, MemStore), Then(MemWrite, MemPend2))
        <4> HIDE DEF MemStore, MemWrite, MemPend2
        <4> QED BY <1>2, InARow
      <3> QED BY <3>1, Zenon DEF Then
    <2>3. x \o <<>> = x /\ MemWrite \o <<>> = MemWrite
      BY <1>2, ConcatEmptySeq
    <2> QED BY <1>1, <1>3, <1>4, <2>1, <2>2, <2>3, Zenon
  <1> QED BY <1>5, <1>6

(* What leaves EX, as the single-cycle core prints it.                     *)
LEMMA CoreLinesAre ==
  ASSUME NEW s, NEW i
  PROVE  /\ Decode(i).reg_write /\ i.rd # 0 /\ ~Decode(i).mem_write =>
              CoreLines(s, i) = <<RegLine(i.rd, SC!RdData(s, i))>>
         /\ ~(Decode(i).reg_write /\ i.rd # 0) /\ ~Decode(i).mem_write =>
              CoreLines(s, i) = <<>>
  <1>1. ~Decode(i).mem_write =>
          CoreLines(s, i) = Line(Decode(i).reg_write /\ i.rd # 0, RegLine(i.rd, SC!RdData(s, i)))
                              \o <<>>
    BY DEF CoreLines, Line
  <1>2. \A c, l : Line(c, l) \o <<>> = Line(c, l)
    <2> TAKE c, l
    <2>1. Line(c, l) \in Seq({l})
      BY LineOrNone
    <2> QED BY <2>1, ConcatEmptySeq
  <1> QED BY <1>1, <1>2, LineOrNone

(* What MEM has got, as the pipelined core will print it.                  *)
LEMMA EnteredIs ==
  ASSUME CoreInv, ClockEdge, ~MuldivActive, ~idex.ctl.mem_write
  PROVE  LinesInMem' = Line(idex.ctl.reg_write /\ idex.rd # 0, RegLine(idex.rd, MemResult'))
                     \o Line(idex.pend2.valid, RegLine(idex.pend2.addr, idex.pend2.data))
  <1>1. /\ exmem'.mem_write = idex.ctl.mem_write /\ exmem'.rd = idex.rd
        /\ exmem'.reg_write = idex.ctl.reg_write /\ exmem'.pend2 = idex.pend2
    BY LinesMove
  <1>2. MemStore' = <<>>
    BY <1>1 DEF MemStore, Line
  <1>3. MemWrite' = Line(idex.ctl.reg_write /\ idex.rd # 0, RegLine(idex.rd, MemResult'))
    BY <1>1 DEF MemWrite
  <1>4. MemPend2' = Line(idex.pend2.valid, RegLine(idex.pend2.addr, idex.pend2.data))
    BY <1>1 DEF MemPend2
  <1>5. \A l, c : <<>> \o Line(c, l) = Line(c, l)
    <2> TAKE l, c
    <2>1. Line(c, l) \in Seq({l})
      BY LineOrNone
    <2> QED BY <2>1, ConcatEmptySeq
  <1> QED BY <1>2, <1>3, <1>4, <1>5 DEF LinesInMem

(* A single instruction.                                                   *)
LEMMA SingleIsLogged ==
  ASSUME CoreInv, ClockEdge, Tame, ProgramsTame, ~MuldivActive, ExReal, ExSingle
  PROVE  LeavingLines = LinesInMem'
  <1> DEFINE i == idex.instr
  <1>0. RegsInv /\ FreezeInv /\ StreamInv /\ DataInv
    BY DEF CoreInv, FreezeInv
  <1>1. /\ idex.pc = AbsPc /\ i = At(AbsArch.pc) /\ idex.ctl = Decode(i) /\ idex.imm = i.imm
        /\ idex.rd = i.rd /\ ~ExIdiom3 /\ ~idex.pend2.valid /\ ~idex.fuse4.valid
    BY OldestPc, ArchParts DEF ExSingle, ExIdiom3
  <1>2. ~ExFused
    BY <1>1 DEF ExFused
  <1>3. LeavingLines = CoreLines(AbsArch, i)
    BY <1>1, <1>2 DEF LeavingLines, At
  <1>4. MemResult' = SC!RdData(AbsArch, i)
    BY <1>0, SingleRetires DEF Tame, ProgramsTame, PathsTame
  <1>5. CASE ~idex.ctl.mem_write
    <2>1. LinesInMem' = Line(idex.ctl.reg_write /\ idex.rd # 0, RegLine(idex.rd, MemResult'))
                      \o Line(idex.pend2.valid, RegLine(idex.pend2.addr, idex.pend2.data))
      BY <1>5, EnteredIs
    <2>2. CoreLines(AbsArch, i) =
            Line(Decode(i).reg_write /\ i.rd # 0, RegLine(i.rd, SC!RdData(AbsArch, i))) \o <<>>
      BY <1>1, <1>5 DEF CoreLines, Line
    <2>3. Line(idex.pend2.valid, RegLine(idex.pend2.addr, idex.pend2.data)) = <<>>
      BY <1>1, LineOrNone
    <2> HIDE DEF i
    <2> QED BY <1>1, <1>3, <1>4, <2>1, <2>2, <2>3
  <1>6. CASE idex.ctl.mem_write
    <2>1. ~idex.ctl.reg_write /\ ~idex.ctl.is_csr
      <3>1. i.op = "STORE"
        <4>1. Decode(i).mem_write = (i.op = "STORE")
          BY DEF Decode
        <4> HIDE DEF i
        <4> QED BY <1>1, <1>6, <4>1, Zenon
      <3>2. ~Decode(i).reg_write
        BY <3>1 DEF Decode, IsCsr
      <3>3. ~Decode(i).is_csr
        BY <3>1 DEF Decode, IsCsr
      <3> QED BY <1>1, <3>2, <3>3
    <2>2. /\ AluResult = Add(AbsArch.regs[i.rs1], i.imm) /\ FwdB = AbsArch.regs[i.rs2]
      BY <1>0, <1>1, <1>6, AluIsArch DEF ExSingle
    <2>3. MemStore' = <<MemLine(AluResult, Truncate(idex.ctl.mem_width, FwdB))>>
      BY <1>6, <2>1, LinesMove DEF MemStore, Line
    <2>4. MemWrite' = <<>> /\ MemPend2' = <<>>
      <3>1. ~exmem'.reg_write /\ ~exmem'.pend2.valid
        BY <1>1, <2>1, LinesMove
      <3> QED BY <3>1 DEF MemWrite, MemPend2, Line
    <2>5. CoreLines(AbsArch, i) =
            <<>> \o <<MemLine(Add(AbsArch.regs[i.rs1], i.imm),
                              Truncate(Decode(i).mem_width, AbsArch.regs[i.rs2]))>>
      BY <1>1, <1>6, <2>1 DEF CoreLines, Line
    <2>6. \A l : <<>> \o <<l>> = (<<l>> \o <<>>) \o <<>>
      OBVIOUS
    <2> HIDE DEF i
    <2> QED BY <1>1, <1>3, <2>2, <2>3, <2>4, <2>5, <2>6 DEF LinesInMem
  <1> QED BY <1>5, <1>6

(* A pair, the first of which writes a register.                           *)
LEMMA PairLines ==
  ASSUME ExReal, ExPair, idex.instr.op \in {"LUI", "AUIPC", "OP", "OPIMM"}, idex.instr.rd # 0
  PROVE  /\ ~ExFused => LeavingLines = <<RegLine(idex.instr.rd, SC!RdData(AbsArch, idex.instr))>>
         /\ ExFused /\ ExNext.op = "BRANCH" =>
              LeavingLines = <<RegLine(idex.instr.rd, SC!RdData(AbsArch, idex.instr))>>
         /\ ExFused /\ ExNext.op \in {"OPIMM", "LOAD", "JALR"} =>
              LeavingLines =
                Line(ExNext.rd # 0, RegLine(ExNext.rd, SC!RdData(SC!Retire(AbsArch), ExNext)))
                  \o IF ExNext.rd = idex.instr.rd THEN <<>>
                     ELSE <<RegLine(idex.instr.rd, SC!RdData(AbsArch, idex.instr))>>
  <1> DEFINE i == idex.instr
             n == ExNext
             first == CoreLines(AbsArch, i)
             later == CoreLines(SC!Retire(AbsArch), n)
  <1>1. imem[MemIndex(AbsArch.pc)] = i /\ imem[MemIndex(Add(AbsArch.pc, 4))] = n
    BY OldestPc, ArchParts DEF ExPair, ExNext, At
  <1>2. first = <<RegLine(i.rd, SC!RdData(AbsArch, i))>>
    BY DecodedFirst, CoreLinesAre
  <1>3. LeavingLines = IF ~ExFused THEN first
                       ELSE later \o IF later # <<>> /\ i.rd = n.rd THEN <<>> ELSE first
    BY <1>1 DEF LeavingLines
  <1>4. n.op = "BRANCH" => later = <<>>
    <2>1. n.op = "BRANCH" => ~Decode(n).reg_write /\ ~Decode(n).mem_write
      BY DEF Decode, IsCsr
    <2> QED BY <2>1, CoreLinesAre
  <1>5. n.op \in {"OPIMM", "LOAD", "JALR"} =>
          later = Line(n.rd # 0, RegLine(n.rd, SC!RdData(SC!Retire(AbsArch), n)))
    <2>1. n.op \in {"OPIMM", "LOAD", "JALR"} => Decode(n).reg_write /\ ~Decode(n).mem_write
      BY DEF Decode, IsCsr
    <2> HIDE DEF n
    <2> QED BY <2>1, CoreLinesAre, LineOrNone
  <1>6. \A l : <<>> \o <<l>> = <<l>>
    OBVIOUS
  <1>7. \A l : <<l>> # <<>>
    OBVIOUS
  <1>8. ASSUME ExFused, n.op \in {"OPIMM", "LOAD", "JALR"}
        PROVE  LeavingLines =
                 Line(n.rd # 0, RegLine(n.rd, SC!RdData(SC!Retire(AbsArch), n)))
                   \o IF n.rd = i.rd THEN <<>> ELSE <<RegLine(i.rd, SC!RdData(AbsArch, i))>>
    <2>1. n.rd = i.rd => later # <<>>
      <3>1. n.rd = i.rd => later = <<RegLine(n.rd, SC!RdData(SC!Retire(AbsArch), n))>>
        BY <1>5, <1>8, LineOrNone
      <3> QED BY <1>7, <3>1
    <2> HIDE DEF i, n, first, later
    <2> QED BY <1>2, <1>3, <1>5, <1>8, <2>1
  <1>9. ~ExFused => LeavingLines = first
    BY <1>3
  <1>10. ExFused /\ n.op = "BRANCH" => LeavingLines = first
    <2> HIDE DEF i, n, first, later
    <2> QED BY <1>2, <1>3, <1>4, <1>6
  <1> QED BY <1>2, <1>8, <1>9, <1>10

(* What enters MEM with a pair, if EX writes a register.                   *)
LEMMA PairEnters ==
  ASSUME CoreInv, ClockEdge, ~MuldivActive, idex.ctl.reg_write, ~idex.ctl.mem_write
  PROVE  /\ ~idex.pend2.valid => LinesInMem' = Line(idex.rd # 0, RegLine(idex.rd, MemResult'))
         /\ idex.pend2.valid => LinesInMem' = Line(idex.rd # 0, RegLine(idex.rd, MemResult'))
                                            \o <<RegLine(idex.pend2.addr, idex.pend2.data)>>
  <1>1. LinesInMem' = Line(idex.ctl.reg_write /\ idex.rd # 0, RegLine(idex.rd, MemResult'))
                    \o Line(idex.pend2.valid, RegLine(idex.pend2.addr, idex.pend2.data))
    BY EnteredIs
  <1>2. Line(idex.ctl.reg_write /\ idex.rd # 0, RegLine(idex.rd, MemResult')) =
          Line(idex.rd # 0, RegLine(idex.rd, MemResult'))
    BY DEF Line
  <1>3. /\ ~idex.pend2.valid =>
             Line(idex.pend2.valid, RegLine(idex.pend2.addr, idex.pend2.data)) = <<>>
        /\ idex.pend2.valid =>
             Line(idex.pend2.valid, RegLine(idex.pend2.addr, idex.pend2.data)) =
               <<RegLine(idex.pend2.addr, idex.pend2.data)>>
    BY LineOrNone
  <1>4. \A c, l : Line(c, l) \o <<>> = Line(c, l)
    <2> TAKE c, l
    <2>1. Line(c, l) \in Seq({l})
      BY LineOrNone
    <2> QED BY <2>1, ConcatEmptySeq
  <1> QED BY <1>1, <1>2, <1>3, <1>4

(* An ADDI of 0 leaves the upper immediate as it was.                      *)
LEMMA AddiOfNothing ==
  ASSUME CoreInv, ClockEdge, Aligned, ~MuldivActive, ExReal, ExAddi, idex.imm = idex.instr.imm
  PROVE  MemResult' = SC!RdData(AbsArch, idex.instr)
  <1> DEFINE i == idex.instr
  <1>0. DataInv
    BY DEF CoreInv, FreezeInv
  <1>1. /\ i.op \in {"LUI", "AUIPC"} /\ idex.pc = AbsPc /\ idex.ctl = Decode(i)
        /\ idex.imm = i.imm
    BY OldestPc DEF ExAddi, Pattern1, Pattern2, AddiOnto
  <1>2. /\ ~idex.ctl.is_csr /\ ~idex.ctl.is_muldiv
        /\ idex.ctl.result_src = IF i.op = "LUI" THEN "imm" ELSE "alu"
    BY <1>1, DecodedFirst
  <1>3. MemResult' = ExResult
    BY <1>0, <1>2, ResultMovesToMem DEF ResultPaths
  <1>4. i.op = "AUIPC" => AluResult = ArchAlu(AbsArch, i)
    <2>1. i.op = "AUIPC" => Decode(i).src_a_pc /\ Decode(i).src_b_imm
      BY DecodedFirst
    <2> HIDE DEF i
    <2> QED BY <1>1, <2>1, ArchParts DEF AluResult, ArchAlu
  <1> QED BY <1>1, <1>2, <1>3, <1>4, RdDataIs DEF ExResult

(* Idioms 1 and 2: one line, of the second.                                *)
LEMMA AddiIsLogged ==
  ASSUME CoreInv, ClockEdge, Tame, ProgramsTame, ~MuldivActive, ExReal, ExAddi
  PROVE  LeavingLines = LinesInMem'
  <1> DEFINE i == idex.instr
             n == ExNext
  <1>0. RegsInv /\ FreezeInv /\ StreamInv /\ DataInv
    BY DEF CoreInv, FreezeInv
  <1>1. /\ ExPair /\ idex.ctl = Decode(i) /\ idex.rd = i.rd /\ ~idex.pend2.valid
        /\ idex.imm = Add(i.imm, n.imm) /\ ~idex.fuse4.valid
    BY DEF ExAddi
  <1>2. i.op \in {"LUI", "AUIPC"} /\ n.op = "OPIMM" /\ n.f3 = 0 /\ i.rd # 0 /\ n.rd = i.rd
    BY DEF ExAddi, Pattern1, Pattern2, AddiOnto
  <1>3. idex.ctl.reg_write /\ ~idex.ctl.mem_write
    BY <1>1, <1>2, DecodedFirst
  <1>4. LinesInMem' = <<RegLine(i.rd, MemResult')>>
    BY <1>1, <1>2, <1>3, PairEnters, LineOrNone
  <1>5. MemResult' = SC!RdData(SC!Retire(AbsArch), n)
    BY <1>0, AddiRetires DEF Tame, ProgramsTame, PathsTame
  <1>6. CASE ExFused
    <2>1. LeavingLines = Line(n.rd # 0, RegLine(n.rd, SC!RdData(SC!Retire(AbsArch), n))) \o <<>>
      BY <1>1, <1>2, <1>6, PairLines
    <2>2. Line(n.rd # 0, RegLine(n.rd, SC!RdData(SC!Retire(AbsArch), n))) =
            <<RegLine(i.rd, MemResult')>>
      BY <1>2, <1>5, LineOrNone
    <2>3. \A l : <<l>> \o <<>> = <<l>>
      OBVIOUS
    <2> QED BY <1>4, <2>1, <2>2, <2>3
  <1>7. CASE ~ExFused
    <2>1. LeavingLines = <<RegLine(i.rd, SC!RdData(AbsArch, i))>>
      BY <1>1, <1>2, <1>7, PairLines
    <2>2. SC!RdData(AbsArch, i) = MemResult'
      BY <1>1, <1>2, <1>7, AddiOfNothing DEF Tame, ExFused
    <2> QED BY <1>4, <2>1, <2>2
  <1> QED BY <1>6, <1>7

(* Idiom 4: one line, of the comparison.                                   *)
LEMMA CompareIsLogged ==
  ASSUME CoreInv, ClockEdge, Tame, ProgramsTame, ~MuldivActive, ExReal, ExCompare
  PROVE  LeavingLines = LinesInMem'
  <1> DEFINE i == idex.instr
             n == ExNext
  <1>0. RegsInv /\ FreezeInv /\ StreamInv /\ DataInv
    BY DEF CoreInv, FreezeInv
  <1>1. /\ ExPair /\ idex.ctl = Decode(i) /\ idex.rd = i.rd /\ ~idex.pend2.valid
        /\ idex.fuse4.valid
    BY DEF ExCompare
  <1>2. i.op \in {"OP", "OPIMM"} /\ n.op = "BRANCH" /\ i.rd # 0
    BY <1>0, <1>1, PairInProgram DEF ExCompare, Pattern4, ProgramsTame, PathsTame
  <1>3. idex.ctl.reg_write /\ ~idex.ctl.mem_write
    BY <1>1, <1>2, DecodedFirst
  <1>4. LinesInMem' = <<RegLine(i.rd, MemResult')>>
    BY <1>1, <1>2, <1>3, PairEnters, LineOrNone
  <1>5. MemResult' = SC!RdData(AbsArch, i)
    BY <1>0, CompareRetires DEF Tame, ProgramsTame, PathsTame
  <1>6. ExFused
    BY <1>1 DEF ExFused
  <1>7. LeavingLines = <<RegLine(i.rd, SC!RdData(AbsArch, i))>>
    BY <1>1, <1>2, <1>6, PairLines
  <1> QED BY <1>4, <1>5, <1>7

(* Idioms 3 and 5: the line of the second, and then the deferred one.      *)
LEMMA DeferredIsLogged ==
  ASSUME CoreInv, ClockEdge, Tame, ProgramsTame, ~MuldivActive, ExReal, ExCall \/ ExIndexed
  PROVE  LeavingLines = LinesInMem'
  <1> DEFINE i == idex.instr
             n == ExNext
  <1>0. RegsInv /\ FreezeInv /\ StreamInv /\ DataInv
    BY DEF CoreInv, FreezeInv
  <1>1. /\ ExPair /\ idex.rd = n.rd /\ idex.pend2.valid /\ idex.pend2.addr = i.rd
        /\ i.op \in {"AUIPC", "OP", "OPIMM"} /\ i.rd # 0 /\ n.op \in {"LOAD", "JALR"}
    <2>1. CASE ExCall
      BY <2>1 DEF ExCall, Pattern3
    <2>2. CASE ExIndexed
      BY <2>2 DEF ExIndexed, Pattern5
    <2> QED BY <2>1, <2>2
  <1>2. n.rd # i.rd
    BY <1>0, <1>1, PairInProgram DEF ExCall, ExIndexed, ProgramsTame, PathsTame
  <1>3. idex.ctl.reg_write /\ ~idex.ctl.mem_write
    <2>1. Decode(i).reg_write /\ ~Decode(i).mem_write
      BY <1>1, DecodedFirst
    <2>2. {"reg_write", "mem_write"} \subseteq DOMAIN Decode(i)
      BY DEF Decode
    <2>3. CASE ExCall
      BY <2>1, <2>2, <2>3 DEF ExCall
    <2>4. CASE ExIndexed
      BY <2>1, <2>2, <2>4 DEF ExIndexed
    <2> QED BY <2>3, <2>4
  <1>4. LinesInMem' = Line(n.rd # 0, RegLine(n.rd, MemResult')) \o <<RegLine(i.rd, idex.pend2.data)>>
    BY <1>1, <1>3, PairEnters
  <1>5. /\ MemResult' = SC!RdData(SC!Retire(AbsArch), n)
        /\ idex.pend2.data = SC!RdData(AbsArch, i)
    BY <1>0, CallRetires, IndexedRetires DEF Tame, ProgramsTame, PathsTame
  <1>6. ExFused
    BY <1>1 DEF ExFused
  <1>7. LeavingLines = Line(n.rd # 0, RegLine(n.rd, SC!RdData(SC!Retire(AbsArch), n)))
                         \o <<RegLine(i.rd, SC!RdData(AbsArch, i))>>
    BY <1>1, <1>2, <1>6, PairLines
  <1> QED BY <1>4, <1>5, <1>7

(* What leaves EX is what MEM has yet to print.                            *)
LEMMA LeavingEnters ==
  ASSUME CoreInv, ClockEdge, Tame, ProgramsTame, ~MuldivActive
  PROVE  (IF LeavesEx THEN LeavingLines ELSE <<>>) = LinesInMem'
  <1>0. ExHolds
    BY DEF CoreInv, StreamInv
  <1>1. CASE ExReal
    <2>1. LeavesEx
      BY <1>1 DEF LeavesEx
    <2>2. LeavingLines = LinesInMem'
      BY <1>0, <1>1, SingleIsLogged, AddiIsLogged, CompareIsLogged, DeferredIsLogged DEF ExHolds
    <2> QED BY <2>1, <2>2
  <1>2. CASE ~ExReal
    <2>1. ExEmpty /\ ~LeavesEx
      BY <1>0, <1>2 DEF ExHolds, LeavesEx
    <2>2. ~idex.ctl.mem_write
      BY <2>1, EmptyIsHarmless
    <2>3. LinesInMem' = Line(idex.ctl.reg_write /\ idex.rd # 0, RegLine(idex.rd, MemResult'))
                      \o Line(idex.pend2.valid, RegLine(idex.pend2.addr, idex.pend2.data))
      BY <2>2, EnteredIs
    <2>4. ~(idex.ctl.reg_write /\ idex.rd # 0) /\ ~idex.pend2.valid
      BY <2>1 DEF ExEmpty
    <2>5. <<>> \o <<>> = <<>>
      OBVIOUS
    <2>6. \A c, l : ~c => Line(c, l) = <<>>
      BY LineOrNone
    <2>7. /\ Line(idex.ctl.reg_write /\ idex.rd # 0, RegLine(idex.rd, MemResult')) = <<>>
          /\ Line(idex.pend2.valid, RegLine(idex.pend2.addr, idex.pend2.data)) = <<>>
      BY <2>4, <2>6
    <2> QED BY <2>1, <2>3, <2>5, <2>7
  <1> QED BY <1>1, <1>2

(* Nothing is due after reset.                                             *)
LEMMA InitLog == LInit => LogInv
  <1> SUFFICES ASSUME LInit PROVE LogInv
    OBVIOUS
  <1>1. CoreInv
    BY InitCore DEF LInit
  <1>2. exmem = ExMemReset /\ memwb = MemWbReset /\ pend2_fire = NoPend2 /\ due = <<>>
    BY DEF LInit, Init
  <1>3. /\ ~exmem.pend2.valid /\ ~memwb.pend2.valid /\ ~pend2_fire.valid
        /\ ~exmem.reg_write /\ ~memwb.reg_write /\ ~exmem.mem_write
    BY <1>2 DEF ExMemReset, MemWbReset, NoPend2
  <1>4. \A c, l : ~c => Line(c, l) = <<>>
    BY LineOrNone
  <1>5. /\ WbLine = <<>> /\ FireLine = <<>> /\ WbPend2 = <<>>
        /\ MemStore = <<>> /\ MemWrite = <<>> /\ MemPend2 = <<>>
    BY <1>3, <1>4 DEF WbLine, FireLine, WbPend2, MemStore, MemWrite, MemPend2
  <1>6. <<>> \o <<>> = <<>>
    OBVIOUS
  <1> QED BY <1>1, <1>2, <1>3, <1>5, <1>6 DEF LogInv, LinesInWb, LinesInMem

(* A moving edge prints what is at its end and takes in what leaves EX.    *)
LEMMA MovingLog ==
  ASSUME LogInv, LNext, Tame, ProgramsTame, ~MuldivActive
  PROVE  LogInv'
  <1>1. CoreInv /\ ClockEdge
    BY DEF LogInv, LNext, Next
  <1>2. CoreInv'
    BY <1>1, StepCore DEF Next, ProgramsTame
  <1>3. /\ WbLine' = MemWrite /\ FireLine' = WbPend2 /\ WbPend2' = MemPend2
        /\ exmem'.mem_write = idex.ctl.mem_write /\ memwb'.pend2 = exmem.pend2
    BY <1>1, LinesMove
  <1>4. memwb'.pend2.valid => ~exmem'.mem_write
    <2>1. exmem.pend2.valid => idex = IdExBubble
      BY <1>1 DEF CoreInv, RegsInv, OperandInv
    <2>2. ~IdExBubble.ctl.mem_write
      BY DEF IdExBubble, NoControl
    <2> QED BY <1>3, <2>1, <2>2
  <1>5. PICK S : /\ WbLine \in Seq(S) /\ FireLine \in Seq(S) /\ WbPend2 \in Seq(S)
                 /\ MemStore \in Seq(S) /\ MemWrite \in Seq(S) /\ MemPend2 \in Seq(S)
    BY LinesAreSequences DEF LinesTyped
  <1>6. SubSeq(due, Len(PipelineLines) + 1, Len(due)) = (MemWrite \o WbPend2) \o MemPend2
    <2>1. PICK q \in Seq(S) : q = (MemWrite \o WbPend2) \o MemPend2
      BY <1>5, ConcatProperties
    <2>2. PICK p \in Seq(S) : p = PipelineLines
      <3>1. (WbLine \o FireLine) \o MemStore \in Seq(S)
        BY <1>5, ConcatProperties
      <3> QED BY <3>1, DueSplits
    <2>3. due = p \o q
      BY <2>1, <2>2, DueSplits
    <2>4. SubSeq(p \o q, Len(p) + 1, Len(p \o q)) = q
      BY PrintedFirst
    <2> QED BY <2>1, <2>2, <2>3, <2>4
  <1>7. due' = ((MemWrite \o WbPend2) \o MemPend2) \o LinesInMem'
    <2>1. due' = SubSeq(due, Len(PipelineLines) + 1, Len(due))
                   \o (IF LeavesEx THEN LeavingLines ELSE <<>>)
      BY DEF LNext
    <2> QED BY <1>1, <1>6, <2>1, LeavingEnters, Zenon
  <1>8. LinesInWb' = (MemWrite \o WbPend2) \o MemPend2
    BY <1>3 DEF LinesInWb
  <1> QED BY <1>2, <1>4, <1>7, <1>8 DEF LogInv

(* A frozen edge prints nothing.                                           *)
LEMMA FrozenLines ==
  ASSUME LogInv, MuldivActive
  PROVE  PipelineLines = <<>>
  <1>1. ~pend2_fire.valid
    BY PendingClears DEF LogInv, CoreInv, RegsInv
  <1> QED BY <1>1 DEF PipelineLines, Line

(* And leaves everything due.                                              *)
LEMMA FrozenLog ==
  ASSUME LogInv, LNext, Tame, ProgramsTame, MuldivActive
  PROVE  LogInv'
  <1>1. CoreInv /\ ClockEdge
    BY DEF LogInv, LNext, Next
  <1>2. CoreInv'
    BY <1>1, StepCore DEF Next, ProgramsTame
  <1>3. /\ exmem' = exmem /\ memwb' = memwb /\ pend2_fire' = pend2_fire
        /\ mem_rdata' = mem_rdata /\ dmem' = dmem
    BY <1>1 DEF ClockEdge, NextExMem, NextMemWb, NextPend2Fire, NextMemRdata, NextDmem,
                StoreLeavesMem
  <1>4. LinesInWb' = LinesInWb /\ LinesInMem' = LinesInMem
    BY <1>3, LinesStay DEF LinesInWb, LinesInMem
  <1>5. due' = due
    <2>1. PICK S : due \in Seq(S)
      BY DueTyped
    <2>2. due' = SubSeq(due, 1, Len(due)) \o <<>>
      BY FrozenLines DEF LNext, LeavesEx
    <2> QED BY <2>1, <2>2
  <1> QED BY <1>2, <1>3, <1>4, <1>5 DEF LogInv

(* The log is printed in order, and little of it is ever due.              *)
LEMMA LogIsInOrder == LogInv => LogInProgramOrder
  <1> SUFFICES ASSUME LogInv PROVE LogInProgramOrder
    OBVIOUS
  <1>1. PICK S : /\ WbLine \in Seq(S) /\ FireLine \in Seq(S) /\ WbPend2 \in Seq(S)
                 /\ MemStore \in Seq(S) /\ MemWrite \in Seq(S) /\ MemPend2 \in Seq(S)
    BY LinesAreSequences DEF LinesTyped
  <1>2. Len(due) = Len(WbLine) + Len(FireLine) + Len(WbPend2) + Len(MemStore) + Len(MemWrite)
                     + Len(MemPend2)
    <2>1. due = ((WbLine \o FireLine) \o WbPend2) \o ((MemStore \o MemWrite) \o MemPend2)
      BY DEF LogInv, LinesInWb, LinesInMem
    <2>2. PICK x \in Seq(S) : /\ x = (WbLine \o FireLine) \o WbPend2
                              /\ Len(x) = Len(WbLine) + Len(FireLine) + Len(WbPend2)
      <3>1. ((WbLine \o FireLine) \o WbPend2) \in Seq(S)
        BY <1>1, ThreeLong
      <3>2. Len((WbLine \o FireLine) \o WbPend2) = Len(WbLine) + Len(FireLine) + Len(WbPend2)
        BY <1>1, ThreeLong
      <3> QED BY <3>1, <3>2, Zenon
    <2>3. PICK y \in Seq(S) : /\ y = (MemStore \o MemWrite) \o MemPend2
                              /\ Len(y) = Len(MemStore) + Len(MemWrite) + Len(MemPend2)
      <3>1. ((MemStore \o MemWrite) \o MemPend2) \in Seq(S)
        BY <1>1, ThreeLong
      <3>2. Len((MemStore \o MemWrite) \o MemPend2) = Len(MemStore) + Len(MemWrite) + Len(MemPend2)
        BY <1>1, ThreeLong
      <3> QED BY <3>1, <3>2, Zenon
    <2>4. due = x \o y
      BY <2>1, <2>2, <2>3
    <2>5. Len(x \o y) = Len(x) + Len(y)
      BY PrintedFirst
    <2>6. /\ Len(WbLine) \in Nat /\ Len(FireLine) \in Nat /\ Len(WbPend2) \in Nat
          /\ Len(MemStore) \in Nat /\ Len(MemWrite) \in Nat /\ Len(MemPend2) \in Nat
      BY <1>1, LenProperties
    <2> QED BY <2>2, <2>3, <2>4, <2>5, <2>6
  <1>3. /\ Len(WbLine) \in {0, 1} /\ Len(FireLine) \in {0, 1} /\ Len(WbPend2) \in {0, 1}
        /\ Len(MemStore) \in {0, 1} /\ Len(MemWrite) \in {0, 1} /\ Len(MemPend2) \in {0, 1}
    BY LineOrNone DEF WbLine, FireLine, WbPend2, MemStore, MemWrite, MemPend2
  <1>4. Len(<<>>) = 0
    OBVIOUS
  <1>5. Len(due) <= 4
    <2>1. PICK a \in {0, 1}, b \in {0, 1}, c \in {0, 1}, d \in {0, 1}, e \in {0, 1},
               f \in {0, 1} :
            /\ a = Len(WbLine) /\ b = Len(FireLine) /\ c = Len(WbPend2)
            /\ d = Len(MemStore) /\ e = Len(MemWrite) /\ f = Len(MemPend2)
      BY <1>3
    <2>0. Len(due) = a + b + c + d + e + f
      BY <1>2, <2>1
    <2>2. CASE memwb.pend2.valid
      <3>1. FireLine = <<>> /\ MemStore = <<>>
        BY <2>2, PendingAlone
      <3>2. b = 0 /\ d = 0
        BY <1>4, <2>1, <3>1
      <3> QED BY <2>0, <3>2
    <2>3. CASE ~memwb.pend2.valid /\ pend2_fire.valid
      <3>1. WbPend2 = <<>> /\ MemPend2 = <<>>
        BY <2>3, PendingAlone
      <3>2. c = 0 /\ f = 0
        BY <1>4, <2>1, <3>1
      <3> QED BY <2>0, <3>2
    <2>4. CASE ~memwb.pend2.valid /\ ~pend2_fire.valid
      <3>1. WbPend2 = <<>> /\ FireLine = <<>>
        BY <2>4, PendingAlone
      <3>2. b = 0 /\ c = 0
        BY <1>4, <2>1, <3>1
      <3> QED BY <2>0, <3>2
    <2> QED BY <2>2, <2>3, <2>4
  <1>6. CASE MuldivActive
    <2>1. PipelineLines = <<>>
      BY <1>6, FrozenLines
    <2>2. SubSeq(due, 1, 0) = <<>>
      OBVIOUS
    <2> QED BY <1>3, <1>4, <1>2, <1>5, <2>1, <2>2 DEF LogInProgramOrder
  <1>7. CASE ~MuldivActive
    <2>1. PICK q \in Seq(S) : q = (MemWrite \o WbPend2) \o MemPend2
      BY <1>1, ConcatProperties
    <2>2. PICK p \in Seq(S) : p = PipelineLines
      <3>1. (WbLine \o FireLine) \o MemStore \in Seq(S)
        BY <1>1, ConcatProperties
      <3> QED BY <1>7, <3>1, DueSplits
    <2>3. due = p \o q
      BY <1>7, <2>1, <2>2, DueSplits
    <2>4. p = SubSeq(p \o q, 1, Len(p)) /\ Len(p \o q) = Len(p) + Len(q)
      BY PrintedFirst
    <2>5. Len(p) <= Len(due)
      BY <2>3, <2>4
    <2> QED BY <1>5, <2>2, <2>3, <2>4, <2>5 DEF LogInProgramOrder
  <1> QED BY <1>6, <1>7

(* Every step of a tame execution keeps it.                                *)
LEMMA StepLog == ProgramsTame /\ Tame /\ LogInv /\ [LNext]_lvars => LogInv'
  <1> SUFFICES ASSUME ProgramsTame, Tame, LogInv, [LNext]_lvars PROVE LogInv'
    OBVIOUS
  <1>1. CASE LNext
    BY <1>1, MovingLog, FrozenLog
  <1>2. CASE UNCHANGED lvars
    <2>1. UNCHANGED vars /\ due' = due
      BY <1>2 DEF lvars
    <2>2. CoreInv'
      BY <2>1, StutterKeeps DEF LogInv
    <2>3. /\ exmem' = exmem /\ memwb' = memwb /\ pend2_fire' = pend2_fire
          /\ mem_rdata' = mem_rdata /\ dmem' = dmem
      BY <2>1 DEF vars
    <2>4. LinesInWb' = LinesInWb /\ LinesInMem' = LinesInMem
      BY <2>3, LinesStay DEF LinesInWb, LinesInMem
    <2> QED BY <2>1, <2>2, <2>3, <2>4 DEF LogInv
  <1> QED BY <1>1, <1>2

(* The log of the pipelined core is the program's, for every program that  *)
(* keeps to what the refinement asks.                                      *)
THEOREM LogAlwaysInProgramOrder ==
  ProgramsTame => (LSpec /\ []MachineTame => []LogInProgramOrder)
  <1> SUFFICES ASSUME ProgramsTame
               PROVE LSpec /\ []MachineTame => []LogInProgramOrder
    OBVIOUS
  <1>1. LSpec => Spec
    <2>1. LInit => Init
      BY DEF LInit
    <2>2. [LNext]_lvars => [Next]_vars
      BY DEF LNext, lvars
    <2> QED BY <2>1, <2>2, PTL DEF LSpec, Spec
  <1>2. Spec /\ []MachineTame => []Tame
    BY TameEverywhere DEF ProgramsTame
  <1>3. LogInv /\ Tame /\ [LNext]_lvars => LogInv'
    BY StepLog
  <1> QED BY <1>1, <1>2, <1>3, InitLog, LogIsInOrder, PTL DEF LSpec
=============================================================================
