----------------------------- MODULE UnitProofs -----------------------------
(***************************************************************************)
(* The units of the datapath on their own, for every width of a word.  The *)
(* iterative multiply/divide unit computes what the combinational one does,*)
(* for every sequence of operations and every value its inputs may carry   *)
(* while it works: MuldivInv of MuldivUnitProofs, on the operation last    *)
(* asked for, is the inductive invariant.  And the vectors of the unit     *)
(* testbenches give what the benches expect: those of the ALU, of both     *)
(* multiply/divide units, of the register file, of the immediates and of   *)
(* the decoder.                                                            *)
(***************************************************************************)
EXTENDS MuldivIter, UnitBench, MuldivUnitProofs, SequenceTheorems

MuInv ==
  /\ req.op \in 0 .. 7 /\ req.a \in Word /\ req.b \in Word
  /\ MuldivInv(unit, req.op, req.a, req.b)

(* Nothing has been asked of the unit yet.                                 *)
LEMMA MuInitInv == MuInit => MuInv
  <1> SUFFICES ASSUME MuInit PROVE MuInv
    OBVIOUS
  <1>1. req.op = 0 /\ req.a = 0 /\ req.b = 0
    BY DEF MuInit
  <1>2. UnitPhases(unit) /\ unit.state = "IDLE" /\ unit.done = FALSE
    BY UnitPhasesReset DEF MuInit, MuldivReset
  <1> QED BY <1>1, <1>2, SmallWords DEF MuInv, MuldivInv

(* A request restarts the work, a tick advances it.                        *)
LEMMA MuStepInv == MuInv /\ [MuNext]_muvars => MuInv'
  <1> SUFFICES ASSUME MuInv, [MuNext]_muvars PROVE MuInv'
    OBVIOUS
  <1>0. UnitPhases(unit)
    BY DEF MuInv, MuldivInv
  <1>1. ASSUME NEW op \in 0 .. 7, NEW a \in Word, NEW b \in Word, Request(op, a, b)
        PROVE  MuInv'
    <2>1. unit.state = "IDLE"
      <3>1. unit.busy = (unit.state # "IDLE") /\ ~unit.busy
        BY <1>0, <1>1 DEF UnitPhases, Request
      <3> QED BY <3>1
    <2>2. MuldivInv(unit', op, a, b)
      BY <1>0, <1>1, <2>1, StartWork DEF Request
    <2>3. req'.op = op /\ req'.a = a /\ req'.b = b
      BY <1>1 DEF Request
    <2> QED BY <2>2, <2>3 DEF MuInv, MuldivInv, UnitPhases, WorkDone, Multiplies, Divides
  <1>2. ASSUME NEW op \in {0, 7}, NEW a \in StrayWord, NEW b \in StrayWord, Tick(op, a, b)
        PROVE  MuInv'
    <2>1. a \in Word /\ b \in Word /\ op \in 0 .. 7
      BY MuldivIterAssumption
    <2>2. unit' = MuldivNext(unit, FALSE, TRUE, a, b, op) /\ req' = req
      BY <1>2 DEF Tick
    <2>3. MuldivInv(unit', req.op, req.a, req.b)
      BY <2>1, <2>2, StepWork DEF MuInv
    <2> QED BY <2>2, <2>3 DEF MuInv, MuldivInv, UnitPhases, WorkDone, Multiplies, Divides
  <1>3. CASE UNCHANGED muvars
    BY <1>3 DEF muvars, MuInv, MuldivInv, UnitPhases, WorkDone, Multiplies, Divides
  <1> QED BY <1>1, <1>2, <1>3 DEF MuNext, AnyRequest, AnyTick

(* At every clock edge the unit has done, of the operation asked for, the  *)
(* part its counter says (muldiv_iter.sv:61-169).                          *)
THEOREM UnitWorksOnRequest == MuSpec => []MuInv
  BY MuInitInv, MuStepInv, PTL DEF MuSpec

(* The iterative unit's result is the combinational unit's, for all        *)
(* operands of any width (muldiv_iter.sv:61-169 against muldiv.sv).        *)
THEOREM ResultAlwaysCorrect == MuSpec => []ResultCorrect
  <1>1. MuInv => ResultCorrect
    BY WorkDelivers DEF MuInv, ResultCorrect
  <1> QED BY <1>1, UnitWorksOnRequest, PTL

(* Every shift-add step keeps the partial product exact                    *)
(* (muldiv_iter.sv:105-114).                                               *)
THEOREM PartialProductAlways == MuSpec => []PartialProduct
  <1>1. MuInv => PartialProduct
    <2> SUFFICES ASSUME MuInv, unit.state = "MUL_RUN" PROVE PartialProduct
      BY DEF PartialProduct
    <2>1. req.op < 4 /\ WorkDone(unit, req.op, req.a, req.b)
      BY DEF MuInv, MuldivInv
    <2>2. unit.op_a_r = req.a
      BY <2>1 DEF WorkDone, Multiplies
    <2> QED BY <2>1, <2>2 DEF WorkDone, ProductUpTo, PartialProduct
  <1> QED BY <1>1, UnitWorksOnRequest, PTL

(* Every restoring step keeps remainder and quotient those of the leading  *)
(* bits of the dividend, the remainder below the divisor                   *)
(* (muldiv_iter.sv:116-129).                                               *)
THEOREM PartialQuotientAlways == MuSpec => []PartialQuotient
  <1>1. MuInv => PartialQuotient
    <2> SUFFICES ASSUME MuInv, unit.state = "DIV_RUN", ~unit.div_by_zero PROVE PartialQuotient
      BY DEF PartialQuotient
    <2>1. ~(req.op < 4) /\ WorkDone(unit, req.op, req.a, req.b)
      <3>1. req.op \in 0 .. 7 /\ req.op >= 4
        BY DEF MuInv, MuldivInv
      <3>2. ~(req.op < 4)
        BY <3>1
      <3> QED BY <3>2 DEF MuInv, MuldivInv
    <2>2. Divides(unit, req.op, req.a, req.b)
      BY <2>1 DEF WorkDone
    <2>3. unit.op_a_r = req.a /\ req.b # 0
      BY <2>2 DEF Divides
    <2> QED BY <2>1, <2>3 DEF WorkDone, QuotientUpTo, PartialQuotient
  <1> QED BY <1>1, UnitWorksOnRequest, PTL
-----------------------------------------------------------------------------
(* The register file.                                                      *)

(* The elements of a concatenation whose parts' lengths are known.         *)
LEMMA Joined ==
  ASSUME NEW S, NEW s \in Seq(S), NEW t \in Seq(S), NEW j, NEW k, Len(s) = j, Len(t) = k
  PROVE  /\ s \o t \in Seq(S) /\ Len(s \o t) = j + k
         /\ \A i \in 1 .. j + k : (s \o t)[i] = IF i <= j THEN s[i] ELSE t[i - j]
  BY ConcatProperties

(* The list of vectors, position by position.                              *)
LEMMA RegfileVectorList ==
  /\ Len(RegfileVectors) = 2*LastReg + 5
  /\ RegfileVectors[1] = Check(0, 0)
  /\ RegfileVectors[2] = Edge(TRUE, 0, Ones)
  /\ RegfileVectors[3] = Check(0, 0)
  /\ \A r \in 1 .. LastReg : /\ RegfileVectors[r + 3] = Edge(TRUE, r, Pattern(r))
                            /\ RegfileVectors[r + 3 + LastReg] = Check(r, LastReg + 1 - r)
  /\ RegfileVectors[2*LastReg + 4] = Edge(FALSE, 1, Ones)
  /\ RegfileVectors[2*LastReg + 5] = Check(1, 0)
  <1> DEFINE zero     == Edge(TRUE, 0, Ones)
             store(r) == Edge(TRUE, r, Pattern(r))
             idle     == Edge(FALSE, 1, Ones)
             head   == <<Check(0, 0), zero, Check(0, 0)>>
             edges  == [r \in 1 .. LastReg |-> store(r)]
             checks == [r \in 1 .. LastReg |-> Check(r, LastReg + 1 - r)]
             tail   == <<idle, Check(1, 0)>>
             All    == {Check(r, s) : r, s \in Int}
                         \cup {Edge(we, r, x) : we \in BOOLEAN, r \in Int, x \in Int}
  <1>1. LastReg \in Nat /\ LastReg > 0
    BY UnitBenchAssumption
  <1>2. Ones \in Int /\ \A r \in Int : Pattern(r) \in Int
    BY WordHalves DEF Ones, Pattern
  <1>3. /\ \A r, s \in Int : Check(r, s) \in All
        /\ \A we \in BOOLEAN, r, x \in Int : Edge(we, r, x) \in All
    OBVIOUS
  <1>4. /\ Check(0, 0) \in All /\ zero \in All /\ idle \in All /\ Check(1, 0) \in All
        /\ \A r \in 1 .. LastReg : store(r) \in All
        /\ \A r \in 1 .. LastReg : Check(r, LastReg + 1 - r) \in All
    <2>1. TRUE \in BOOLEAN /\ FALSE \in BOOLEAN /\ 0 \in Int /\ 1 \in Int
          /\ 1 .. LastReg \subseteq Int /\ \A r \in 1 .. LastReg : LastReg + 1 - r \in Int
      BY <1>1
    <2> HIDE DEF All
    <2> QED BY <1>2, <1>3, <2>1
  <1>5. RegfileVectors = ((head \o edges) \o checks) \o tail
    BY DEF RegfileVectors
  <1> HIDE DEF All, zero, store, idle
  <1>6. head \in Seq(All) /\ Len(head) = 3
    BY <1>4
  <1>7. edges \in Seq(All) /\ Len(edges) = LastReg
    BY <1>1, <1>4
  <1>8. checks \in Seq(All) /\ Len(checks) = LastReg
    BY <1>1, <1>4
  <1>9. tail \in Seq(All) /\ Len(tail) = 2
    BY <1>4
  <1>10. /\ head[1] = Check(0, 0) /\ head[2] = zero /\ head[3] = Check(0, 0)
        /\ tail[1] = idle /\ tail[2] = Check(1, 0)
        /\ \A r \in 1 .. LastReg : /\ edges[r] = store(r)
                                  /\ checks[r] = Check(r, LastReg + 1 - r)
    OBVIOUS
  <1> HIDE DEF head, edges, checks, tail
  <1>11. /\ head \o edges \in Seq(All) /\ Len(head \o edges) = 3 + LastReg
         /\ \A i \in 1 .. 3 + LastReg :
              (head \o edges)[i] = IF i <= 3 THEN head[i] ELSE edges[i - 3]
    <2>1. /\ head \o edges \in Seq(All) /\ Len(head \o edges) = Len(head) + Len(edges)
          /\ \A i \in 1 .. Len(head) + Len(edges) :
               (head \o edges)[i] = IF i <= Len(head) THEN head[i] ELSE edges[i - Len(head)]
      BY <1>6, <1>7, ConcatProperties
    <2> QED BY <1>6, <1>7, <2>1
  <1> DEFINE two == head \o edges
  <1>12. two \in Seq(All) /\ Len(two) = LastReg + 3
    BY <1>1, <1>11
  <1> HIDE DEF two
  <1>13. /\ two \o checks \in Seq(All) /\ Len(two \o checks) = 2*LastReg + 3
         /\ \A i \in 1 .. 2*LastReg + 3 :
              (two \o checks)[i] = IF i <= LastReg + 3 THEN two[i] ELSE checks[i - (LastReg + 3)]
    <2>1. (LastReg + 3) + LastReg = 2*LastReg + 3
      BY <1>1
    <2>2. /\ two \o checks \in Seq(All) /\ Len(two \o checks) = (LastReg + 3) + LastReg
          /\ \A i \in 1 .. (LastReg + 3) + LastReg :
               (two \o checks)[i] = IF i <= LastReg + 3 THEN two[i] ELSE checks[i - (LastReg + 3)]
      BY <1>8, <1>12, Joined
    <2> QED BY <2>1, <2>2
  <1> DEFINE three == two \o checks
  <1>14. three \in Seq(All) /\ Len(three) = 2*LastReg + 3
    BY <1>13
  <1> HIDE DEF three
  <1>15. /\ Len(three \o tail) = 2*LastReg + 5
         /\ \A i \in 1 .. 2*LastReg + 5 :
              (three \o tail)[i] = IF i <= 2*LastReg + 3 THEN three[i] ELSE tail[i - (2*LastReg + 3)]
    <2>1. (2*LastReg + 3) + 2 = 2*LastReg + 5
      BY <1>1
    <2>2. /\ Len(three \o tail) = Len(three) + Len(tail)
          /\ \A i \in 1 .. Len(three) + Len(tail) :
               (three \o tail)[i] = IF i <= Len(three) THEN three[i] ELSE tail[i - Len(three)]
      BY <1>9, <1>14, ConcatProperties
    <2> QED BY <1>9, <1>14, <2>1, <2>2
  <1>16. RegfileVectors = three \o tail
    BY <1>5 DEF two, three
  <1>17. \A i \in 1 .. LastReg + 3 : RegfileVectors[i] = IF i <= 3 THEN head[i] ELSE edges[i - 3]
    BY <1>1, <1>11, <1>13, <1>15, <1>16 DEF two, three
  <1>18. \A r \in 1 .. LastReg : RegfileVectors[r + 3 + LastReg] = checks[r]
    <2> TAKE r \in 1 .. LastReg
    <2>1. r + 3 + LastReg \in 1 .. 2*LastReg + 3 /\ ~(r + 3 + LastReg <= LastReg + 3)
          /\ (r + 3 + LastReg) - (LastReg + 3) = r
      BY <1>1
    <2>2. r + 3 + LastReg \in 1 .. 2*LastReg + 5 /\ r + 3 + LastReg <= 2*LastReg + 3
      BY <1>1
    <2>3. RegfileVectors[r + 3 + LastReg] = three[r + 3 + LastReg]
      BY <1>15, <1>16, <2>2
    <2>4. three[r + 3 + LastReg] = checks[(r + 3 + LastReg) - (LastReg + 3)]
      BY <1>13, <2>1 DEF three
    <2> QED BY <2>1, <2>3, <2>4
  <1>19. \A r \in 1 .. LastReg : RegfileVectors[r + 3] = edges[r]
    BY <1>1, <1>17
  <1>20. RegfileVectors[2*LastReg + 4] = tail[1] /\ RegfileVectors[2*LastReg + 5] = tail[2]
    BY <1>1, <1>15, <1>16
  <1>21. RegfileVectors[1] = head[1] /\ RegfileVectors[2] = head[2] /\ RegfileVectors[3] = head[3]
    BY <1>1, <1>17
  <1> QED BY <1>10, <1>15, <1>16, <1>18, <1>19, <1>20, <1>21 DEF zero, store, idle

(* A register holds its pattern from the edge that wrote it on.            *)
RegfileInv ==
  bench = "regfile" =>
    /\ verdict # "FAIL"
    /\ n \in 1 .. 2*LastReg + 6
    /\ DOMAIN dut = Reg \ {0}
    /\ \A r \in 1 .. LastReg : n > r + 3 => dut[r] = Pattern(r)

(* One vector of the list: an edge writes its register and no other, and a *)
(* check finds what was written.                                           *)
LEMMA RegfileStepInv == RegfileInv /\ bench = "regfile" /\ RegfileStep => RegfileInv'
  <1> SUFFICES ASSUME RegfileInv, bench = "regfile", RegfileStep PROVE RegfileInv'
    OBVIOUS
  <1>1. LastReg \in Nat /\ LastReg > 0 /\ Reg = 0 .. LastReg
    BY UnitBenchAssumption
  <1>2. /\ n \in 1 .. 2*LastReg + 5 /\ n' = n + 1 /\ bench' = "regfile"
        /\ verdict # "FAIL" /\ DOMAIN dut = Reg \ {0}
        /\ \A r \in 1 .. LastReg : n > r + 3 => dut[r] = Pattern(r)
    BY <1>1, RegfileVectorList DEF RegfileInv, RegfileStep
  <1>3. ASSUME NEW r \in 1 .. LastReg, n = r + 3
        PROVE  RegfileInv'
    <2>1. RegfileVectors[n] = Edge(TRUE, r, Pattern(r))
      BY <1>3, RegfileVectorList
    <2>2. verdict' = verdict
      BY <2>1 DEF RegfileStep, Edge
    <2>3. dut' = [dut EXCEPT ![r] = Pattern(r)] /\ r \in DOMAIN dut
      BY <1>1, <1>2, <2>1 DEF RegfileStep, Edge, RegfileWrite
    <2>4. DOMAIN dut' = Reg \ {0} /\ dut'[r] = Pattern(r)
          /\ \A k \in 1 .. LastReg : k # r => dut'[k] = dut[k]
      BY <1>1, <1>2, <2>3
    <2>5. ASSUME NEW k \in 1 .. LastReg, n' > k + 3 PROVE dut'[k] = Pattern(k)
      BY <1>1, <1>2, <1>3, <2>4, <2>5
    <2>6. (\A k \in 1 .. LastReg : n > k + 3 => dut[k] = Pattern(k))'
      BY <2>5 DEF Pattern
    <2> QED BY <1>1, <1>2, <2>2, <2>4, <2>6 DEF RegfileInv
  <1>4. ASSUME dut' = dut, verdict' # "FAIL", \A r \in 1 .. LastReg : n # r + 3
         PROVE  RegfileInv'
    <2>1. ASSUME NEW r \in 1 .. LastReg, n' > r + 3 PROVE dut'[r] = Pattern(r)
      BY <1>1, <1>2, <1>4, <2>1
    <2>2. (\A r \in 1 .. LastReg : n > r + 3 => dut[r] = Pattern(r))'
      BY <2>1 DEF Pattern
    <2> QED BY <1>1, <1>2, <1>4, <2>2 DEF RegfileInv
  <1>5. ASSUME NEW rs1 \in Reg, NEW rs2 \in Reg, RegfileVectors[n] = Check(rs1, rs2),
               rs1 # 0 => n > rs1 + 3, rs2 # 0 => n > rs2 + 3,
               \A r \in 1 .. LastReg : n # r + 3
        PROVE  RegfileInv'
    <2>1. \A r \in Reg : (r # 0 => n > r + 3) => RegfileRead(dut, r) = Written(r)
      BY <1>1, <1>2 DEF RegfileRead, Written
    <2>2. RegfileRead(dut, rs1) = Written(rs1) /\ RegfileRead(dut, rs2) = Written(rs2)
      BY <1>5, <2>1
    <2>3. /\ RegfileVectors[n].do = "check"
          /\ RegfileVectors[n].rs1 = rs1 /\ RegfileVectors[n].rs2 = rs2
      BY <1>5 DEF Check
    <2>4. dut' = dut /\ verdict' = "PASS"
      BY <1>2, <2>2, <2>3 DEF RegfileStep, Compare
    <2> QED BY <1>5, <1>4, <2>4
  <1>6. CASE n \in {1, 3}
    BY <1>1, <1>5, <1>6, RegfileVectorList
  <1>7. CASE n = 2
    <2>1. RegfileVectors[n].do = "tick" /\ RegfileVectors[n].rd = 0
      BY <1>7, RegfileVectorList DEF Edge
    <2>2. dut' = dut /\ verdict' = verdict
      BY <2>1 DEF RegfileStep, RegfileWrite
    <2> QED BY <1>1, <1>2, <1>7, <1>4, <2>2
  <1>8. CASE n \in 4 .. LastReg + 3
    <2>1. PICK r \in 1 .. LastReg : n = r + 3
      <3>1. n - 3 \in 1 .. LastReg /\ n = (n - 3) + 3
        BY <1>1, <1>8
      <3> QED BY <3>1
    <2> QED BY <1>3, <2>1
  <1>9. CASE n \in LastReg + 4 .. 2*LastReg + 3
    <2>1. PICK r \in 1 .. LastReg : n = r + 3 + LastReg
      <3>1. n - 3 - LastReg \in 1 .. LastReg /\ n = (n - 3 - LastReg) + 3 + LastReg
        BY <1>1, <1>9
      <3> QED BY <3>1
    <2>2. RegfileVectors[n] = Check(r, LastReg + 1 - r)
      BY <2>1, RegfileVectorList
    <2>3. r \in Reg /\ LastReg + 1 - r \in Reg /\ n > r + 3 /\ n > (LastReg + 1 - r) + 3
      BY <1>1, <2>1
    <2>4. \A k \in 1 .. LastReg : n # k + 3
      BY <1>1, <1>9
    <2> QED BY <1>5, <2>2, <2>3, <2>4
  <1>10. CASE n = 2*LastReg + 4
    <2>1. RegfileVectors[n].do = "tick" /\ RegfileVectors[n].we = FALSE
      BY <1>10, RegfileVectorList DEF Edge
    <2>2. dut' = dut /\ verdict' = verdict
      BY <2>1 DEF RegfileStep, RegfileWrite
    <2> QED BY <1>1, <1>2, <1>10, <1>4, <2>2
  <1>11. CASE n = 2*LastReg + 5
    <2>1. 1 \in Reg /\ 0 \in Reg /\ n > 4 /\ \A k \in 1 .. LastReg : n # k + 3
      BY <1>1, <1>11
    <2> QED BY <1>5, <1>11, <2>1, RegfileVectorList
  <1> QED BY <1>1, <1>2, <1>6, <1>7, <1>8, <1>9, <1>10, <1>11

(* However many registers there are and however wide they are, each reads  *)
(* back what was written to it last, x0 zero, and a disabled write changes *)
(* nothing (regfile.sv:13-18, tb_regfile.cpp:30-62).                       *)
THEOREM RegistersAlwaysReadBack == UbSpec => []RegistersReadBack
  <1>1. UbInit => RegfileInv
    <2> SUFFICES ASSUME UbInit, bench = "regfile" PROVE RegfileInv
      BY DEF RegfileInv
    <2>1. n = 1 /\ verdict = "none" /\ dut \in [Reg \ {0} -> {0, Ones}]
      BY DEF UbInit
    <2> QED BY <2>1, UnitBenchAssumption DEF RegfileInv
  <1>2. RegfileInv /\ [UbNext]_ubvars => RegfileInv'
    <2> SUFFICES ASSUME RegfileInv, [UbNext]_ubvars, bench' = "regfile" PROVE RegfileInv'
      BY DEF RegfileInv
    <2>1. CASE RegfileStep
      BY <2>1, RegfileStepInv DEF RegfileStep
    <2>2. CASE UNCHANGED ubvars
      BY <2>2 DEF ubvars, RegfileInv, Pattern
    <2>3. ~Eval /\ ~IterStart /\ ~IterPoll
      BY DEF Eval, IterStart, IterPoll
    <2> QED BY <2>1, <2>2, <2>3 DEF UbNext
  <1>3. RegfileInv => RegistersReadBack
    BY DEF RegfileInv, RegistersReadBack
  <1> QED BY <1>1, <1>2, <1>3, PTL DEF UbSpec
-----------------------------------------------------------------------------
(* The multiply/divide units.                                              *)

(* The upper half may be cut out of a product before or after the product  *)
(* is cut to two words.                                                    *)
LEMMA UpperWord ==
  ASSUME NEW p \in Int
  PROVE  (p % DoubleMod) \div WordMod = (p \div WordMod) % WordMod
  <1>1. WordMod \in Nat /\ WordMod > 0 /\ DoubleMod \in Nat /\ DoubleMod > 0
        /\ DoubleMod = WordMod * WordMod
    BY WordHalves, DoubleWord
  <1>2. PICK q \in Int, l \in 0 .. WordMod-1 :
          q = p \div WordMod /\ p = WordMod * q + l
    BY <1>1, DivMod
  <1>3. PICK k \in Int, h \in 0 .. WordMod-1 : h = q % WordMod /\ q = WordMod * k + h
    BY <1>1, DivMod
  <1> DEFINE r == WordMod * h + l
  <1>4. p = DoubleMod * k + r
    <2>1. WordMod * (WordMod * k + h) = (WordMod * WordMod) * k + WordMod * h
      BY <1>1
    <2>2. (WordMod * WordMod) * k \in Int /\ WordMod * h \in Int
      BY <1>1
    <2> QED BY <1>1, <1>2, <1>3, <2>1, <2>2
  <1>5. r \in 0 .. DoubleMod-1
    <2>1. WordMod * h <= WordMod * (WordMod-1)
      <3>1. WordMod * ((WordMod-1) - h) >= 0
        BY <1>1
      <3>2. WordMod * ((WordMod-1) - h) = WordMod * (WordMod-1) - WordMod * h
        BY <1>1
      <3>3. WordMod * (WordMod-1) \in Int /\ WordMod * h \in Int
        BY <1>1
      <3> QED BY <3>1, <3>2, <3>3
    <2>2. WordMod * (WordMod-1) = DoubleMod - WordMod
      BY <1>1
    <2>3. WordMod * h \in Nat
      BY <1>1
    <2> QED BY <1>1, <2>1, <2>2, <2>3
  <1>6. p % DoubleMod = r
    <2> HIDE DEF r
    <2> QED BY <1>1, <1>4, <1>5, DivModUnique
  <1>7. r \div WordMod = h
    <2>1. r \in Int
      BY <1>5
    <2> QED BY <1>1, <2>1, DivModUnique
  <1> QED BY <1>2, <1>3, <1>6, <1>7

(* The benches' reference and muldiv.sv agree on all operands.             *)
LEMMA ReferenceAgrees ==
  ASSUME NEW a \in Word, NEW b \in Word, NEW op \in 0 .. 7
  PROVE  MuldivResult(op, a, b) = ref(a, b, op)
  <1> DEFINE sa == Signed(a)
             sb == Signed(b)
  <1>1. a \in Int /\ b \in Int /\ sa \in Int /\ sb \in Int
    BY SignedRange, SmallWords, WordHalves
  <1>2. /\ ((sa * sb) % DoubleMod) \div WordMod = ((sa * sb) \div WordMod) % WordMod
        /\ ((sa * b) % DoubleMod) \div WordMod = ((sa * b) \div WordMod) % WordMod
    <2>1. sa * sb \in Int /\ sa * b \in Int
      BY <1>1
    <2> HIDE DEF sa, sb
    <2> QED BY <2>1, UpperWord
  <1>3. (a * b) % DoubleMod = a * b
    <2>1. PICK p \in 0 .. DoubleMod-1 : p = a * b
      BY ProductRange
    <2>2. p % DoubleMod = p
      BY DoubleWord
    <2> QED BY <2>1, <2>2
  <1> HIDE DEF sa, sb
  <1>4. Ones = AllOnes /\ SMin = MinInt
    BY DEF Ones, AllOnes, SMin, MinInt
  <1>5. CASE op = 0
    BY <1>5 DEF MuldivResult, ref
  <1>6. CASE op = 1
    BY <1>2, <1>6 DEF MuldivResult, ref, sa, sb
  <1>7. CASE op = 2
    BY <1>2, <1>7 DEF MuldivResult, ref, sa, sb
  <1>8. CASE op = 3
    BY <1>3, <1>8 DEF MuldivResult, ref
  <1>9. CASE op = 4
    BY <1>4, <1>9 DEF MuldivResult, ref
  <1>10. CASE op = 5
    BY <1>4, <1>10 DEF MuldivResult, ref
  <1>11. CASE op = 6
    BY <1>4, <1>11 DEF MuldivResult, ref
  <1>12. CASE op = 7
    BY <1>12 DEF MuldivResult, ref
  <1> QED BY <1>5, <1>6, <1>7, <1>8, <1>9, <1>10, <1>11, <1>12

(* At six bits and more the benches' numbers are words.                    *)
LEMMA BenchWords ==
  /\ HalfMod \in Nat /\ HalfMod >= 32 /\ WordMod = 2 * HalfMod
  /\ Ones = WordMod - 1 /\ SMin = HalfMod /\ SMax = HalfMod - 1
  /\ Stripes \in 0 .. WordMod - 1
  /\ {0, 1, 2, 5, Ones, Ones - 2, SMin, SMax, Stripes, Ones - Stripes} \subseteq Word
  <1>1. Pow2[5] = 32
    <2>1. {0, 1, 2, 3, 4} \subseteq 0 .. 2*W-1
      BY UnitBenchAssumption, WAssumption
    <2>2. Pow2[0+1] = 2 * Pow2[0] /\ Pow2[1+1] = 2 * Pow2[1] /\ Pow2[2+1] = 2 * Pow2[2]
          /\ Pow2[3+1] = 2 * Pow2[3] /\ Pow2[4+1] = 2 * Pow2[4]
      BY <2>1, Pow2Step
    <2> QED BY <2>2, Pow2Step
  <1>2. HalfMod >= 32 /\ HalfMod \in Nat
    <2>1. 5 + (W-6) = W-1 /\ W-6 \in Nat /\ W-6 \in 0 .. 2*W /\ W-1 <= 2*W
      BY UnitBenchAssumption, WAssumption
    <2>2. Pow2[5 + (W-6)] = Pow2[5] * Pow2[W-6]
      BY <2>1, Pow2Sum
    <2>3. Pow2[W-6] \in Nat /\ Pow2[W-6] > 0
      BY <2>1, Pow2Type
    <2>4. HalfMod = 32 * Pow2[W-6]
      BY <1>1, <2>1, <2>2 DEF HalfMod
    <2> QED BY <2>3, <2>4
  <1>3. WordMod = 2 * HalfMod
    BY WordHalves
  <1>4. Ones = WordMod - 1 /\ SMin = HalfMod /\ SMax = HalfMod - 1
    BY DEF Ones, SMin, SMax
  <1>5. Stripes \in 0 .. WordMod - 1
    <2>1. Ones \in Nat
      BY <1>2, <1>3, <1>4
    <2> QED BY <1>2, <1>3, <1>4, <2>1 DEF Stripes
  <1> QED BY <1>2, <1>3, <1>4, <1>5 DEF Word

(* The operands of the multiply/divide benches are words.                  *)
LEMMA MuldivVectorType ==
  /\ MuldivVectors = 104
  /\ \A k \in 1 .. MuldivVectors : /\ MuldivVector(k).op \in 0 .. 7
                                 /\ MuldivVector(k).a \in Word
                                 /\ MuldivVector(k).b \in Word
  <1>1. /\ 0 \in Word /\ 1 \in Word /\ 2 \in Word /\ 5 \in Word /\ Ones \in Word
        /\ Ones - 2 \in Word /\ SMin \in Word /\ SMax \in Word /\ Stripes \in Word
    BY BenchWords
  <1>2. Len(ab) = 13
    BY DEF ab
  <1>3. \A i \in 1 .. 13 : ab[i][1] \in Word /\ ab[i][2] \in Word
    BY <1>1 DEF ab
  <1>4. MuldivVectors = 104
    BY <1>2 DEF MuldivVectors
  <1>5. ASSUME NEW k \in 1 .. 104
        PROVE  /\ MuldivVector(k).op \in 0 .. 7
               /\ MuldivVector(k).a \in Word /\ MuldivVector(k).b \in Word
    <2>1. 1 + (k-1) \div 8 \in 1 .. 13 /\ (k-1) % 8 \in 0 .. 7
      OBVIOUS
    <2> QED BY <1>3, <2>1 DEF MuldivVector
  <1> QED BY <1>4, <1>5
-----------------------------------------------------------------------------
(* The ALU.                                                                *)

(* The sums, differences and comparisons at the boundaries.                *)
LEMMA ArithmeticBoundaries ==
  \A v \in Boundaries : v.op \in {"ADD", "SUB", "SLT", "SLTU"} => Alu(v.op, v.a, v.b) = v.expect
  <1>1. \E h \in Nat : h >= 32 /\ h = HalfMod
    BY BenchWords
  <1>2. PICK h \in Nat : h >= 32 /\ h = HalfMod
    BY <1>1
  <1>3. WordMod = 2*h /\ Ones = 2*h - 1 /\ SMin = h /\ SMax = h - 1
    BY <1>2, BenchWords
  <1>4. /\ Add(0, 0) = 0 /\ Add(SMax, 1) = SMin /\ Add(Ones, 1) = 0
        /\ Add(SMin, SMin) = 0 /\ Add(5, Ones - 2) = 2
    BY <1>2, <1>3 DEF Add
  <1>5. /\ Sub(0, 1) = Ones /\ Sub(SMin, 1) = SMax /\ Sub(SMax, Ones) = SMin /\ Sub(5, 5) = 0
    BY <1>2, <1>3 DEF Sub
  <1>6. /\ Signed(SMin) = -h /\ Signed(SMax) = h - 1 /\ Signed(Ones) = -1
        /\ Signed(0) = 0 /\ Signed(5) = 5
    BY <1>2, <1>3 DEF Signed
  <1>7. /\ \A a, b : Alu("ADD", a, b) = Add(a, b)
        /\ \A a, b : Alu("SUB", a, b) = Sub(a, b)
        /\ \A a, b : Alu("SLT", a, b) = IF Signed(a) < Signed(b) THEN 1 ELSE 0
        /\ \A a, b : Alu("SLTU", a, b) = IF a < b THEN 1 ELSE 0
    BY DEF Alu
  <1>8. /\ Alu("SLT", SMin, SMax) = 1 /\ Alu("SLT", SMax, SMin) = 0
        /\ Alu("SLT", Ones, 0) = 1 /\ Alu("SLT", 5, 5) = 0
    BY <1>2, <1>6, <1>7
  <1>9. /\ Alu("SLTU", SMin, SMax) = 0 /\ Alu("SLTU", SMax, SMin) = 1
        /\ Alu("SLTU", 0, Ones) = 1 /\ Alu("SLTU", Ones, 0) = 0
    BY <1>2, <1>3, <1>7
  <1> QED BY <1>4, <1>5, <1>7, <1>8, <1>9 DEF Boundaries, AluVector

(* Patterns and their complements.                                         *)
LEMMA BitwiseBoundaries ==
  \A v \in Boundaries : v.op \in {"XOR", "AND", "OR"} => Alu(v.op, v.a, v.b) = v.expect
  <1>1. Stripes \in Word /\ Ones = WordMod - 1
    BY BenchWords DEF Word
  <1>2. Bits(Ones - Stripes) = (0 .. W-1) \ Bits(Stripes) /\ Bits(Stripes) \subseteq 0 .. W-1
    BY <1>1, ComplementBits DEF Bits
  <1>3. Bits(0) = {} /\ Bits(Ones) = 0 .. W-1
    BY <1>1, ExtremeBits
  <1>4. FromBits({}) = 0 /\ FromBits(0 .. W-1) = Ones
    <2>1. FromBits(0 .. 0-1) = Pow2[0] - Pow2[0] /\ FromBits(0 .. W-1) = Pow2[W] - Pow2[0]
      BY FromBitsRange, WAssumption
    <2>2. 0 .. 0-1 = {}
      OBVIOUS
    <2> QED BY <1>1, <2>1, <2>2, Pow2Step DEF WordMod
  <1>5. Xor(Stripes, Ones - Stripes) = Ones /\ Xor(Stripes, Stripes) = 0
    <2>1. SymDiff(Bits(Stripes), Bits(Ones - Stripes)) = 0 .. W-1
          /\ SymDiff(Bits(Stripes), Bits(Stripes)) = {}
      BY <1>2 DEF SymDiff
    <2> QED BY <1>4, <2>1 DEF Xor
  <1>6. And(Ones, 0) = 0 /\ And(Ones, Ones) = Ones
    <2>1. Bits(Ones) \cap Bits(0) = {} /\ Bits(Ones) \cap Bits(Ones) = 0 .. W-1
      BY <1>3
    <2> QED BY <1>4, <2>1 DEF And
  <1>7. Or(Stripes, Ones - Stripes) = Ones
    <2>1. Bits(Stripes) \cup Bits(Ones - Stripes) = 0 .. W-1
      BY <1>2
    <2> QED BY <1>4, <2>1 DEF Or
  <1>8. \A a, b : /\ Alu("XOR", a, b) = Xor(a, b)
                 /\ Alu("AND", a, b) = And(a, b)
                 /\ Alu("OR", a, b) = Or(a, b)
    BY DEF Alu
  <1> QED BY <1>5, <1>6, <1>7, <1>8 DEF Boundaries, AluVector

(* The two lists together are all of them.                                 *)
LEMMA BoundaryResults == \A v \in Boundaries : Alu(v.op, v.a, v.b) = v.expect
  <1>1. \A v \in Boundaries : v.op \in {"ADD", "SUB", "SLT", "SLTU"} \cup {"XOR", "AND", "OR"}
    BY DEF Boundaries, AluVector
  <1> QED BY <1>1, ArithmeticBoundaries, BitwiseBoundaries

(* What the four shifts of the sweep come to, for each amount.             *)
LEMMA ShiftedPatterns ==
  ASSUME NEW amt \in 0 .. W-1
  PROVE  /\ (Ones * Pow2[amt]) % WordMod = FromBits(amt .. W-1)
         /\ Ones \div Pow2[amt] = FromBits(0 .. W-1-amt)
         /\ (Signed(SMin) \div Pow2[amt]) % WordMod = FromBits(W-1-amt .. W-1)
         /\ (Signed(SMax) \div Pow2[amt]) % WordMod = FromBits(0 .. W-2-amt)
  <1> DEFINE low  == Pow2[amt]
             rest == Pow2[(W-1)-amt]
  <1>1. W \in Nat /\ W > 0 /\ amt \in Nat /\ (W-1)-amt \in Nat
    BY WAssumption
  <1>2. low \in Nat /\ low > 0 /\ rest \in Nat /\ rest > 0
    BY <1>1, Pow2Type
  <1>3. HalfMod = low * rest
    <2>1. amt + ((W-1)-amt) = W-1 /\ W-1 <= 2*W
      BY <1>1
    <2>2. Pow2[amt + ((W-1)-amt)] = Pow2[amt] * Pow2[(W-1)-amt]
      BY <1>1, <2>1, Pow2Sum
    <2> QED BY <2>1, <2>2 DEF HalfMod
  <1>4. Pow2[W-amt] = 2 * rest
    <2>1. (W-1)-amt \in 0 .. 2*W-1 /\ ((W-1)-amt) + 1 = W-amt
      BY <1>1
    <2> QED BY <2>1, Pow2Step
  <1>5. /\ FromBits(amt .. W-1) = WordMod - low
        /\ FromBits(0 .. W-1-amt) = 2 * rest - 1
        /\ FromBits(W-1-amt .. W-1) = WordMod - rest
        /\ FromBits(0 .. W-2-amt) = rest - 1
    <2>1. FromBits(amt .. W-1) = Pow2[W] - Pow2[amt]
      BY <1>1, FromBitsRange
    <2>2. FromBits(0 .. (W-amt)-1) = Pow2[W-amt] - Pow2[0]
      <3>1. W-amt \in Nat /\ 0 <= W-amt /\ W-amt <= W
        BY <1>1
      <3> QED BY <3>1, FromBitsRange
    <2>3. FromBits((W-1)-amt .. W-1) = Pow2[W] - Pow2[(W-1)-amt]
      <3>1. (W-1)-amt <= W
        BY <1>1
      <3> QED BY <1>1, <3>1, FromBitsRange
    <2>4. FromBits(0 .. ((W-1)-amt)-1) = Pow2[(W-1)-amt] - Pow2[0]
      <3>1. 0 <= (W-1)-amt /\ (W-1)-amt <= W
        BY <1>1
      <3> QED BY <1>1, <3>1, FromBitsRange
    <2>5. W-1-amt = (W-1)-amt /\ W-1-amt = (W-amt)-1 /\ W-2-amt = ((W-1)-amt)-1
      BY <1>1
    <2> QED BY <1>4, <2>1, <2>2, <2>3, <2>4, <2>5, Pow2Step DEF WordMod
  <1> HIDE DEF low, rest
  <1>6. WordMod = low * (2*rest) /\ HalfMod \in Nat /\ WordMod = 2 * HalfMod /\ WordMod \in Nat
        /\ Ones = WordMod - 1 /\ Signed(SMin) = -HalfMod /\ Signed(SMax) = HalfMod - 1
    <2>1. low * (2*rest) = 2 * (low * rest)
      BY <1>2
    <2> QED BY <1>3, <2>1, BenchWords DEF Signed
  <1>7. low <= HalfMod /\ rest <= HalfMod
    <2>1. rest * low >= low /\ low * rest >= rest /\ rest * low = low * rest
      BY <1>2, TimesPositive
    <2> QED BY <1>3, <2>1
  <1>8. (Ones * low) % WordMod = WordMod - low
    <2>1. Ones * low = WordMod * (low - 1) + (WordMod - low)
      <3>1. (WordMod - 1) * low = WordMod * low - low
        BY <1>2, <1>6
      <3>2. WordMod * (low - 1) = WordMod * low - WordMod
        BY <1>2, <1>6
      <3>3. WordMod * low \in Int
        BY <1>2, <1>6
      <3> QED BY <1>2, <1>6, <3>1, <3>2, <3>3
    <2>2. Ones * low \in Int /\ low - 1 \in Int /\ WordMod - low \in 0 .. WordMod-1 /\ WordMod > 0
      BY <1>2, <1>6, <1>7
    <2> DEFINE x == Ones * low
               q == low - 1
               r == WordMod - low
    <2>3. x \in Int /\ q \in Int /\ r \in 0 .. WordMod-1 /\ WordMod > 0 /\ x = WordMod * q + r
      BY <2>1, <2>2
    <2> HIDE DEF x, q, r
    <2>4. x % WordMod = r
      BY <1>6, <2>3, DivModUnique
    <2> QED BY <2>4 DEF x, r
  <1>9. Ones \div low = 2*rest - 1
    <2>1. Ones = low * (2*rest - 1) + (low - 1)
      <3>1. low * (2*rest - 1) = low * (2*rest) - low
        BY <1>2
      <3>2. low * (2*rest) \in Int
        BY <1>2
      <3> QED BY <1>2, <1>6, <3>1, <3>2
    <2>2. Ones \in Int /\ 2*rest - 1 \in Int /\ low - 1 \in 0 .. low-1
      BY <1>2, <1>6
    <2> QED BY <1>2, <2>1, <2>2, DivModUnique
  <1>10. ((-HalfMod) \div low) % WordMod = WordMod - rest
    <2>1. -HalfMod = low * (-rest) + 0
      BY <1>2, <1>3
    <2>2. (-HalfMod) \div low = -rest
      <3>1. -HalfMod \in Int /\ -rest \in Int /\ 0 \in 0 .. low-1
        BY <1>2, <1>6
      <3> QED BY <1>2, <2>1, <3>1, DivModUnique
    <2>3. (-rest) % WordMod = WordMod - rest
      <3>1. -rest = WordMod * (-1) + (WordMod - rest)
        BY <1>2, <1>6
      <3>2. -rest \in Int /\ WordMod - rest \in 0 .. WordMod-1 /\ WordMod > 0
        BY <1>2, <1>6, <1>7
      <3> QED BY <1>6, <3>1, <3>2, DivModUnique
    <2> QED BY <2>2, <2>3
  <1>11. ((HalfMod - 1) \div low) % WordMod = rest - 1
    <2>1. HalfMod - 1 = low * (rest - 1) + (low - 1)
      <3>1. low * (rest - 1) = low * rest - low
        BY <1>2
      <3> QED BY <1>2, <1>3, <3>1
    <2>2. (HalfMod - 1) \div low = rest - 1
      <3>1. HalfMod - 1 \in Int /\ rest - 1 \in Int /\ low - 1 \in 0 .. low-1
        BY <1>2, <1>6
      <3> QED BY <1>2, <2>1, <3>1, DivModUnique
    <2>3. (rest - 1) % WordMod = rest - 1
      BY <1>2, <1>6, <1>7
    <2> QED BY <2>2, <2>3
  <1> QED BY <1>5, <1>6, <1>8, <1>9, <1>10, <1>11 DEF low

(* An amount of W or more counts modulo W.                                 *)
LEMMA ShiftSweep == \A v \in Shifts : Alu(v.op, v.a, v.b) = v.expect
  <1> SUFFICES ASSUME NEW amt \in 0 .. W-1, NEW over \in {0, W}, NEW v,
                      \/ v = AluVector("SLL", Ones, amt + over, FromBits(amt .. W-1))
                      \/ v = AluVector("SRL", Ones, amt + over, FromBits(0 .. W-1-amt))
                      \/ v = AluVector("SRA", SMin, amt + over, FromBits(W-1-amt .. W-1))
                      \/ v = AluVector("SRA", SMax, amt + over, FromBits(0 .. W-2-amt))
               PROVE  Alu(v.op, v.a, v.b) = v.expect
    BY DEF Shifts
  <1>1. (amt + over) % W = amt
    <2>1. W \in Nat /\ W > 0 /\ amt \in 0 .. W-1
      BY WAssumption
    <2>2. CASE over = 0
      BY <2>1, <2>2
    <2>3. CASE over = W
      <3>1. amt + W = W * 1 + amt /\ amt + W \in Int
        BY <2>1
      <3> QED BY <2>1, <2>3, <3>1, DivModUnique
    <2> QED BY <2>2, <2>3
  <1>2. \A a, k : /\ Alu("SLL", a, k) = (a * Pow2[k % W]) % WordMod
                 /\ Alu("SRL", a, k) = a \div Pow2[k % W]
                 /\ Alu("SRA", a, k) = (Signed(a) \div Pow2[k % W]) % WordMod
    BY DEF Alu, ShiftL, ShiftR, ShiftRA
  <1> QED BY <1>1, <1>2, ShiftedPatterns DEF AluVector
-----------------------------------------------------------------------------
(* The testbench of the iterative unit, and the benches together.          *)

(* How far an operation is when it has been polled c times.                *)
Polled(m, c) ==
  /\ m.state \in {"MUL_RUN", "DIV_RUN"} => c = m.iter_cnt + 1
  /\ m.state = "FINISH" => c = W + 1
  /\ m.state = "IDLE" => m.done /\ c = W + 2

(* The start pulse sets the counter to 0.                                  *)
LEMMA StartPolled ==
  ASSUME NEW m \in MuldivRegisters, m.state = "IDLE",
         NEW a \in Word, NEW b \in Word, NEW op \in 0 .. 7
  PROVE  Polled(MuldivNext(m, TRUE, TRUE, a, b, op), 1)
  <1> DEFINE started == [[m EXCEPT !.op_a_r = a, !.op_r = op]
                            EXCEPT !.busy = TRUE, !.done = FALSE, !.iter_cnt = 0]
             next == MuldivNext(m, TRUE, TRUE, a, b, op)
  <1>1. started \in MuldivRegisters /\ started.iter_cnt = 0
    <2>1. 0 \in 0 .. W
      BY WAssumption
    <2> QED BY <2>1 DEF MuldivRegisters
  <1>2. next = IF op < 4 THEN MulAccept(started, a, b, op) ELSE DivAccept(started, a, b, op)
    BY DEF MuldivNext, MuldivAccept
  <1> HIDE DEF started, next
  <1>3. next.iter_cnt = 0 /\ next.state \in {"MUL_RUN", "DIV_RUN"}
    <2>1. CASE op < 4
      BY <1>1, <1>2, <2>1 DEF MulAccept, MuldivRegisters
    <2>2. CASE ~(op < 4)
      BY <1>1, <1>2, <2>2 DEF DivAccept, MuldivRegisters
    <2> QED BY <2>1, <2>2
  <1>4. Polled(next, 1)
    BY <1>3 DEF Polled
  <1> QED BY <1>4 DEF next

(* Each poll is one iteration, the last two finish and deliver.            *)
LEMMA StepPolled ==
  ASSUME NEW m, UnitPhases(m), m.state # "IDLE", NEW c \in Nat, Polled(m, c),
         NEW a \in Word, NEW b \in Word, NEW op \in 0 .. 7
  PROVE  Polled(MuldivNext(m, FALSE, TRUE, a, b, op), c + 1) /\ c <= W + 1
  <1> DEFINE next == MuldivNext(m, FALSE, TRUE, a, b, op)
  <1>1. /\ m \in MuldivRegisters /\ m.iter_cnt \in 0 .. W
        /\ m.state \in {"IDLE", "MUL_RUN", "DIV_RUN", "FINISH"}
    BY RegisterTypes DEF UnitPhases
  <1>2. CASE m.state \in {"MUL_RUN", "DIV_RUN"}
    <2>1. m.iter_cnt < W
      BY <1>2 DEF UnitPhases
    <2>2. Iterated(m) \in MuldivRegisters
      BY <1>1, <2>1, IteratedType
    <2>3. \/ next = [Iterated(m) EXCEPT !.mul_acc = MulStep(m.mul_acc, m.mul_mcand)]
          \/ next = [Iterated(m) EXCEPT !.div_rem = DivStep(m.div_rem, m.div_divisor)]
      BY <1>2 DEF MuldivNext
    <2> HIDE DEF next
    <2>4. next.state = Iterated(m).state /\ next.iter_cnt = Iterated(m).iter_cnt
      BY <2>2, <2>3 DEF MuldivRegisters
    <2>5. next.state = (IF m.iter_cnt = W - 1 THEN "FINISH" ELSE m.state)
          /\ next.iter_cnt = m.iter_cnt + 1
      BY <1>1, <2>4, IteratedFields
    <2>6. c = m.iter_cnt + 1
      BY <1>2 DEF Polled
    <2>7. Polled(next, c + 1) /\ c <= W + 1
      BY <1>1, <1>2, <2>1, <2>5, <2>6, WAssumption DEF Polled
    <2> QED BY <2>7 DEF next
  <1>3. CASE m.state = "FINISH"
    <2>1. next = [m EXCEPT !.busy = FALSE, !.done = TRUE, !.state = "IDLE"]
      BY <1>3 DEF MuldivNext
    <2> HIDE DEF next
    <2>2. next.done = TRUE /\ next.state = "IDLE"
      BY <1>1, <2>1 DEF MuldivRegisters
    <2>3. c = W + 1
      BY <1>3 DEF Polled
    <2>4. Polled(next, c + 1) /\ c <= W + 1
      BY <2>2, <2>3, WAssumption DEF Polled
    <2> QED BY <2>4 DEF next
  <1> QED BY <1>1, <1>2, <1>3

(* Between operations the unit is idle; in one it does the work of the     *)
(* vector it was started with.                                             *)
IterInv ==
  /\ n \in 1 .. MuldivVectors + 1
  /\ cyc \in Nat
  /\ cyc = 0 => UnitPhases(dut) /\ dut.state = "IDLE"
  /\ cyc > 0 => /\ n <= MuldivVectors
                /\ Polled(dut, cyc)
                /\ MuldivInv(dut, MuldivVector(n).op, MuldivVector(n).a, MuldivVector(n).b)

BenchInv ==
  /\ bench = "alu" => vec \in Boundaries \cup Shifts /\ verdict # "FAIL"
  /\ bench = "muldiv" => /\ vec \in {MuldivVector(k) : k \in 1 .. MuldivVectors}
                         /\ verdict # "FAIL"
  /\ bench = "muldiv_iter" => IterInv /\ verdict # "FAIL"

(* The start pulse begins the vector's operation.                          *)
LEMMA IterStartInv == IterInv /\ IterStart => IterInv'
  <1> SUFFICES ASSUME IterInv, IterStart PROVE IterInv'
    OBVIOUS
  <1> DEFINE v == MuldivVector(n)
  <1>1. n \in 1 .. MuldivVectors /\ cyc = 0 /\ cyc' = 1 /\ n' = n
    BY MuldivVectorType DEF IterInv, IterStart
  <1>2. v.op \in 0 .. 7 /\ v.a \in Word /\ v.b \in Word
    BY <1>1, MuldivVectorType
  <1>3. UnitPhases(dut) /\ dut.state = "IDLE" /\ dut \in MuldivRegisters
    BY <1>1 DEF IterInv, UnitPhases
  <1>4. dut' = MuldivNext(dut, TRUE, TRUE, v.a, v.b, v.op)
    BY DEF IterStart, IterEdge
  <1> HIDE DEF v
  <1>5. Polled(dut', 1) /\ MuldivInv(dut', v.op, v.a, v.b)
    BY <1>2, <1>3, <1>4, StartPolled, StartWork
  <1> QED BY <1>1, <1>5, MuldivVectorType DEF IterInv, v

(* A poll finds the result of the vector, or the operation goes on; it is  *)
(* done in W + 2 polls, and the bench allows 2W - 4.                       *)
LEMMA IterPollInv ==
  IterInv /\ verdict # "FAIL" /\ IterPoll => IterInv' /\ verdict' # "FAIL"
  <1> SUFFICES ASSUME IterInv, verdict # "FAIL", IterPoll PROVE IterInv' /\ verdict' # "FAIL"
    OBVIOUS
  <1> DEFINE v == MuldivVector(n)
  <1>1. n \in 1 .. MuldivVectors /\ cyc \in Nat /\ cyc > 0 /\ Polled(dut, cyc)
    BY MuldivVectorType DEF IterInv, IterPoll
  <1>2. v.op \in 0 .. 7 /\ v.a \in Word /\ v.b \in Word
    BY <1>1, MuldivVectorType
  <1>3. MuldivInv(dut, v.op, v.a, v.b)
    BY <1>1 DEF IterInv
  <1>4. dut' = MuldivNext(dut, FALSE, TRUE, v.a, v.b, v.op)
    BY DEF IterPoll, IterEdge
  <1> HIDE DEF v
  <1>5. UnitPhases(dut)
    BY <1>3 DEF MuldivInv
  <1>6. CASE dut.done
    <2>1. dut.state = "IDLE" /\ dut \in MuldivRegisters
      BY <1>5, <1>6 DEF UnitPhases
    <2>2. dut' = [dut EXCEPT !.done = FALSE]
      BY <1>4, <2>1 DEF MuldivNext
    <2>3. dut'.state = "IDLE"
      BY <2>1, <2>2 DEF MuldivRegisters
    <2>4. UnitPhases(dut')
      BY <1>2, <1>4, <1>5, UnitPhasesNext
    <2>5. MuldivBus(dut) = ref(v.a, v.b, v.op)
      BY <1>2, <1>3, <1>6, WorkDelivers, ReferenceAgrees
    <2>6. verdict' = "PASS" /\ n' = n + 1 /\ cyc' = 0
      BY <1>6, <2>5 DEF IterPoll, Compare, v
    <2> QED BY <1>1, <2>3, <2>4, <2>6, MuldivVectorType DEF IterInv
  <1>7. CASE ~dut.done
    <2>1. dut.state # "IDLE"
      BY <1>1, <1>7 DEF Polled
    <2>2. Polled(dut', cyc + 1) /\ cyc <= W + 1
      BY <1>1, <1>2, <1>4, <1>5, <2>1, StepPolled
    <2>3. cyc # Polls
      BY <1>1, <2>2, UnitBenchAssumption, WAssumption DEF Polls
    <2>4. cyc' = cyc + 1 /\ n' = n /\ verdict' = verdict
      BY <1>7, <2>3 DEF IterPoll
    <2>5. MuldivInv(dut', v.op, v.a, v.b)
      BY <1>2, <1>3, <1>4, <2>1, StepWork
    <2> QED BY <1>1, <2>2, <2>4, <2>5, MuldivVectorType DEF IterInv, v
  <1> QED BY <1>6, <1>7

(* At every width of six bits or more the ALU is right at its boundaries   *)
(* and for every shift amount, and both multiply/divide units give the     *)
(* benches' reference result, the iterative one within the bound on its    *)
(* polls (alu.sv:12-24, tb_alu.cpp:18-58,78-97, tb_muldiv_iter.cpp:57-79). *)
THEOREM UnitsAlwaysAsReference == UbSpec => []UnitsAsReference
  <1>1. UbInit => BenchInv
    <2> SUFFICES ASSUME UbInit PROVE BenchInv
      OBVIOUS
    <2>1. n = 1 /\ cyc = 0 /\ verdict = "none"
      BY DEF UbInit
    <2>2. ASSUME bench = "alu" PROVE vec \in Boundaries \cup Shifts
      BY <2>2 DEF UbInit
    <2>3. ASSUME bench = "muldiv" PROVE vec \in {MuldivVector(k) : k \in 1 .. MuldivVectors}
      BY <2>3 DEF UbInit
    <2>4. ASSUME bench = "muldiv_iter" PROVE IterInv
      <3>1. dut = MuldivReset
        BY <2>4 DEF UbInit
      <3>2. UnitPhases(dut) /\ dut.state = "IDLE"
        BY <3>1, UnitPhasesReset DEF MuldivReset
      <3> QED BY <2>1, <3>2, MuldivVectorType DEF IterInv
    <2> QED BY <2>1, <2>2, <2>3, <2>4 DEF BenchInv
  <1>2. BenchInv /\ [UbNext]_ubvars => BenchInv'
    <2> SUFFICES ASSUME BenchInv, [UbNext]_ubvars PROVE BenchInv'
      OBVIOUS
    <2>1. CASE Eval
      <3>1. bench' = bench /\ vec' = vec /\ verdict = "none" /\ bench # "muldiv_iter"
        BY <2>1 DEF Eval
      <3>2. ASSUME bench = "alu" PROVE vec' \in Boundaries \cup Shifts /\ verdict' # "FAIL"
        <4>1. vec \in Boundaries \cup Shifts
          BY <3>2 DEF BenchInv
        <4>2. Alu(vec.op, vec.a, vec.b) = vec.expect
          <5>1. CASE vec \in Shifts
            BY <5>1, ShiftSweep
          <5>2. CASE vec \in Boundaries
            BY <5>2, BoundaryResults
          <5> QED BY <4>1, <5>1, <5>2
        <4>3. verdict' = "PASS"
          BY <2>1, <3>1, <3>2, <4>2 DEF Eval, Compare
        <4> QED BY <3>1, <4>1, <4>3
      <3>3. ASSUME bench = "muldiv"
            PROVE  /\ vec' \in {MuldivVector(k) : k \in 1 .. MuldivVectors}
                   /\ verdict' # "FAIL"
        <4>1. PICK k \in 1 .. MuldivVectors : vec = MuldivVector(k)
          BY <3>3 DEF BenchInv
        <4>2. vec.op \in 0 .. 7 /\ vec.a \in Word /\ vec.b \in Word
          BY <4>1, MuldivVectorType
        <4>3. MuldivResult(vec.op, vec.a, vec.b) = ref(vec.a, vec.b, vec.op)
          BY <4>2, ReferenceAgrees
        <4>4. verdict' = "PASS"
          BY <2>1, <3>1, <3>3, <4>3 DEF Eval, Compare
        <4> QED BY <3>1, <4>1, <4>4
      <3> QED BY <3>1, <3>2, <3>3 DEF BenchInv, Boundaries, Shifts, MuldivVector, MuldivVectors
    <2>2. CASE IterStart
      <3>1. bench = "muldiv_iter" /\ bench' = bench /\ verdict' = verdict
        BY <2>2 DEF IterStart
      <3>2. IterInv'
        BY <2>2, <3>1, IterStartInv DEF BenchInv
      <3> QED BY <3>1, <3>2 DEF BenchInv
    <2>3. CASE IterPoll
      <3>1. bench = "muldiv_iter" /\ bench' = bench
        BY <2>3 DEF IterPoll
      <3>2. IterInv' /\ verdict' # "FAIL"
        BY <2>3, <3>1, IterPollInv DEF BenchInv
      <3> QED BY <3>1, <3>2 DEF BenchInv
    <2>4. CASE RegfileStep
      BY <2>4 DEF RegfileStep, BenchInv
    <2>5. CASE UNCHANGED ubvars
      BY <2>5 DEF ubvars, BenchInv, IterInv, Boundaries, Shifts, MuldivVector, MuldivVectors
    <2> QED BY <2>1, <2>2, <2>3, <2>4, <2>5 DEF UbNext
  <1>3. BenchInv => UnitsAsReference
    BY DEF BenchInv, UnitsAsReference
  <1> QED BY <1>1, <1>2, <1>3, PTL DEF UbSpec

-----------------------------------------------------------------------------
(* Words of the instruction set.                                           *)

(* Exp2 is the powers of two, up to the bit below the sign.                *)
LEMMA Exp2Step ==
  /\ Exp2[0] = 1
  /\ \A k \in 0 .. 29 : Exp2[k+1] = 2 * Exp2[k]
  /\ \A k \in 0 .. 30 : Exp2[k] \in Nat /\ Exp2[k] > 0
  <1>1. Exp2 = [k \in 0 .. 30 |-> IF k = 0 THEN 1 ELSE 2 * Exp2[k-1]]
    BY PowersDefined DEF Exp2
  <1>2. IsPowers(Exp2, 30)
    BY <1>1, PowersUnfold
  <1> QED BY <1>2 DEF IsPowers

(* Those of them that are written out.                                     *)
LEMMA Exp2Values ==
  /\ Exp2[0] = 1 /\ Exp2[1] = 2 /\ Exp2[2] = 4 /\ Exp2[3] = 8 /\ Exp2[4] = 16 /\ Exp2[5] = 32
  /\ Exp2[6] = 64 /\ Exp2[7] = 128 /\ Exp2[10] = 1024 /\ Exp2[11] = 2048
  /\ Exp2[12] = 4096 /\ Exp2[20] = 1048576
  <1>1. /\ Exp2[0+1] = 2 * Exp2[0] /\ Exp2[1+1] = 2 * Exp2[1] /\ Exp2[2+1] = 2 * Exp2[2]
        /\ Exp2[3+1] = 2 * Exp2[3] /\ Exp2[4+1] = 2 * Exp2[4] /\ Exp2[5+1] = 2 * Exp2[5]
        /\ Exp2[6+1] = 2 * Exp2[6] /\ Exp2[7+1] = 2 * Exp2[7] /\ Exp2[8+1] = 2 * Exp2[8]
        /\ Exp2[9+1] = 2 * Exp2[9] /\ Exp2[10+1] = 2 * Exp2[10] /\ Exp2[11+1] = 2 * Exp2[11]
    BY Exp2Step
  <1>2. /\ Exp2[12+1] = 2 * Exp2[12] /\ Exp2[13+1] = 2 * Exp2[13] /\ Exp2[14+1] = 2 * Exp2[14]
        /\ Exp2[15+1] = 2 * Exp2[15] /\ Exp2[16+1] = 2 * Exp2[16] /\ Exp2[17+1] = 2 * Exp2[17]
        /\ Exp2[18+1] = 2 * Exp2[18] /\ Exp2[19+1] = 2 * Exp2[19]
    BY Exp2Step
  <1>3. Exp2[12] = 4096
    BY <1>1, Exp2Step
  <1>4. Exp2[20] = 1048576
    BY <1>2, <1>3
  <1> QED BY <1>1, <1>3, <1>4, Exp2Step

(* The law of exponents.                                                   *)
LEMMA Exp2Sum ==
  ASSUME NEW i \in Nat, NEW j \in Nat, i + j <= 30
  PROVE  Exp2[i + j] = Exp2[i] * Exp2[j]
  <1> DEFINE S == {m \in Nat : i + m <= 30 => Exp2[i + m] = Exp2[i] * Exp2[m]}
  <1>1. 0 \in S
    BY Exp2Step
  <1>2. ASSUME NEW m \in Nat, m \in S PROVE m+1 \in S
    <2> SUFFICES ASSUME i + (m+1) <= 30 PROVE Exp2[i + (m+1)] = Exp2[i] * Exp2[m+1]
      OBVIOUS
    <2>1. Exp2[i + m] = Exp2[i] * Exp2[m]
      BY <1>2
    <2>2. Exp2[(i + m) + 1] = 2 * Exp2[i + m] /\ Exp2[m+1] = 2 * Exp2[m]
      <3>1. i + m \in 0 .. 29 /\ m \in 0 .. 29
        OBVIOUS
      <3> QED BY <3>1, Exp2Step
    <2>3. i + (m+1) = (i + m) + 1
      OBVIOUS
    <2>4. Exp2[i] \in Nat /\ Exp2[m] \in Nat
      BY Exp2Step
    <2>5. 2 * (Exp2[i] * Exp2[m]) = Exp2[i] * (2 * Exp2[m])
      BY <2>4
    <2> QED BY <2>1, <2>2, <2>3, <2>5
  <1>3. Nat \subseteq S
    <2> HIDE DEF S
    <2> QED BY <1>1, <1>2, SetInduction
  <1> QED BY <1>3

(* S is a word sign-extended from bit k.                                   *)
SignFrom(S, k) == S \subseteq Bit /\ \A i \in k .. 31 : i \in S <=> 31 \in S

(* A number of k bits and a sign is one.                                   *)
LEMMA SignedBits ==
  ASSUME NEW k \in 0 .. 30, NEW x \in Int, -Exp2[k] <= x, x < Exp2[k]
  PROVE  SignFrom(BitsOf(x), k)
  <1>1. 31 \in BitsOf(x) <=> x < 0
    BY DEF BitsOf
  <1>2. ASSUME NEW i \in k .. 30 PROVE (x \div Exp2[i]) % 2 = 1 <=> x < 0
    <2> DEFINE p == Exp2[i]
    <2>1. p \in Nat /\ Exp2[k] \in Nat /\ p >= Exp2[k]
      <3>1. i-k \in Nat /\ i-k \in 0 .. 30 /\ k + (i-k) = i /\ k \in Nat /\ i \in 0 .. 30
        OBVIOUS
      <3>2. Exp2[k + (i-k)] = Exp2[k] * Exp2[i-k]
        BY <3>1, Exp2Sum
      <3>3. Exp2[i-k] \in Nat /\ Exp2[i-k] > 0 /\ Exp2[k] \in Nat /\ Exp2[i] \in Nat
        BY <3>1, Exp2Step
      <3>4. Exp2[i-k] * Exp2[k] >= Exp2[k]
        BY <3>3, TimesPositive
      <3>5. Exp2[i-k] * Exp2[k] = Exp2[k] * Exp2[i-k]
        BY <3>3
      <3> QED BY <3>1, <3>2, <3>3, <3>4, <3>5
    <2> HIDE DEF p
    <2>2. CASE x < 0
      <3>1. x = p * (-1) + (p + x) /\ p + x \in 0 .. p-1 /\ p > 0
        BY <2>1, <2>2
      <3>2. x \div p = -1
        BY <2>1, <3>1, DivModUnique
      <3> QED BY <2>2, <3>2 DEF p
    <2>3. CASE ~(x < 0)
      <3>1. x = p * 0 + x /\ x \in 0 .. p-1 /\ p > 0
        BY <2>1, <2>3
      <3>2. x \div p = 0
        BY <2>1, <3>1, DivModUnique
      <3> QED BY <2>3, <3>2 DEF p
    <2> QED BY <2>2, <2>3
  <1>3. \A i \in k .. 30 : i \in BitsOf(x) <=> x < 0
    BY <1>2 DEF BitsOf
  <1> QED BY <1>1, <1>3 DEF SignFrom, BitsOf, Bit

(* A multiple of 2^k has no bit below k.                                   *)
LEMMA MultipleBits ==
  ASSUME NEW k \in 0 .. 30, NEW y \in Int
  PROVE  \A i \in 0 .. k-1 : i \notin BitsOf(Exp2[k] * y)
  <1> TAKE i \in 0 .. k-1
  <1> DEFINE x == Exp2[k] * y
             p == Exp2[i]
             h == Exp2[(k-1)-i]
  <1>1. (k-1)-i \in 0 .. 29 /\ ((k-1)-i)+1 = k-i /\ k-i \in Nat /\ i \in Nat /\ i + (k-i) = k
    OBVIOUS
  <1>2. p \in Nat /\ p > 0 /\ h \in Nat
    BY <1>1, Exp2Step
  <1>3. Exp2[k-i] = 2*h
    BY <1>1, Exp2Step
  <1>4. Exp2[i + (k-i)] = Exp2[i] * Exp2[k-i]
    BY <1>1, Exp2Sum
  <1>5. Exp2[k] = p * (2*h)
    BY <1>1, <1>3, <1>4
  <1> HIDE DEF p, h
  <1>6. x = p * (2*(h*y)) + 0 /\ x \in Int /\ h*y \in Int
    <2>1. (p * (2*h)) * y = p * (2*(h*y))
      BY <1>2
    <2>2. h*y \in Int /\ p * (2*(h*y)) \in Int
      BY <1>2
    <2> QED BY <1>5, <2>1, <2>2
  <1> DEFINE q == 2*(h*y)
  <1>7. q \in Int /\ q % 2 = 0
    <2>1. PICK z \in Int : z = h*y
      BY <1>6
    <2> QED BY <2>1
  <1> HIDE DEF x
  <1>8. x \div p = q
    <2>1. x = p * q + 0 /\ 0 \in 0 .. p-1
      BY <1>2, <1>6
    <2> HIDE DEF q
    <2> QED BY <1>2, <1>6, <1>7, <2>1, DivModUnique
  <1>9. i \notin BitsOf(x)
    BY <1>7, <1>8 DEF BitsOf, p
  <1> QED BY <1>9 DEF x

(* The number in a slice, bit by bit.                                      *)
LEMMA ValueSum ==
  ASSUME NEW S
  PROVE  LET bit(i) == IF i \in S THEN 1 ELSE 0
         IN Value(S) = bit(0) + 2 * bit(1) + 4 * bit(2) + 8 * bit(3) + 16 * bit(4)
                         + 32 * bit(5) + 64 * bit(6)
  <1> DEFINE Sum[m \in 0 .. 7] ==
               IF m = 0 THEN 0 ELSE Sum[m-1] + (IF m-1 \in S THEN Exp2[m-1] ELSE 0)
             w(i) == IF i \in S THEN Exp2[i] ELSE 0
             g == [m \in 0 .. 7 |->
                     CASE m = 0 -> 0 [] m = 1 -> w(0) [] m = 2 -> w(0) + w(1)
                       [] m = 3 -> w(0) + w(1) + w(2) [] m = 4 -> w(0) + w(1) + w(2) + w(3)
                       [] m = 5 -> w(0) + w(1) + w(2) + w(3) + w(4)
                       [] m = 6 -> w(0) + w(1) + w(2) + w(3) + w(4) + w(5)
                       [] OTHER -> w(0) + w(1) + w(2) + w(3) + w(4) + w(5) + w(6)]
             h == [m \in 0 .. 7 |-> IF m = 0 THEN 0 ELSE g[m-1] + w(m-1)]
  <1>1. w(0) \in Nat /\ w(1) \in Nat /\ w(2) \in Nat /\ w(3) \in Nat /\ w(4) \in Nat
        /\ w(5) \in Nat /\ w(6) \in Nat
    BY Exp2Values
  <1>2. g = h
    <2> HIDE DEF w
    <2>1. ASSUME NEW m \in 0 .. 7 PROVE g[m] = h[m]
      BY <1>1
    <2> QED BY <2>1
  <1>3. Sum = [m \in 0 .. 7 |->
                 IF m = 0 THEN 0 ELSE Sum[m-1] + (IF m-1 \in S THEN Exp2[m-1] ELSE 0)]
    <2> HIDE DEF g
    <2>1. \E f : f = [m \in 0 .. 7 |->
                        IF m = 0 THEN 0 ELSE f[m-1] + (IF m-1 \in S THEN Exp2[m-1] ELSE 0)]
      BY <1>2
    <2> QED BY <2>1
  <1> HIDE DEF Sum, w, g
  <1>4. /\ Sum[0] = 0
        /\ \A m \in 1 .. 7 : Sum[m] = Sum[m-1] + (IF m-1 \in S THEN Exp2[m-1] ELSE 0)
    BY <1>3
  <1>5. /\ Sum[1] = Sum[0] + (IF 0 \in S THEN Exp2[0] ELSE 0)
        /\ Sum[2] = Sum[1] + (IF 1 \in S THEN Exp2[1] ELSE 0)
        /\ Sum[3] = Sum[2] + (IF 2 \in S THEN Exp2[2] ELSE 0)
        /\ Sum[4] = Sum[3] + (IF 3 \in S THEN Exp2[3] ELSE 0)
        /\ Sum[5] = Sum[4] + (IF 4 \in S THEN Exp2[4] ELSE 0)
        /\ Sum[6] = Sum[5] + (IF 5 \in S THEN Exp2[5] ELSE 0)
        /\ Sum[7] = Sum[6] + (IF 6 \in S THEN Exp2[6] ELSE 0)
    BY <1>4
  <1>6. Value(S) = Sum[7]
    BY DEF Value, Sum
  <1> QED BY <1>4, <1>5, <1>6, Exp2Values

(* A number of seven bits is the value of its bits.                        *)
LEMMA ValueOfBits ==
  ASSUME NEW x \in 0 .. 127
  PROVE  Value(BitsOf(x)) = x /\ BitsOf(x) \subseteq 0 .. 6
  <1>1. SignFrom(BitsOf(x), 7)
    BY Exp2Values, SignedBits
  <1>2. BitsOf(x) \subseteq 0 .. 6
    <2>1. 31 \notin BitsOf(x)
      BY DEF BitsOf
    <2> QED BY <1>1, <2>1 DEF SignFrom, Bit
  <1>3. \A i \in 0 .. 6 : i \in BitsOf(x) <=> (x \div Exp2[i]) % 2 = 1
    BY DEF BitsOf
  <1>4. /\ 0 \in BitsOf(x) <=> (x \div 1) % 2 = 1
        /\ 1 \in BitsOf(x) <=> (x \div 2) % 2 = 1
        /\ 2 \in BitsOf(x) <=> (x \div 4) % 2 = 1
        /\ 3 \in BitsOf(x) <=> (x \div 8) % 2 = 1
        /\ 4 \in BitsOf(x) <=> (x \div 16) % 2 = 1
        /\ 5 \in BitsOf(x) <=> (x \div 32) % 2 = 1
        /\ 6 \in BitsOf(x) <=> (x \div 64) % 2 = 1
    BY <1>3, Exp2Values
  <1>5. x = ((x \div 1) % 2) + 2 * ((x \div 2) % 2) + 4 * ((x \div 4) % 2) + 8 * ((x \div 8) % 2)
              + 16 * ((x \div 16) % 2) + 32 * ((x \div 32) % 2) + 64 * ((x \div 64) % 2)
    OBVIOUS
  <1>6. \A z \in Nat : z % 2 = 0 \/ z % 2 = 1
    OBVIOUS
  <1>7. /\ x \div 1 \in Nat /\ x \div 2 \in Nat /\ x \div 4 \in Nat /\ x \div 8 \in Nat
        /\ x \div 16 \in Nat /\ x \div 32 \in Nat /\ x \div 64 \in Nat
    OBVIOUS
  <1>8. Value(BitsOf(x)) = x
    BY <1>4, <1>5, <1>6, <1>7, ValueSum
  <1> QED BY <1>2, <1>8

(* The opcode is read back from the low seven bits, whatever the others.   *)
LEMMA OpcodeRead ==
  ASSUME NEW w, NEW op \in Opcode \cup {"none"}, Slice(w, 6, 0, 0) = OpcodeBits(op)
  PROVE  OpcodeOf(w) = IF op = "none" THEN "FENCE" ELSE op
  <1>1. \A o \in Opcode \cup {"none"} : OpcodeNumber(o) \in 0 .. 127
    BY DEF OpcodeNumber, Opcode
  <1>2. Value(Slice(w, 6, 0, 0)) = OpcodeNumber(op)
    BY <1>1, ValueOfBits DEF OpcodeBits
  <1> DEFINE known == {o \in Opcode \ {"FENCE"} : OpcodeNumber(o) = Value(Slice(w, 6, 0, 0))}
  <1>3. OpcodeOf(w) = IF known = {} THEN "FENCE" ELSE CHOOSE o \in known : TRUE
    BY DEF OpcodeOf
  <1>4. CASE op \in {"FENCE", "none"}
    <2>1. known = {}
      BY <1>2, <1>4 DEF OpcodeNumber, Opcode
    <2> QED BY <1>3, <1>4, <2>1
  <1>5. CASE op \notin {"FENCE", "none"}
    <2>1. known = {op}
      BY <1>2, <1>5 DEF OpcodeNumber, Opcode
    <2> HIDE DEF known
    <2>2. (CHOOSE o \in known : TRUE) \in known /\ known # {}
      BY <2>1
    <2> QED BY <1>3, <1>5, <2>1, <2>2
  <1> QED BY <1>4, <1>5

-----------------------------------------------------------------------------
(* Immediates.                                                             *)

(* A slice, element by element.                                            *)
SliceAt(w, hi, lo, at) ==
  /\ Slice(w, hi, lo, at) \subseteq at .. at + (hi - lo)
  /\ \A j \in at .. at + (hi - lo) : j \in Slice(w, hi, lo, at) <=> (j - at) + lo \in w

LEMMA InSlice ==
  ASSUME NEW w \in SUBSET Bit, NEW hi \in Int, NEW lo \in Int, NEW at \in Int
  PROVE  SliceAt(w, hi, lo, at)
  <1>1. w \subseteq Int
    BY DEF Bit
  <1>2. ASSUME NEW i \in w, i \in lo .. hi
        PROVE  (i - lo) + at \in at .. at + (hi - lo) /\ (((i - lo) + at) - at) + lo = i
    BY <1>1, <1>2
  <1>3. ASSUME NEW j \in at .. at + (hi - lo), (j - at) + lo \in w
        PROVE  j \in Slice(w, hi, lo, at)
    <2>1. j = (((j - at) + lo) - lo) + at /\ (j - at) + lo \in lo .. hi
      OBVIOUS
    <2> QED BY <1>3, <2>1 DEF Slice
  <1> QED BY <1>2, <1>3 DEF Slice, SliceAt

(* An opcode takes the low seven bits.                                     *)
LEMMA OpcodeBitsLow ==
  ASSUME NEW op \in Opcode \cup {"none"}
  PROVE  OpcodeBits(op) \subseteq 0 .. 6
  <1>1. OpcodeNumber(op) \in 0 .. 127
    BY DEF OpcodeNumber, Opcode
  <1> QED BY <1>1, ValueOfBits DEF OpcodeBits

(* Bits above the opcode do not change it.                                 *)
LEMMA OpcodeKept ==
  ASSUME NEW op \in Opcode \cup {"none"}, NEW F \in SUBSET (7 .. 31)
  PROVE  /\ OpcodeOf(F \cup OpcodeBits(op)) = IF op = "none" THEN "FENCE" ELSE op
         /\ F \cup OpcodeBits(op) \in SUBSET Bit
         /\ \A i \in 7 .. 31 : i \in F \cup OpcodeBits(op) <=> i \in F
  <1> DEFINE w == F \cup OpcodeBits(op)
  <1>1. OpcodeBits(op) \subseteq 0 .. 6
    BY OpcodeBitsLow
  <1>2. /\ \A i \in 7 .. 31 : i \notin OpcodeBits(op)
        /\ \A i \in 0 .. 6 : i \notin F
    BY <1>1
  <1>3. w \in SUBSET Bit
    <2>1. OpcodeBits(op) \subseteq 0 .. 31 /\ F \subseteq 0 .. 31
      BY <1>1
    <2> QED BY <2>1 DEF Bit
  <1>4. /\ \A i \in 7 .. 31 : i \in w <=> i \in F
        /\ \A i \in 0 .. 6 : i \in w <=> i \in OpcodeBits(op)
    BY <1>2
  <1> HIDE DEF w
  <1>5. SliceAt(w, 6, 0, 0)
    BY <1>3, InSlice
  <1>6. Slice(w, 6, 0, 0) = OpcodeBits(op)
    BY <1>1, <1>4, <1>5 DEF SliceAt
  <1>7. OpcodeOf(w) = IF op = "none" THEN "FENCE" ELSE op
    BY <1>6, OpcodeRead
  <1> QED BY <1>3, <1>4, <1>7 DEF w

(* The five formats, for every immediate they can hold and every setting   *)
(* of the bits that belong to registers and function codes.                *)
LEMMA RoundTrip_I ==
  ASSUME NEW S, SignFrom(S, 11),
         NEW op \in {"LOAD", "OPIMM", "JALR"}, NEW F \in SUBSET (7 .. 19)
  PROVE  ImmGen(enc_I(S, op) \cup F) = S /\ OpcodeOf(enc_I(S, op) \cup F) = op
  <1> DEFINE G == Slice(S, 11, 0, 20) \cup F
             w == G \cup OpcodeBits(op)
             I == Sext(w, 12) \cup Slice(w, 31, 20, 0)
  <1>1. S \in SUBSET Bit /\ \A i \in 11 .. 31 : i \in S <=> 31 \in S
    BY DEF SignFrom, Bit
  <1>2. SliceAt(S, 11, 0, 20)
    BY <1>1, InSlice
  <1>3. G \in SUBSET (7 .. 31)
    <2>1. Slice(S, 11, 0, 20) \subseteq 7 .. 31
      <3>1. Slice(S, 11, 0, 20) \subseteq 20 .. 31
        BY <1>2 DEF SliceAt
      <3> QED BY <3>1
    <2>2. F \subseteq 7 .. 31
      OBVIOUS
    <2> QED BY <2>1, <2>2
  <1>4. \A i \in 20 .. 31 : i \in G <=> i - 20 \in S
    BY <1>2 DEF SliceAt
  <1>5. enc_I(S, op) \cup F = w
    BY DEF enc_I
  <1> HIDE DEF G
  <1>6. op \in Opcode \cup {"none"} /\ op # "none"
    BY DEF Opcode
  <1>7. OpcodeOf(w) = op /\ w \in SUBSET Bit /\ \A i \in 7 .. 31 : i \in w <=> i \in G
    BY <1>3, <1>6, OpcodeKept
  <1> HIDE DEF w
  <1>8. SliceAt(w, 31, 20, 0)
    BY <1>7, InSlice
  <1>9. ImmGen(w) = I
    BY <1>7 DEF ImmGen
  <1>10. \A j \in 0 .. 11 : j \in Slice(w, 31, 20, 0) <=> j \in S
    BY <1>7, <1>8, <1>4 DEF SliceAt
  <1>11. Sext(w, 12) \subseteq 12 .. 31 /\ \A j \in 12 .. 31 : j \in Sext(w, 12) <=> j \in S
    BY <1>1, <1>7, <1>4 DEF Sext
  <1>12. I \subseteq Bit /\ \A j \in Bit : j \in I <=> j \in S
    BY <1>8, <1>10, <1>11 DEF Bit, SliceAt
  <1> QED BY <1>1, <1>5, <1>7, <1>9, <1>12

LEMMA RoundTrip_S ==
  ASSUME NEW S, SignFrom(S, 11),
         NEW op \in {"STORE"}, NEW F \in SUBSET (12 .. 24)
  PROVE  ImmGen(enc_S(S, op) \cup F) = S /\ OpcodeOf(enc_S(S, op) \cup F) = op
  <1> DEFINE G == Slice(S, 11, 5, 25) \cup Slice(S, 4, 0, 7) \cup F
             w == G \cup OpcodeBits(op)
             I == Sext(w, 12) \cup Slice(w, 31, 25, 5) \cup Slice(w, 11, 7, 0)
  <1>1. S \in SUBSET Bit /\ \A i \in 11 .. 31 : i \in S <=> 31 \in S
    BY DEF SignFrom, Bit
  <1>2. SliceAt(S, 11, 5, 25)
    BY <1>1, InSlice
  <1>3. SliceAt(S, 4, 0, 7)
    BY <1>1, InSlice
  <1>4. G \in SUBSET (7 .. 31)
    <2>1. Slice(S, 11, 5, 25) \subseteq 7 .. 31
      <3>1. Slice(S, 11, 5, 25) \subseteq 25 .. 31
        BY <1>2 DEF SliceAt
      <3> QED BY <3>1
    <2>2. Slice(S, 4, 0, 7) \subseteq 7 .. 31
      <3>1. Slice(S, 4, 0, 7) \subseteq 7 .. 11
        BY <1>3 DEF SliceAt
      <3> QED BY <3>1
    <2>3. F \subseteq 7 .. 31
      OBVIOUS
    <2> QED BY <2>1, <2>2, <2>3
  <1>5. \A i \in 25 .. 31 : i \in G <=> i - 20 \in S
    BY <1>2, <1>3 DEF SliceAt
  <1>6. \A i \in 7 .. 11 : i \in G <=> i - 7 \in S
    BY <1>2, <1>3 DEF SliceAt
  <1>7. enc_S(S, op) \cup F = w
    BY DEF enc_S
  <1> HIDE DEF G
  <1>8. op \in Opcode \cup {"none"} /\ op # "none"
    BY DEF Opcode
  <1>9. OpcodeOf(w) = op /\ w \in SUBSET Bit /\ \A i \in 7 .. 31 : i \in w <=> i \in G
    BY <1>4, <1>8, OpcodeKept
  <1> HIDE DEF w
  <1>10. SliceAt(w, 31, 25, 5)
    BY <1>9, InSlice
  <1>11. SliceAt(w, 11, 7, 0)
    BY <1>9, InSlice
  <1>12. ImmGen(w) = I
    BY <1>9 DEF ImmGen
  <1>13. \A j \in 5 .. 11 : j \in Slice(w, 31, 25, 5) <=> j \in S
    BY <1>9, <1>10, <1>5, <1>6 DEF SliceAt
  <1>14. \A j \in 0 .. 4 : j \in Slice(w, 11, 7, 0) <=> j \in S
    BY <1>9, <1>11, <1>5, <1>6 DEF SliceAt
  <1>15. Sext(w, 12) \subseteq 12 .. 31 /\ \A j \in 12 .. 31 : j \in Sext(w, 12) <=> j \in S
    BY <1>1, <1>9, <1>5, <1>6 DEF Sext
  <1>16. I \subseteq Bit /\ \A j \in Bit : j \in I <=> j \in S
    BY <1>10, <1>11, <1>13, <1>14, <1>15 DEF Bit, SliceAt
  <1> QED BY <1>1, <1>7, <1>9, <1>12, <1>16

LEMMA RoundTrip_B ==
  ASSUME NEW S, SignFrom(S, 12), \A i \in 0 .. 0 : i \notin S,
         NEW op \in {"BRANCH"}, NEW F \in SUBSET (12 .. 24)
  PROVE  ImmGen(enc_B(S, op) \cup F) = S /\ OpcodeOf(enc_B(S, op) \cup F) = op
  <1> DEFINE G == Slice(S, 12, 12, 31) \cup Slice(S, 10, 5, 25) \cup Slice(S, 4, 1, 8)
                    \cup Slice(S, 11, 11, 7) \cup F
             w == G \cup OpcodeBits(op)
             I == Sext(w, 12) \cup Slice(w, 7, 7, 11) \cup Slice(w, 30, 25, 5)
                    \cup Slice(w, 11, 8, 1)
  <1>1. S \in SUBSET Bit /\ \A i \in 12 .. 31 : i \in S <=> 31 \in S
    BY DEF SignFrom, Bit
  <1>2. SliceAt(S, 12, 12, 31)
    BY <1>1, InSlice
  <1>3. SliceAt(S, 10, 5, 25)
    BY <1>1, InSlice
  <1>4. SliceAt(S, 4, 1, 8)
    BY <1>1, InSlice
  <1>5. SliceAt(S, 11, 11, 7)
    BY <1>1, InSlice
  <1>6. G \in SUBSET (7 .. 31)
    <2>1. Slice(S, 12, 12, 31) \subseteq 7 .. 31
      <3>1. Slice(S, 12, 12, 31) \subseteq 31 .. 31
        BY <1>2 DEF SliceAt
      <3> QED BY <3>1
    <2>2. Slice(S, 10, 5, 25) \subseteq 7 .. 31
      <3>1. Slice(S, 10, 5, 25) \subseteq 25 .. 30
        BY <1>3 DEF SliceAt
      <3> QED BY <3>1
    <2>3. Slice(S, 4, 1, 8) \subseteq 7 .. 31
      <3>1. Slice(S, 4, 1, 8) \subseteq 8 .. 11
        BY <1>4 DEF SliceAt
      <3> QED BY <3>1
    <2>4. Slice(S, 11, 11, 7) \subseteq 7 .. 31
      <3>1. Slice(S, 11, 11, 7) \subseteq 7 .. 7
        BY <1>5 DEF SliceAt
      <3> QED BY <3>1
    <2>5. F \subseteq 7 .. 31
      OBVIOUS
    <2> QED BY <2>1, <2>2, <2>3, <2>4, <2>5
  <1>7. \A i \in 31 .. 31 : i \in G <=> i - 19 \in S
    BY <1>2, <1>3, <1>4, <1>5 DEF SliceAt
  <1>8. \A i \in 25 .. 30 : i \in G <=> i - 20 \in S
    BY <1>2, <1>3, <1>4, <1>5 DEF SliceAt
  <1>9. \A i \in 8 .. 11 : i \in G <=> i - 7 \in S
    BY <1>2, <1>3, <1>4, <1>5 DEF SliceAt
  <1>10. \A i \in 7 .. 7 : i \in G <=> i + 4 \in S
    BY <1>2, <1>3, <1>4, <1>5 DEF SliceAt
  <1>11. enc_B(S, op) \cup F = w
    BY DEF enc_B
  <1> HIDE DEF G
  <1>12. op \in Opcode \cup {"none"} /\ op # "none"
    BY DEF Opcode
  <1>13. OpcodeOf(w) = op /\ w \in SUBSET Bit /\ \A i \in 7 .. 31 : i \in w <=> i \in G
    BY <1>6, <1>12, OpcodeKept
  <1> HIDE DEF w
  <1>14. SliceAt(w, 7, 7, 11)
    BY <1>13, InSlice
  <1>15. SliceAt(w, 30, 25, 5)
    BY <1>13, InSlice
  <1>16. SliceAt(w, 11, 8, 1)
    BY <1>13, InSlice
  <1>17. ImmGen(w) = I
    BY <1>13 DEF ImmGen
  <1>18. \A j \in 11 .. 11 : j \in Slice(w, 7, 7, 11) <=> j \in S
    BY <1>13, <1>14, <1>7, <1>8, <1>9, <1>10 DEF SliceAt
  <1>19. \A j \in 5 .. 10 : j \in Slice(w, 30, 25, 5) <=> j \in S
    BY <1>13, <1>15, <1>7, <1>8, <1>9, <1>10 DEF SliceAt
  <1>20. \A j \in 1 .. 4 : j \in Slice(w, 11, 8, 1) <=> j \in S
    BY <1>13, <1>16, <1>7, <1>8, <1>9, <1>10 DEF SliceAt
  <1>21. Sext(w, 12) \subseteq 12 .. 31 /\ \A j \in 12 .. 31 : j \in Sext(w, 12) <=> j \in S
    BY <1>1, <1>13, <1>7, <1>8, <1>9, <1>10 DEF Sext
  <1>22. I \subseteq Bit /\ \A j \in Bit : j \in I <=> j \in S
    BY <1>14, <1>15, <1>16, <1>18, <1>19, <1>20, <1>21 DEF Bit, SliceAt
  <1> QED BY <1>1, <1>11, <1>13, <1>17, <1>22

LEMMA RoundTrip_U ==
  ASSUME NEW S \in SUBSET Bit, \A i \in 0 .. 11 : i \notin S,
         NEW op \in {"LUI", "AUIPC"}, NEW F \in SUBSET (7 .. 11)
  PROVE  ImmGen(enc_U(S, op) \cup F) = S /\ OpcodeOf(enc_U(S, op) \cup F) = op
  <1> DEFINE G == Slice(S, 31, 12, 12) \cup F
             w == G \cup OpcodeBits(op)
             I == Slice(w, 31, 12, 12)
  <1>1. S \in SUBSET Bit
    BY DEF Bit
  <1>2. SliceAt(S, 31, 12, 12)
    BY <1>1, InSlice
  <1>3. G \in SUBSET (7 .. 31)
    <2>1. Slice(S, 31, 12, 12) \subseteq 7 .. 31
      <3>1. Slice(S, 31, 12, 12) \subseteq 12 .. 31
        BY <1>2 DEF SliceAt
      <3> QED BY <3>1
    <2>2. F \subseteq 7 .. 31
      OBVIOUS
    <2> QED BY <2>1, <2>2
  <1>4. \A i \in 12 .. 31 : i \in G <=> i \in S
    BY <1>2 DEF SliceAt
  <1>5. enc_U(S, op) \cup F = w
    BY DEF enc_U
  <1> HIDE DEF G
  <1>6. op \in Opcode \cup {"none"} /\ op # "none"
    BY DEF Opcode
  <1>7. OpcodeOf(w) = op /\ w \in SUBSET Bit /\ \A i \in 7 .. 31 : i \in w <=> i \in G
    BY <1>3, <1>6, OpcodeKept
  <1> HIDE DEF w
  <1>8. SliceAt(w, 31, 12, 12)
    BY <1>7, InSlice
  <1>9. ImmGen(w) = I
    BY <1>7 DEF ImmGen
  <1>10. \A j \in 12 .. 31 : j \in Slice(w, 31, 12, 12) <=> j \in S
    BY <1>7, <1>8, <1>4 DEF SliceAt
  <1>11. I \subseteq Bit /\ \A j \in Bit : j \in I <=> j \in S
    BY <1>8, <1>10 DEF Bit, SliceAt
  <1> QED BY <1>1, <1>5, <1>7, <1>9, <1>11

LEMMA RoundTrip_J ==
  ASSUME NEW S, SignFrom(S, 20), \A i \in 0 .. 0 : i \notin S,
         NEW op \in {"JAL"}, NEW F \in SUBSET (7 .. 11)
  PROVE  ImmGen(enc_J(S, op) \cup F) = S /\ OpcodeOf(enc_J(S, op) \cup F) = op
  <1> DEFINE G == Slice(S, 20, 20, 31) \cup Slice(S, 19, 12, 12) \cup Slice(S, 11, 11, 20)
                    \cup Slice(S, 10, 1, 21) \cup F
             w == G \cup OpcodeBits(op)
             I == Sext(w, 20) \cup Slice(w, 19, 12, 12) \cup Slice(w, 20, 20, 11)
                    \cup Slice(w, 30, 21, 1)
  <1>1. S \in SUBSET Bit /\ \A i \in 20 .. 31 : i \in S <=> 31 \in S
    BY DEF SignFrom, Bit
  <1>2. SliceAt(S, 20, 20, 31)
    BY <1>1, InSlice
  <1>3. SliceAt(S, 19, 12, 12)
    BY <1>1, InSlice
  <1>4. SliceAt(S, 11, 11, 20)
    BY <1>1, InSlice
  <1>5. SliceAt(S, 10, 1, 21)
    BY <1>1, InSlice
  <1>6. G \in SUBSET (7 .. 31)
    <2>1. Slice(S, 20, 20, 31) \subseteq 7 .. 31
      <3>1. Slice(S, 20, 20, 31) \subseteq 31 .. 31
        BY <1>2 DEF SliceAt
      <3> QED BY <3>1
    <2>2. Slice(S, 19, 12, 12) \subseteq 7 .. 31
      <3>1. Slice(S, 19, 12, 12) \subseteq 12 .. 19
        BY <1>3 DEF SliceAt
      <3> QED BY <3>1
    <2>3. Slice(S, 11, 11, 20) \subseteq 7 .. 31
      <3>1. Slice(S, 11, 11, 20) \subseteq 20 .. 20
        BY <1>4 DEF SliceAt
      <3> QED BY <3>1
    <2>4. Slice(S, 10, 1, 21) \subseteq 7 .. 31
      <3>1. Slice(S, 10, 1, 21) \subseteq 21 .. 30
        BY <1>5 DEF SliceAt
      <3> QED BY <3>1
    <2>5. F \subseteq 7 .. 31
      OBVIOUS
    <2> QED BY <2>1, <2>2, <2>3, <2>4, <2>5
  <1>7. \A i \in 31 .. 31 : i \in G <=> i - 11 \in S
    BY <1>2, <1>3, <1>4, <1>5 DEF SliceAt
  <1>8. \A i \in 12 .. 19 : i \in G <=> i \in S
    BY <1>2, <1>3, <1>4, <1>5 DEF SliceAt
  <1>9. \A i \in 20 .. 20 : i \in G <=> i - 9 \in S
    BY <1>2, <1>3, <1>4, <1>5 DEF SliceAt
  <1>10. \A i \in 21 .. 30 : i \in G <=> i - 20 \in S
    BY <1>2, <1>3, <1>4, <1>5 DEF SliceAt
  <1>11. enc_J(S, op) \cup F = w
    BY DEF enc_J
  <1> HIDE DEF G
  <1>12. op \in Opcode \cup {"none"} /\ op # "none"
    BY DEF Opcode
  <1>13. OpcodeOf(w) = op /\ w \in SUBSET Bit /\ \A i \in 7 .. 31 : i \in w <=> i \in G
    BY <1>6, <1>12, OpcodeKept
  <1> HIDE DEF w
  <1>14. SliceAt(w, 19, 12, 12)
    BY <1>13, InSlice
  <1>15. SliceAt(w, 20, 20, 11)
    BY <1>13, InSlice
  <1>16. SliceAt(w, 30, 21, 1)
    BY <1>13, InSlice
  <1>17. ImmGen(w) = I
    BY <1>13 DEF ImmGen
  <1>18. \A j \in 12 .. 19 : j \in Slice(w, 19, 12, 12) <=> j \in S
    BY <1>13, <1>14, <1>7, <1>8, <1>9, <1>10 DEF SliceAt
  <1>19. \A j \in 11 .. 11 : j \in Slice(w, 20, 20, 11) <=> j \in S
    BY <1>13, <1>15, <1>7, <1>8, <1>9, <1>10 DEF SliceAt
  <1>20. \A j \in 1 .. 10 : j \in Slice(w, 30, 21, 1) <=> j \in S
    BY <1>13, <1>16, <1>7, <1>8, <1>9, <1>10 DEF SliceAt
  <1>21. Sext(w, 20) \subseteq 20 .. 31 /\ \A j \in 20 .. 31 : j \in Sext(w, 20) <=> j \in S
    BY <1>1, <1>13, <1>7, <1>8, <1>9, <1>10 DEF Sext
  <1>22. I \subseteq Bit /\ \A j \in Bit : j \in I <=> j \in S
    BY <1>14, <1>15, <1>16, <1>18, <1>19, <1>20, <1>21 DEF Bit, SliceAt
  <1> QED BY <1>1, <1>11, <1>13, <1>17, <1>22

(* The powers the vectors take: all smaller than the next one, and         *)
(* multiples of the first.                                                 *)
LEMMA PowersBetween ==
  ASSUME NEW a \in Nat, NEW b \in 0 .. 29, NEW x \in Powers(a, b)
  PROVE  x \in Nat /\ x < Exp2[b+1] /\ \E y \in Int : x = Exp2[a] * y
  <1>1. PICK k \in a .. b : x = Exp2[k]
    BY DEF Powers
  <1>2. /\ k \in Nat /\ k-a \in Nat /\ a + (k-a) = k /\ k <= 30 /\ k \in 0 .. 30 /\ k-a \in 0 .. 30
        /\ b-k \in 0 .. 29 /\ (b-k)+1 \in Nat /\ k + ((b-k)+1) = b+1 /\ b+1 <= 30
    OBVIOUS
  <1>3. Exp2[a + (k-a)] = Exp2[a] * Exp2[k-a]
    BY <1>2, Exp2Sum
  <1>4. Exp2[k + ((b-k)+1)] = Exp2[k] * Exp2[(b-k)+1]
    BY <1>2, Exp2Sum
  <1>5. Exp2[(b-k)+1] = 2 * Exp2[b-k]
    BY <1>2, Exp2Step
  <1>6. Exp2[k-a] \in Nat /\ x \in Nat /\ x > 0 /\ Exp2[b-k] \in Nat /\ Exp2[b-k] > 0
    <2>1. b-k \in 0 .. 30
      BY <1>2
    <2> QED BY <1>1, <1>2, <2>1, Exp2Step
  <1> DEFINE h == Exp2[b-k]
  <1>7. h * (2*x) >= 2*x /\ x * (2*h) = h * (2*x)
    <2>1. h \in Nat /\ h > 0 /\ 2*x \in Nat
      BY <1>6
    <2> HIDE DEF h
    <2>2. h * (2*x) >= 2*x
      BY <2>1, TimesPositive
    <2> QED BY <1>6, <2>1, <2>2
  <1>8. Exp2[b+1] = x * (2*h)
    BY <1>1, <1>2, <1>4, <1>5
  <1> HIDE DEF h
  <1>9. x < Exp2[b+1]
    <2>1. Exp2[b+1] >= 2*x
      BY <1>7, <1>8
    <2>2. b+1 \in 0 .. 30
      OBVIOUS
    <2>3. Exp2[b+1] \in Nat
      BY <2>2, Exp2Step
    <2> QED BY <1>6, <2>1, <2>3
  <1>10. x = Exp2[a] * Exp2[k-a] /\ Exp2[k-a] \in Int
    BY <1>1, <1>2, <1>3, <1>6
  <1> QED BY <1>6, <1>9, <1>10

(* Every vector of the bench comes back, with any of its free bits set.    *)
LEMMA ImmediateVectors ==
  ASSUME NEW v \in ImmVectors, NEW s \in Noise(v)
  PROVE  ImmGen(v.word \cup s) = v.expect
  <1>1. s \subseteq v.free
    BY DEF Noise
  <1>2. ASSUME NEW op \in {"OPIMM", "LOAD", "JALR"}, NEW x \in ImmI,
               v = ImmVector(enc_I(BitsOf(x), op), x, 7 .. 19)
        PROVE  ImmGen(v.word \cup s) = v.expect
    <2>1. v = [word |-> enc_I(BitsOf(x), op), expect |-> BitsOf(x), free |-> 7 .. 19]
      BY <1>2 DEF ImmVector
    <2>2. x \in Int /\ -Exp2[11] <= x /\ x < Exp2[11]
      <3>1. ASSUME x \in Powers(0, 10) PROVE x \in Nat /\ x < Exp2[11]
        <4>1. 10 + 1 = 11
          OBVIOUS
        <4> QED BY <3>1, <4>1, PowersBetween
      <3> QED BY <3>1, Exp2Values, SMT DEF ImmI
    <2>3. SignFrom(BitsOf(x), 11)
      BY <2>2, SignedBits
    <2>4. s \in SUBSET (7 .. 19)
      BY <1>1, <2>1
    <2>5. ImmGen(enc_I(BitsOf(x), op) \cup s) = BitsOf(x)
      BY <2>3, <2>4, RoundTrip_I
    <2> QED BY <2>1, <2>5
  <1>3. ASSUME NEW x \in ImmI, v = ImmVector(enc_S(BitsOf(x), "STORE"), x, 12 .. 24)
        PROVE  ImmGen(v.word \cup s) = v.expect
    <2>1. v = [word |-> enc_S(BitsOf(x), "STORE"), expect |-> BitsOf(x), free |-> 12 .. 24]
      BY <1>3 DEF ImmVector
    <2>2. x \in Int /\ -Exp2[11] <= x /\ x < Exp2[11]
      <3>1. ASSUME x \in Powers(0, 10) PROVE x \in Nat /\ x < Exp2[11]
        <4>1. 10 + 1 = 11
          OBVIOUS
        <4> QED BY <3>1, <4>1, PowersBetween
      <3> QED BY <3>1, Exp2Values, SMT DEF ImmI
    <2>3. SignFrom(BitsOf(x), 11)
      BY <2>2, SignedBits
    <2>4. s \in SUBSET (12 .. 24)
      BY <1>1, <2>1
    <2>5. ImmGen(enc_S(BitsOf(x), "STORE") \cup s) = BitsOf(x)
      BY <2>3, <2>4, RoundTrip_S
    <2> QED BY <2>1, <2>5
  <1>4. ASSUME NEW x \in ImmB, v = ImmVector(enc_B(BitsOf(x), "BRANCH"), x, 12 .. 24)
        PROVE  ImmGen(v.word \cup s) = v.expect
    <2>1. v = [word |-> enc_B(BitsOf(x), "BRANCH"), expect |-> BitsOf(x), free |-> 12 .. 24]
      BY <1>4 DEF ImmVector
    <2>2. x \in Int /\ -Exp2[12] <= x /\ x < Exp2[12] /\ \E y \in Int : x = Exp2[1] * y
      <3>1. ASSUME x \in Powers(1, 11)
            PROVE  x \in Nat /\ x < Exp2[12] /\ \E y \in Int : x = Exp2[1] * y
        <4>1. 11 + 1 = 12
          OBVIOUS
        <4> QED BY <3>1, <4>1, PowersBetween
      <3>2. /\ 4094 = Exp2[1] * 2047 /\ -4096 = Exp2[1] * (-2048)
            /\ 0 = Exp2[1] * 0 /\ -2 = Exp2[1] * (-1)
        BY Exp2Values, SMT
      <3>3. x \in Int /\ -Exp2[12] <= x /\ x < Exp2[12]
        BY <3>1, Exp2Values, SMT DEF ImmB
      <3>4. \E y \in Int : x = Exp2[1] * y
        BY <3>1, <3>2, SMT DEF ImmB
      <3> QED BY <3>3, <3>4
    <2>3. SignFrom(BitsOf(x), 12)
      BY <2>2, SignedBits
    <2>4. \A i \in 0 .. 0 : i \notin BitsOf(x)
      BY <2>2, MultipleBits
    <2>5. s \in SUBSET (12 .. 24)
      BY <1>1, <2>1
    <2>6. ImmGen(enc_B(BitsOf(x), "BRANCH") \cup s) = BitsOf(x)
      BY <2>3, <2>4, <2>5, RoundTrip_B
    <2> QED BY <2>1, <2>6
  <1>5. ASSUME NEW op \in {"LUI", "AUIPC"}, NEW x \in ImmU,
               v = ImmVector(enc_U(BitsOf(x), op), x, 7 .. 11)
        PROVE  ImmGen(v.word \cup s) = v.expect
    <2>1. v = [word |-> enc_U(BitsOf(x), op), expect |-> BitsOf(x), free |-> 7 .. 11]
      BY <1>5 DEF ImmVector
    <2>2. \E y \in Int : x = Exp2[12] * y
      <3>1. ASSUME x \in Powers(12, 30) PROVE \E y \in Int : x = Exp2[12] * y
        <4>1. PICK k \in 12 .. 30 : x = Exp2[k]
          BY <3>1 DEF Powers
        <4>2. k-12 \in Nat /\ k-12 \in 0 .. 30 /\ 12 + (k-12) = k /\ k <= 30
          OBVIOUS
        <4>3. Exp2[12 + (k-12)] = Exp2[12] * Exp2[k-12]
          BY <4>2, Exp2Sum
        <4>4. Exp2[k-12] \in Int
          BY <4>2, Exp2Step
        <4> QED BY <4>1, <4>2, <4>3, <4>4
      <3>2. /\ -4096 = Exp2[12] * (-1) /\ 0 = Exp2[12] * 0
            /\ 305418240 = Exp2[12] * 74565 /\ -1412571136 = Exp2[12] * (-344866)
        BY Exp2Values, SMT
      <3> QED BY <3>1, <3>2, SMT DEF ImmU
    <2>3. \A i \in 0 .. 11 : i \notin BitsOf(x)
      BY <2>2, MultipleBits
    <2>4. BitsOf(x) \in SUBSET Bit
      BY DEF BitsOf, Bit
    <2>5. s \in SUBSET (7 .. 11)
      BY <1>1, <2>1
    <2>6. ImmGen(enc_U(BitsOf(x), op) \cup s) = BitsOf(x)
      BY <2>3, <2>4, <2>5, RoundTrip_U
    <2> QED BY <2>1, <2>6
  <1>6. ASSUME NEW x \in ImmJ, v = ImmVector(enc_J(BitsOf(x), "JAL"), x, 7 .. 11)
        PROVE  ImmGen(v.word \cup s) = v.expect
    <2>1. v = [word |-> enc_J(BitsOf(x), "JAL"), expect |-> BitsOf(x), free |-> 7 .. 11]
      BY <1>6 DEF ImmVector
    <2>2. x \in Int /\ -Exp2[20] <= x /\ x < Exp2[20] /\ \E y \in Int : x = Exp2[1] * y
      <3>1. ASSUME x \in Powers(1, 19)
            PROVE  x \in Nat /\ x < Exp2[20] /\ \E y \in Int : x = Exp2[1] * y
        <4>1. 19 + 1 = 20
          OBVIOUS
        <4> QED BY <3>1, <4>1, PowersBetween
      <3>2. /\ 1048574 = Exp2[1] * 524287 /\ -1048576 = Exp2[1] * (-524288)
            /\ 0 = Exp2[1] * 0 /\ -2 = Exp2[1] * (-1)
        BY Exp2Values, SMT
      <3>3. x \in Int /\ -Exp2[20] <= x /\ x < Exp2[20]
        BY <3>1, Exp2Values, SMT DEF ImmJ
      <3>4. \E y \in Int : x = Exp2[1] * y
        BY <3>1, <3>2, SMT DEF ImmJ
      <3> QED BY <3>3, <3>4
    <2>3. SignFrom(BitsOf(x), 20)
      BY <2>2, SignedBits
    <2>4. \A i \in 0 .. 0 : i \notin BitsOf(x)
      BY <2>2, MultipleBits
    <2>5. s \in SUBSET (7 .. 11)
      BY <1>1, <2>1
    <2>6. ImmGen(enc_J(BitsOf(x), "JAL") \cup s) = BitsOf(x)
      BY <2>3, <2>4, <2>5, RoundTrip_J
    <2> QED BY <2>1, <2>6
  <1>7. ASSUME v = [word |-> OpcodeBits("none"), expect |-> {}, free |-> 7 .. 31]
        PROVE  ImmGen(v.word \cup s) = v.expect
    <2>1. s \in SUBSET (7 .. 31) /\ "none" \in Opcode \cup {"none"}
      BY <1>1, <1>7
    <2>2. OpcodeOf(s \cup OpcodeBits("none")) = "FENCE"
      BY <2>1, OpcodeKept, Zenon
    <2>3. v.word \cup s = s \cup OpcodeBits("none")
      BY <1>7
    <2>4. ImmGen(v.word \cup s) = {}
      <3> DEFINE w == v.word \cup s
      <3>1. OpcodeOf(w) = "FENCE"
        BY <2>2, <2>3
      <3> HIDE DEF w
      <3>2. ImmGen(w) = {}
        BY <3>1 DEF ImmGen
      <3> QED BY <3>2 DEF w
    <2>5. v.expect = {}
      BY <1>7
    <2> QED BY <2>4, <2>5, Zenon
  <1>8. \/ \E op \in {"OPIMM", "LOAD", "JALR"}, x \in ImmI :
             v = ImmVector(enc_I(BitsOf(x), op), x, 7 .. 19)
        \/ \E x \in ImmI : v = ImmVector(enc_S(BitsOf(x), "STORE"), x, 12 .. 24)
        \/ \E x \in ImmB : v = ImmVector(enc_B(BitsOf(x), "BRANCH"), x, 12 .. 24)
        \/ \E op \in {"LUI", "AUIPC"}, x \in ImmU :
             v = ImmVector(enc_U(BitsOf(x), op), x, 7 .. 11)
        \/ \E x \in ImmJ : v = ImmVector(enc_J(BitsOf(x), "JAL"), x, 7 .. 11)
        \/ v = [word |-> OpcodeBits("none"), expect |-> {}, free |-> 7 .. 31]
    BY DEF ImmVectors
  <1> QED BY <1>2, <1>3, <1>4, <1>5, <1>6, <1>7, <1>8

(* The fusion logic's second extraction is the first one, for the opcodes  *)
(* it fuses and for every word.                                            *)
LEMMA LookaheadAgrees ==
  ASSUME NEW w, OpcodeOf(w) \in {"OPIMM", "JALR", "LOAD", "BRANCH"}
  PROVE  LookaheadImm(w) = ImmGen(w)
  <1>1. CASE OpcodeOf(w) = "BRANCH"
    BY <1>1 DEF LookaheadImm, ImmGen
  <1>2. CASE OpcodeOf(w) # "BRANCH"
    BY <1>2 DEF LookaheadImm, ImmGen
  <1> QED BY <1>1, <1>2

(* The vector's immediate is the decoded one, so that the bench has not    *)
(* failed and will not.                                                    *)
ImmediateInv ==
  /\ verdict \in {"none", "PASS", "FAIL"}
  /\ bench = "imm_gen" => verdict # "FAIL" /\ ImmGen(vec.word) = vec.expect

(* Every immediate the bench encodes, and every power of two, is decoded   *)
(* as it was encoded, with any of the bits that belong to registers and    *)
(* function codes set, and the fusion logic's extraction agrees            *)
(* (imm_gen.sv:8-20, core_top_pipelined.sv:189,218,236-238).               *)
THEOREM ImmediatesAlwaysRoundTrip == UbSpec => []ImmediatesRoundTrip
  <1>1. UbInit => ImmediateInv
    <2> SUFFICES ASSUME UbInit PROVE ImmediateInv
      OBVIOUS
    <2>1. verdict = "none"
      BY DEF UbInit
    <2>2. ASSUME bench = "imm_gen" PROVE ImmGen(vec.word) = vec.expect
      <3>1. PICK v \in ImmVectors : \E s \in Noise(v) : vec = [v EXCEPT !.word = @ \cup s]
        BY <2>2 DEF UbInit
      <3>2. PICK s \in Noise(v) : vec = [v EXCEPT !.word = @ \cup s]
        BY <3>1
      <3>3. vec.word = v.word \cup s /\ vec.expect = v.expect
        BY <3>2 DEF ImmVectors, ImmVector
      <3> QED BY <3>1, <3>2, <3>3, ImmediateVectors
    <2> QED BY <2>1, <2>2 DEF ImmediateInv
  <1>2. ImmediateInv /\ [UbNext]_ubvars => ImmediateInv'
    <2> SUFFICES ASSUME ImmediateInv, [UbNext]_ubvars PROVE ImmediateInv'
      OBVIOUS
    <2>1. CASE Eval
      BY <2>1 DEF Eval, Compare, ImmediateInv
    <2>2. CASE IterStart
      BY <2>2 DEF IterStart, ImmediateInv
    <2>3. CASE IterPoll
      BY <2>3 DEF IterPoll, Compare, ImmediateInv
    <2>4. CASE RegfileStep
      BY <2>4 DEF RegfileStep, Compare, ImmediateInv
    <2>5. CASE UNCHANGED ubvars
      BY <2>5 DEF ubvars, ImmediateInv
    <2> QED BY <2>1, <2>2, <2>3, <2>4, <2>5 DEF UbNext
  <1>3. ImmediateInv => ImmediatesRoundTrip
    BY LookaheadAgrees DEF ImmediateInv, ImmediatesRoundTrip
  <1> QED BY <1>1, <1>2, <1>3, PTL DEF UbSpec

-----------------------------------------------------------------------------
(* Control signals.                                                        *)

(* Bit 5 of a number of seven bits, which tells SUB from ADD.              *)
LEMMA BitFive ==
  ASSUME NEW S
  PROVE  (Value(S) \div 32) % 2 = 1 <=> 5 \in S
  <1> DEFINE bit(i) == IF i \in S THEN 1 ELSE 0
             low == bit(0) + 2 * bit(1) + 4 * bit(2) + 8 * bit(3) + 16 * bit(4)
             q == bit(5) + 2 * bit(6)
  <1>1. Value(S) = low + 32 * bit(5) + 64 * bit(6)
    BY ValueSum
  <1>2. low \in 0 .. 31 /\ q \in Int /\ (q % 2 = 1 <=> 5 \in S)
    OBVIOUS
  <1>3. Value(S) = 32 * q + low
    BY <1>1
  <1> HIDE DEF low, q
  <1>4. Value(S) \div 32 = q
    <2>1. Value(S) \in Int /\ low \in 0 .. 32-1
      BY <1>2, <1>3
    <2> QED BY <1>2, <1>3, <2>1, DivModUnique
  <1> QED BY <1>2, <1>4

(* The fields of a word built by the bench, with the bits of F set besides:*)
(* none of them in funct3 or the opcode.                                   *)
WordReads(w, f7, f3, op, F) ==
  /\ Fields(w).op = IF op = "none" THEN "FENCE" ELSE op
  /\ Fields(w).f3 = f3
  /\ F \in SUBSET Registers => Fields(w).f7 = f7
  /\ (Fields(w).f7 \div 32) % 2 = 1 <=> 5 \in BitsOf(f7) \/ 30 \in F

LEMMA WordFields ==
  ASSUME NEW f7 \in 0 .. 127, NEW rs2, NEW rs1, NEW f3 \in 0 .. 7, NEW rd,
         NEW op \in Opcode \cup {"none"}, NEW F \in SUBSET Operands,
         NEW w, w = r_type(f7, rs2, rs1, f3, rd, op) \cup F
  PROVE  WordReads(w, f7, f3, op, F)
  <1> DEFINE G == Slice(BitsOf(f7), 6, 0, 25) \cup Slice(BitsOf(rs2), 4, 0, 20)
                    \cup Slice(BitsOf(rs1), 4, 0, 15) \cup Slice(BitsOf(f3), 2, 0, 12)
                    \cup Slice(BitsOf(rd), 4, 0, 7) \cup F
  <1>1. /\ BitsOf(f7) \in SUBSET Bit /\ BitsOf(rs2) \in SUBSET Bit /\ BitsOf(rs1) \in SUBSET Bit
        /\ BitsOf(f3) \in SUBSET Bit /\ BitsOf(rd) \in SUBSET Bit
    BY DEF BitsOf, Bit
  <1>2. SliceAt(BitsOf(f7), 6, 0, 25)
    BY <1>1, InSlice
  <1>3. Slice(BitsOf(rs2), 4, 0, 20) \subseteq 20 .. 24
    <2>1. SliceAt(BitsOf(rs2), 4, 0, 20)
      BY <1>1, InSlice
    <2> QED BY <2>1 DEF SliceAt
  <1>4. Slice(BitsOf(rs1), 4, 0, 15) \subseteq 15 .. 19
    <2>1. SliceAt(BitsOf(rs1), 4, 0, 15)
      BY <1>1, InSlice
    <2> QED BY <2>1 DEF SliceAt
  <1>5. SliceAt(BitsOf(f3), 2, 0, 12)
    BY <1>1, InSlice
  <1>6. Slice(BitsOf(rd), 4, 0, 7) \subseteq 7 .. 11
    <2>1. SliceAt(BitsOf(rd), 4, 0, 7)
      BY <1>1, InSlice
    <2> QED BY <2>1 DEF SliceAt
  <1>7. /\ Slice(BitsOf(f7), 6, 0, 25) \subseteq 25 .. 31
        /\ \A j \in 25 .. 31 : j \in Slice(BitsOf(f7), 6, 0, 25) <=> j - 25 \in BitsOf(f7)
    BY <1>2 DEF SliceAt
  <1>8. /\ Slice(BitsOf(f3), 2, 0, 12) \subseteq 12 .. 14
        /\ \A j \in 12 .. 14 : j \in Slice(BitsOf(f3), 2, 0, 12) <=> j - 12 \in BitsOf(f3)
    BY <1>5 DEF SliceAt
  <1>9. /\ \A i \in F : i \in 7 .. 31 /\ i \notin 12 .. 14
        /\ F \in SUBSET Registers => \A i \in F : i \notin 25 .. 31
    BY DEF Operands, Registers
  <1>10. G \in SUBSET (7 .. 31)
    BY <1>3, <1>4, <1>6, <1>7, <1>8, <1>9
  <1>11. \A i \in 12 .. 14 : i \in G <=> i - 12 \in BitsOf(f3)
    BY <1>3, <1>4, <1>6, <1>7, <1>8, <1>9
  <1>12. \A i \in 25 .. 31 : i \in G <=> i - 25 \in BitsOf(f7) \/ i \in F
    BY <1>3, <1>4, <1>6, <1>7, <1>8, <1>9
  <1>13. w = G \cup OpcodeBits(op)
    BY DEF r_type
  <1> HIDE DEF G
  <1>14. /\ OpcodeOf(w) = IF op = "none" THEN "FENCE" ELSE op
         /\ w \in SUBSET Bit
         /\ \A i \in 7 .. 31 : i \in w <=> i \in G
    BY <1>10, <1>13, OpcodeKept
  <1>15. SliceAt(w, 14, 12, 0) /\ SliceAt(w, 31, 25, 0)
    BY <1>14, InSlice
  <1>16. /\ Slice(w, 14, 12, 0) \subseteq 0 .. 2
         /\ \A j \in 0 .. 2 : j \in Slice(w, 14, 12, 0) <=> j + 12 \in w
    BY <1>15 DEF SliceAt
  <1>17. /\ Slice(w, 31, 25, 0) \subseteq 0 .. 6
         /\ \A j \in 0 .. 6 : j \in Slice(w, 31, 25, 0) <=> j + 25 \in w
    BY <1>15 DEF SliceAt
  <1>18. Value(Slice(w, 14, 12, 0)) = f3
    <2>1. SignFrom(BitsOf(f3), 3) /\ f3 \in 0 .. 127
      BY Exp2Values, SignedBits
    <2>2. 31 \notin BitsOf(f3)
      BY DEF BitsOf
    <2>3. BitsOf(f3) \subseteq 0 .. 2
      BY <2>1, <2>2 DEF SignFrom, Bit
    <2>4. \A j \in 0 .. 2 : j \in Slice(w, 14, 12, 0) <=> j \in BitsOf(f3)
      <3> SUFFICES ASSUME NEW j \in 0 .. 2 PROVE j \in Slice(w, 14, 12, 0) <=> j \in BitsOf(f3)
        OBVIOUS
      <3>1. j + 12 \in 12 .. 14 /\ j + 12 \in 7 .. 31 /\ (j + 12) - 12 = j
        OBVIOUS
      <3> QED BY <1>11, <1>14, <1>16, <3>1
    <2>5. Slice(w, 14, 12, 0) = BitsOf(f3)
      BY <1>16, <2>3, <2>4
    <2> QED BY <2>1, <2>5, ValueOfBits
  <1>19. \A j \in 0 .. 6 : j \in Slice(w, 31, 25, 0) <=> j \in BitsOf(f7) \/ j + 25 \in F
    <2> SUFFICES ASSUME NEW j \in 0 .. 6
                 PROVE  j \in Slice(w, 31, 25, 0) <=> j \in BitsOf(f7) \/ j + 25 \in F
      OBVIOUS
    <2>1. j + 25 \in 25 .. 31 /\ j + 25 \in 7 .. 31 /\ (j + 25) - 25 = j
      OBVIOUS
    <2> QED BY <1>12, <1>14, <1>17, <2>1
  <1>20. ASSUME F \in SUBSET Registers PROVE Value(Slice(w, 31, 25, 0)) = f7
    <2>1. \A j \in 0 .. 6 : j + 25 \notin F
      BY <1>9, <1>20
    <2>2. BitsOf(f7) \subseteq 0 .. 6 /\ Value(BitsOf(f7)) = f7
      BY ValueOfBits
    <2>3. Slice(w, 31, 25, 0) = BitsOf(f7)
      BY <1>17, <1>19, <2>1, <2>2
    <2> QED BY <2>2, <2>3
  <1>21. /\ (Value(Slice(w, 31, 25, 0)) \div 32) % 2 = 1 <=> 30 \in w
         /\ 30 \in w <=> 5 \in BitsOf(f7) \/ 30 \in F
    <2>1. 5 \in 0 .. 6 /\ 5 + 25 = 30
      OBVIOUS
    <2> QED BY <1>17, <1>19, <2>1, BitFive
  <1> QED BY <1>14, <1>18, <1>20, <1>21 DEF Fields, WordReads

(* The record of control signals, and what each signal says.               *)
ControlSignals ==
  [reg_write : BOOLEAN, mem_read : BOOLEAN, mem_write : BOOLEAN,
   mem_width : {"byte", "half", "word"}, mem_unsigned : BOOLEAN, alu_op : AluOp,
   src_a_pc : BOOLEAN, src_b_imm : BOOLEAN, result_src : {"alu", "mem", "pc4", "imm"},
   is_muldiv : BOOLEAN, is_branch : BOOLEAN, is_jal : BOOLEAN, is_jalr : BOOLEAN,
   fisol_bound : BOOLEAN, fisol_off : BOOLEAN, illegal : BOOLEAN, is_csr : BOOLEAN]

SignalsOf(d, i) ==
  /\ d.mem_width = IF i.op \in {"LOAD", "STORE"} THEN MemWidth(i.f3) ELSE "word"
  /\ d.alu_op = IF i.op \in {"OP", "OPIMM"} /\ ~(i.op = "OP" /\ i.f7 = 1)
                THEN AluFunction(i.op, i.f3, i.f7) ELSE "ADD"
  /\ d.result_src = IF i.op = "LOAD" THEN "mem"
                    ELSE IF i.op \in {"JAL", "JALR"} THEN "pc4"
                    ELSE IF i.op = "LUI" THEN "imm" ELSE "alu"
  /\ d.reg_write <=> \/ i.op \in {"OP", "OPIMM", "LOAD", "JAL", "JALR", "LUI", "AUIPC"}
                     \/ IsCsr(i)
  /\ d.mem_read <=> i.op = "LOAD"
  /\ d.mem_write <=> i.op = "STORE"
  /\ d.mem_unsigned <=> i.op = "LOAD" /\ i.f3 >= 4
  /\ d.src_a_pc <=> i.op = "AUIPC"
  /\ d.src_b_imm <=> i.op \in {"OPIMM", "LOAD", "STORE", "JALR", "AUIPC"}
  /\ d.is_muldiv <=> i.op = "OP" /\ i.f7 = 1
  /\ d.is_branch <=> i.op = "BRANCH"
  /\ d.is_jal <=> i.op = "JAL"
  /\ d.is_jalr <=> i.op = "JALR"
  /\ d.fisol_bound <=> i.op = "CUSTOM0" /\ i.f3 = 0
  /\ d.fisol_off <=> i.op = "CUSTOM0" /\ i.f3 = 1
  /\ d.illegal <=> (i.op = "CUSTOM0" /\ i.f3 > 1) \/ (i.op = "SYSTEM" /\ ~IsCsr(i))
  /\ d.is_csr <=> IsCsr(i)

LEMMA DecodeSignals ==
  ASSUME NEW i
  PROVE  Decode(i) \in ControlSignals /\ SignalsOf(Decode(i), i)
  <1> DEFINE d == Decode(i)
  <1>1. d \in ControlSignals
    BY DEF Decode, ControlSignals, AluOp, AluFunction, MemWidth, IsCsr
  <1>2. d.mem_width = IF i.op \in {"LOAD", "STORE"} THEN MemWidth(i.f3) ELSE "word"
    BY DEF Decode
  <1>3. d.alu_op = IF i.op \in {"OP", "OPIMM"} /\ ~(i.op = "OP" /\ i.f7 = 1)
                   THEN AluFunction(i.op, i.f3, i.f7) ELSE "ADD"
    BY DEF Decode
  <1>4. d.result_src = IF i.op = "LOAD" THEN "mem"
                       ELSE IF i.op \in {"JAL", "JALR"} THEN "pc4"
                       ELSE IF i.op = "LUI" THEN "imm" ELSE "alu"
    BY DEF Decode
  <1>5. /\ d.reg_write <=> \/ i.op \in {"OP", "OPIMM", "LOAD", "JAL", "JALR", "LUI", "AUIPC"}
                           \/ IsCsr(i)
        /\ d.mem_read <=> i.op = "LOAD"
        /\ d.mem_write <=> i.op = "STORE"
        /\ d.mem_unsigned <=> i.op = "LOAD" /\ i.f3 >= 4
        /\ d.src_a_pc <=> i.op = "AUIPC"
    BY DEF Decode
  <1>6. /\ d.src_b_imm <=> i.op \in {"OPIMM", "LOAD", "STORE", "JALR", "AUIPC"}
        /\ d.is_muldiv <=> i.op = "OP" /\ i.f7 = 1
        /\ d.is_branch <=> i.op = "BRANCH"
        /\ d.is_jal <=> i.op = "JAL"
        /\ d.is_jalr <=> i.op = "JALR"
    BY DEF Decode
  <1>7. /\ d.fisol_bound <=> i.op = "CUSTOM0" /\ i.f3 = 0
        /\ d.fisol_off <=> i.op = "CUSTOM0" /\ i.f3 = 1
        /\ d.illegal <=> (i.op = "CUSTOM0" /\ i.f3 > 1) \/ (i.op = "SYSTEM" /\ ~IsCsr(i))
        /\ d.is_csr <=> IsCsr(i)
    BY DEF Decode
  <1> HIDE DEF d
  <1>8. SignalsOf(d, i)
    BY <1>2, <1>3, <1>4, <1>5, <1>6, <1>7 DEF SignalsOf
  <1> QED BY <1>1, <1>8 DEF d

LEMMA SignalsDetermine ==
  ASSUME NEW i, NEW d \in ControlSignals, NEW e \in ControlSignals,
         SignalsOf(d, i), SignalsOf(e, i)
  PROVE  d = e
  BY DEF SignalsOf, ControlSignals

LEMMA SignalsDecode ==
  ASSUME NEW i, NEW e \in ControlSignals, SignalsOf(e, i)
  PROVE  Decode(i) = e
  BY DecodeSignals, SignalsDetermine

(* The three records the bench starts from.                                *)
LEMMA ExpectedTypes ==
  Exp \in ControlSignals /\ Writes \in ControlSignals /\ WritesImm \in ControlSignals
  BY DEF Exp, Writes, WritesImm, ControlSignals, AluOp

LEMMA ExpFields ==
  /\ ~Exp.reg_write /\ ~Exp.src_b_imm /\ Exp.mem_width = "word" /\ Exp.alu_op = "ADD"
  /\ Exp.result_src = "alu" /\ ~Exp.mem_read /\ ~Exp.mem_write /\ ~Exp.mem_unsigned
  /\ ~Exp.src_a_pc /\ ~Exp.is_muldiv /\ ~Exp.is_branch /\ ~Exp.is_jal /\ ~Exp.is_jalr
  /\ ~Exp.fisol_bound /\ ~Exp.fisol_off /\ ~Exp.illegal /\ ~Exp.is_csr
  BY DEF Exp

LEMMA WritesFields ==
  /\ Writes.reg_write /\ ~Writes.src_b_imm /\ Writes.mem_width = "word" /\ Writes.alu_op = "ADD"
  /\ Writes.result_src = "alu" /\ ~Writes.mem_read /\ ~Writes.mem_write /\ ~Writes.mem_unsigned
  /\ ~Writes.src_a_pc /\ ~Writes.is_muldiv /\ ~Writes.is_branch /\ ~Writes.is_jal /\ ~Writes.is_jalr
  /\ ~Writes.fisol_bound /\ ~Writes.fisol_off /\ ~Writes.illegal /\ ~Writes.is_csr
  BY DEF Exp, Writes

LEMMA WritesImmFields ==
  /\ WritesImm.reg_write /\ WritesImm.src_b_imm /\ WritesImm.mem_width = "word"
  /\ WritesImm.alu_op = "ADD" /\ WritesImm.result_src = "alu" /\ ~WritesImm.mem_read
  /\ ~WritesImm.mem_write /\ ~WritesImm.mem_unsigned /\ ~WritesImm.src_a_pc
  /\ ~WritesImm.is_muldiv /\ ~WritesImm.is_branch /\ ~WritesImm.is_jal /\ ~WritesImm.is_jalr
  /\ ~WritesImm.fisol_bound /\ ~WritesImm.fisol_off /\ ~WritesImm.illegal /\ ~WritesImm.is_csr
  BY DEF Exp, Writes, WritesImm

(* What the bench expects, instruction by instruction.                     *)
LEMMA DecodedOp ==
  ASSUME NEW c \in AluCodes, NEW i, i.op = "OP", i.f3 = c[2], i.f7 = c[1]
  PROVE  Decode(i) = [Writes EXCEPT !.alu_op = c[3]]
  <1> DEFINE e == [Writes EXCEPT !.alu_op = c[3]]
  <1>1. e \in ControlSignals
    BY ExpectedTypes DEF ControlSignals, AluOp, AluCodes
  <1>2. SignalsOf(e, i)
    BY ExpectedTypes, WritesFields
       DEF SignalsOf, ControlSignals, MemWidth, IsCsr, AluCodes, AluFunction
  <1> QED BY <1>1, <1>2, SignalsDecode

LEMMA DecodedOpImm ==
  ASSUME NEW c \in AluCodes \ {<<32, 0, "SUB">>}, NEW i, i.op = "OPIMM", i.f3 = c[2],
         c[2] = 5 => ((i.f7 \div 32) % 2 = 1 <=> c[1] = 32)
  PROVE  Decode(i) = [WritesImm EXCEPT !.alu_op = c[3]]
  <1> DEFINE e == [WritesImm EXCEPT !.alu_op = c[3]]
  <1>1. e \in ControlSignals
    BY ExpectedTypes DEF ControlSignals, AluOp, AluCodes
  <1>2. SignalsOf(e, i)
    BY ExpectedTypes, WritesImmFields
       DEF SignalsOf, ControlSignals, MemWidth, IsCsr, AluCodes, AluFunction
  <1> QED BY <1>1, <1>2, SignalsDecode

LEMMA LoadCodeWidths ==
  ASSUME NEW c \in LoadCodes
  PROVE  /\ c[2] \in {"byte", "half", "word"} /\ c[3] \in BOOLEAN
         /\ c[1] \in 0 .. 7 /\ MemWidth(c[1]) = c[2] /\ (c[1] >= 4 <=> c[3])
  <1>1. \/ c = <<0, "byte", FALSE>> \/ c = <<1, "half", FALSE>> \/ c = <<2, "word", FALSE>>
        \/ c = <<4, "byte", TRUE>> \/ c = <<5, "half", TRUE>>
    BY DEF LoadCodes
  <1>2. CASE c = <<0, "byte", FALSE>>
    BY <1>2 DEF MemWidth
  <1>3. CASE c = <<1, "half", FALSE>>
    BY <1>3 DEF MemWidth
  <1>4. CASE c = <<2, "word", FALSE>>
    BY <1>4 DEF MemWidth
  <1>5. CASE c = <<4, "byte", TRUE>>
    BY <1>5 DEF MemWidth
  <1>6. CASE c = <<5, "half", TRUE>>
    BY <1>6 DEF MemWidth
  <1> QED BY <1>1, <1>2, <1>3, <1>4, <1>5, <1>6

LEMMA DecodedLoad ==
  ASSUME NEW c \in LoadCodes, NEW i, i.op = "LOAD", i.f3 = c[1]
  PROVE  Decode(i) = [WritesImm EXCEPT !.mem_read = TRUE, !.result_src = "mem", !.mem_width = c[2],
                                       !.mem_unsigned = c[3]]
  <1> DEFINE e == [WritesImm EXCEPT !.mem_read = TRUE, !.result_src = "mem", !.mem_width = c[2],
                                    !.mem_unsigned = c[3]]
  <1>1. /\ c[2] \in {"byte", "half", "word"} /\ c[3] \in BOOLEAN
        /\ c[1] \in 0 .. 7 /\ MemWidth(c[1]) = c[2] /\ (c[1] >= 4 <=> c[3])
    BY LoadCodeWidths
  <1>2. e \in ControlSignals
    BY <1>1, ExpectedTypes DEF ControlSignals
  <1>3. SignalsOf(e, i)
    BY <1>1, ExpectedTypes, WritesImmFields DEF SignalsOf, ControlSignals, IsCsr
  <1> QED BY <1>2, <1>3, SignalsDecode

LEMMA DecodedOther ==
  ASSUME NEW i
  PROVE  /\ i.op = "OP" /\ i.f7 = 1 => Decode(i) = [Writes EXCEPT !.is_muldiv = TRUE]
         /\ i.op = "STORE" /\ i.f3 = 2 =>
              Decode(i) = [Exp EXCEPT !.mem_write = TRUE, !.src_b_imm = TRUE]
         /\ i.op = "BRANCH" => Decode(i) = [Exp EXCEPT !.is_branch = TRUE]
         /\ i.op = "JAL" =>
              Decode(i) = [Writes EXCEPT !.is_jal = TRUE, !.result_src = "pc4"]
         /\ i.op = "JALR" =>
              Decode(i) = [WritesImm EXCEPT !.is_jalr = TRUE, !.result_src = "pc4"]
         /\ i.op = "LUI" => Decode(i) = [Writes EXCEPT !.result_src = "imm"]
         /\ i.op = "AUIPC" => Decode(i) = [WritesImm EXCEPT !.src_a_pc = TRUE]
         /\ i.op = "CUSTOM0" /\ i.f3 = 0 =>
              Decode(i) = [Exp EXCEPT !.fisol_bound = TRUE]
         /\ i.op = "CUSTOM0" /\ i.f3 = 1 => Decode(i) = [Exp EXCEPT !.fisol_off = TRUE]
         /\ i.op = "CUSTOM0" /\ i.f3 \in 2 .. 7 =>
              Decode(i) = [Exp EXCEPT !.illegal = TRUE]
         /\ i.op = "SYSTEM" /\ i.f3 \in 1 .. 3 =>
              Decode(i) = [Writes EXCEPT !.is_csr = TRUE]
         /\ i.op = "SYSTEM" /\ i.f3 \in {0, 4} =>
              Decode(i) = [Exp EXCEPT !.illegal = TRUE]
         /\ i.op = "FENCE" => Decode(i) = Exp
  <1>1. ASSUME i.op = "OP" /\ i.f7 = 1 PROVE Decode(i) = [Writes EXCEPT !.is_muldiv = TRUE]
    <2> DEFINE e == [Writes EXCEPT !.is_muldiv = TRUE]
    <2>1. e \in ControlSignals
      BY ExpectedTypes DEF ControlSignals, AluOp
    <2>2. SignalsOf(e, i)
      BY <1>1, ExpectedTypes, WritesFields DEF SignalsOf, ControlSignals, MemWidth, IsCsr
    <2> QED BY <1>1, <2>1, <2>2, SignalsDecode
  <1>2. ASSUME i.op = "STORE" /\ i.f3 = 2
        PROVE  Decode(i) = [Exp EXCEPT !.mem_write = TRUE, !.src_b_imm = TRUE]
    <2> DEFINE e == [Exp EXCEPT !.mem_write = TRUE, !.src_b_imm = TRUE]
    <2>1. e \in ControlSignals
      BY ExpectedTypes DEF ControlSignals, AluOp
    <2>2. SignalsOf(e, i)
      BY <1>2, ExpectedTypes, ExpFields DEF SignalsOf, ControlSignals, MemWidth, IsCsr
    <2> QED BY <1>2, <2>1, <2>2, SignalsDecode
  <1>3. ASSUME i.op = "BRANCH" PROVE Decode(i) = [Exp EXCEPT !.is_branch = TRUE]
    <2> DEFINE e == [Exp EXCEPT !.is_branch = TRUE]
    <2>1. e \in ControlSignals
      BY ExpectedTypes DEF ControlSignals, AluOp
    <2>2. SignalsOf(e, i)
      BY <1>3, ExpectedTypes, ExpFields DEF SignalsOf, ControlSignals, MemWidth, IsCsr
    <2> QED BY <1>3, <2>1, <2>2, SignalsDecode
  <1>4. ASSUME i.op = "JAL"
        PROVE  Decode(i) = [Writes EXCEPT !.is_jal = TRUE, !.result_src = "pc4"]
    <2> DEFINE e == [Writes EXCEPT !.is_jal = TRUE, !.result_src = "pc4"]
    <2>1. e \in ControlSignals
      BY ExpectedTypes DEF ControlSignals, AluOp
    <2>2. SignalsOf(e, i)
      BY <1>4, ExpectedTypes, WritesFields DEF SignalsOf, ControlSignals, MemWidth, IsCsr
    <2> QED BY <1>4, <2>1, <2>2, SignalsDecode
  <1>5. ASSUME i.op = "JALR"
        PROVE  Decode(i) = [WritesImm EXCEPT !.is_jalr = TRUE, !.result_src = "pc4"]
    <2> DEFINE e == [WritesImm EXCEPT !.is_jalr = TRUE, !.result_src = "pc4"]
    <2>1. e \in ControlSignals
      BY ExpectedTypes DEF ControlSignals, AluOp
    <2>2. SignalsOf(e, i)
      BY <1>5, ExpectedTypes, WritesImmFields DEF SignalsOf, ControlSignals, MemWidth, IsCsr
    <2> QED BY <1>5, <2>1, <2>2, SignalsDecode
  <1>6. ASSUME i.op = "LUI" PROVE Decode(i) = [Writes EXCEPT !.result_src = "imm"]
    <2> DEFINE e == [Writes EXCEPT !.result_src = "imm"]
    <2>1. e \in ControlSignals
      BY ExpectedTypes DEF ControlSignals, AluOp
    <2>2. SignalsOf(e, i)
      BY <1>6, ExpectedTypes, WritesFields DEF SignalsOf, ControlSignals, MemWidth, IsCsr
    <2> QED BY <1>6, <2>1, <2>2, SignalsDecode
  <1>7. ASSUME i.op = "AUIPC" PROVE Decode(i) = [WritesImm EXCEPT !.src_a_pc = TRUE]
    <2> DEFINE e == [WritesImm EXCEPT !.src_a_pc = TRUE]
    <2>1. e \in ControlSignals
      BY ExpectedTypes DEF ControlSignals, AluOp
    <2>2. SignalsOf(e, i)
      BY <1>7, ExpectedTypes, WritesImmFields DEF SignalsOf, ControlSignals, MemWidth, IsCsr
    <2> QED BY <1>7, <2>1, <2>2, SignalsDecode
  <1>8. ASSUME i.op = "CUSTOM0" /\ i.f3 = 0 PROVE Decode(i) = [Exp EXCEPT !.fisol_bound = TRUE]
    <2> DEFINE e == [Exp EXCEPT !.fisol_bound = TRUE]
    <2>1. e \in ControlSignals
      BY ExpectedTypes DEF ControlSignals, AluOp
    <2>2. SignalsOf(e, i)
      BY <1>8, ExpectedTypes, ExpFields DEF SignalsOf, ControlSignals, MemWidth, IsCsr
    <2> QED BY <1>8, <2>1, <2>2, SignalsDecode
  <1>9. ASSUME i.op = "CUSTOM0" /\ i.f3 = 1 PROVE Decode(i) = [Exp EXCEPT !.fisol_off = TRUE]
    <2> DEFINE e == [Exp EXCEPT !.fisol_off = TRUE]
    <2>1. e \in ControlSignals
      BY ExpectedTypes DEF ControlSignals, AluOp
    <2>2. SignalsOf(e, i)
      BY <1>9, ExpectedTypes, ExpFields DEF SignalsOf, ControlSignals, MemWidth, IsCsr
    <2> QED BY <1>9, <2>1, <2>2, SignalsDecode
  <1>10. ASSUME i.op = "CUSTOM0" /\ i.f3 \in 2 .. 7
        PROVE  Decode(i) = [Exp EXCEPT !.illegal = TRUE]
    <2> DEFINE e == [Exp EXCEPT !.illegal = TRUE]
    <2>1. e \in ControlSignals
      BY ExpectedTypes DEF ControlSignals, AluOp
    <2>2. SignalsOf(e, i)
      BY <1>10, ExpectedTypes, ExpFields DEF SignalsOf, ControlSignals, MemWidth, IsCsr
    <2> QED BY <1>10, <2>1, <2>2, SignalsDecode
  <1>11. ASSUME i.op = "SYSTEM" /\ i.f3 \in 1 .. 3
        PROVE  Decode(i) = [Writes EXCEPT !.is_csr = TRUE]
    <2> DEFINE e == [Writes EXCEPT !.is_csr = TRUE]
    <2>1. e \in ControlSignals
      BY ExpectedTypes DEF ControlSignals, AluOp
    <2>2. SignalsOf(e, i)
      BY <1>11, ExpectedTypes, WritesFields DEF SignalsOf, ControlSignals, MemWidth, IsCsr
    <2> QED BY <1>11, <2>1, <2>2, SignalsDecode
  <1>12. ASSUME i.op = "SYSTEM" /\ i.f3 \in {0, 4}
        PROVE  Decode(i) = [Exp EXCEPT !.illegal = TRUE]
    <2> DEFINE e == [Exp EXCEPT !.illegal = TRUE]
    <2>1. e \in ControlSignals
      BY ExpectedTypes DEF ControlSignals, AluOp
    <2>2. SignalsOf(e, i)
      BY <1>12, ExpectedTypes, ExpFields DEF SignalsOf, ControlSignals, MemWidth, IsCsr
    <2> QED BY <1>12, <2>1, <2>2, SignalsDecode
  <1>13. ASSUME i.op = "FENCE" PROVE Decode(i) = Exp
    <2> DEFINE e == Exp
    <2>1. e \in ControlSignals
      BY ExpectedTypes DEF ControlSignals, AluOp
    <2>2. SignalsOf(e, i)
      BY <1>13, ExpectedTypes, ExpFields DEF SignalsOf, ControlSignals, MemWidth, IsCsr
    <2> QED BY <1>13, <2>1, <2>2, SignalsDecode
  <1> QED BY <1>1, <1>2, <1>3, <1>4, <1>5, <1>6, <1>7, <1>8, <1>9, <1>10, <1>11, <1>12, <1>13

(* Every vector's word decodes as expected, with any of its free bits set. *)
LEMMA DecoderVectorsDecoded ==
  ASSUME NEW v \in DecoderVectors, NEW s \in Noise(v)
  PROVE  /\ Decode(Fields(v.word \cup s)) = v.expect
         /\ v.expect.is_csr => CsrOp(Fields(v.word \cup s).f3) = v.csr_op
  <1> DEFINE i == Fields(v.word \cup s)
  <1>1. s \subseteq v.free
    BY DEF Noise
  <1>2. Registers \subseteq Operands
    BY DEF Registers, Operands
  (* The three shapes of a word.                                           *)
  <1>3. ASSUME NEW f7 \in 0 .. 127, NEW rs2, NEW rs1, NEW f3 \in 0 .. 7, NEW rd, NEW op \in Opcode,
               v.word = r_type(f7, rs2, rs1, f3, rd, op), v.free \in SUBSET Operands
        PROVE  WordReads(v.word \cup s, f7, f3, op, s)
    <2>1. s \in SUBSET Operands /\ op \in Opcode \cup {"none"}
      BY <1>1, <1>3
    <2> DEFINE w == v.word \cup s
    <2>2. w = r_type(f7, rs2, rs1, f3, rd, op) \cup s
      BY <1>3
    <2> HIDE DEF w
    <2>3. WordReads(w, f7, f3, op, s)
      BY <2>1, <2>2, WordFields
    <2> QED BY <2>3 DEF w
  <1>4. ASSUME NEW imm, NEW rs1, NEW f3 \in 0 .. 7, NEW rd, NEW op \in Opcode,
               v.word = i_type(imm, rs1, f3, rd, op), v.free \in SUBSET Operands
        PROVE  /\ i.op = op /\ i.f3 = f3
               /\ 30 \notin v.free => ((i.f7 \div 32) % 2 = 1 <=> 10 \in BitsOf(imm))
    <2> DEFINE F == Slice(BitsOf(imm), 11, 0, 20) \cup s
               w == v.word \cup s
    <2>1. BitsOf(imm) \in SUBSET Bit
      BY DEF BitsOf, Bit
    <2>2. SliceAt(BitsOf(imm), 11, 0, 20)
      BY <2>1, InSlice
    <2>3. /\ Slice(BitsOf(imm), 11, 0, 20) \subseteq 20 .. 31
          /\ 30 \in Slice(BitsOf(imm), 11, 0, 20) <=> 10 \in BitsOf(imm)
      <3>1. 30 \in 20 .. 20 + (11 - 0) /\ (30 - 20) + 0 = 10
        OBVIOUS
      <3> QED BY <2>2, <3>1 DEF SliceAt
    <2>4. F \in SUBSET Operands
      BY <1>1, <1>4, <2>3 DEF Operands
    <2>5. w = r_type(0, 0, rs1, f3, rd, op) \cup F
      BY <1>4 DEF i_type
    <2>6. 0 \in 0 .. 127 /\ 5 \notin BitsOf(0)
      <3>1. SignFrom(BitsOf(0), 0) /\ 31 \notin BitsOf(0)
        <4>1. SignFrom(BitsOf(0), 0)
          BY Exp2Step, SignedBits
        <4> QED BY <4>1 DEF BitsOf
      <3> QED BY <3>1 DEF SignFrom
    <2>7. op # "none" /\ op \in Opcode \cup {"none"}
      BY DEF Opcode
    <2> HIDE DEF F, w
    <2>8. WordReads(w, 0, f3, op, F)
      BY <2>4, <2>5, <2>6, <2>7, WordFields
    <2>9. 30 \notin v.free => (30 \in F <=> 10 \in BitsOf(imm))
      BY <1>1, <2>3 DEF F
    <2> QED BY <2>6, <2>7, <2>8, <2>9 DEF w, WordReads
  <1>5. ASSUME NEW op \in Opcode \cup {"none"}, v.word = OpcodeBits(op), v.free = 7 .. 31
        PROVE  i.op = IF op = "none" THEN "FENCE" ELSE op
    <2>1. s \in SUBSET (7 .. 31) /\ v.word \cup s = s \cup OpcodeBits(op)
      BY <1>1, <1>5
    <2>2. OpcodeOf(s \cup OpcodeBits(op)) = IF op = "none" THEN "FENCE" ELSE op
      BY <2>1, OpcodeKept
    <2> QED BY <2>1, <2>2 DEF Fields
  <1> HIDE DEF i
  (* The vectors.                                                          *)
  <1>6. ASSUME NEW c \in AluCodes,
               v = DecoderVector(r_type(c[1], 1, 2, c[2], 3, "OP"), Registers,
                                 [Writes EXCEPT !.alu_op = c[3]])
        PROVE  Decode(i) = v.expect /\ ~IsCsr(i)
    <2>1. c[1] \in 0 .. 127 /\ c[2] \in 0 .. 7 /\ "OP" \in Opcode
      BY DEF AluCodes, Opcode
    <2>2. /\ v.word = r_type(c[1], 1, 2, c[2], 3, "OP") /\ v.free = Registers
          /\ v.free \in SUBSET Operands /\ v.free \in SUBSET Registers
          /\ v.expect = [Writes EXCEPT !.alu_op = c[3]]
      BY <1>2, <1>6 DEF DecoderVector
    <2>3. WordReads(v.word \cup s, c[1], c[2], "OP", s)
      BY <1>3, <2>1, <2>2
    <2>4. i.op = "OP" /\ i.f3 = c[2] /\ i.f7 = c[1]
      BY <1>1, <2>2, <2>3 DEF i, WordReads
    <2>5. ~IsCsr(i)
      BY <2>4 DEF IsCsr
    <2>6. Decode(i) = v.expect
      BY <2>2, <2>4, DecodedOp
    <2> QED BY <2>5, <2>6
  <1>7. ASSUME NEW c \in AluCodes \ {<<32, 0, "SUB">>},
               v = DecoderVector(i_type(32 * c[1] + 5, 1, c[2], 3, "OPIMM"),
                                 Operands \ (IF c[2] = 5 THEN {30} ELSE {}),
                                 [WritesImm EXCEPT !.alu_op = c[3]])
        PROVE  Decode(i) = v.expect /\ ~IsCsr(i)
    <2>1. c[1] \in {0, 32} /\ c[2] \in 0 .. 7 /\ "OPIMM" \in Opcode
      BY DEF AluCodes, Opcode
    <2>2. /\ v.word = i_type(32 * c[1] + 5, 1, c[2], 3, "OPIMM") /\ v.free \in SUBSET Operands
          /\ c[2] = 5 => 30 \notin v.free
          /\ v.expect = [WritesImm EXCEPT !.alu_op = c[3]]
      BY <1>7 DEF DecoderVector
    <2>3. 10 \in BitsOf(32 * c[1] + 5) <=> c[1] = 32
      <3>1. 5 \div 1024 = 0 /\ 1029 \div 1024 = 1 /\ 32 * 0 + 5 = 5 /\ 32 * 32 + 5 = 1029
        OBVIOUS
      <3> QED BY <2>1, <3>1, Exp2Values DEF BitsOf
    <2>4. /\ i.op = "OPIMM" /\ i.f3 = c[2]
          /\ c[2] = 5 => ((i.f7 \div 32) % 2 = 1 <=> c[1] = 32)
      BY <1>4, <2>1, <2>2, <2>3
    <2>5. ~IsCsr(i)
      BY <2>4 DEF IsCsr
    <2>6. Decode(i) = v.expect
      BY <2>2, <2>4, DecodedOpImm
    <2> QED BY <2>5, <2>6
  <1>8. ASSUME NEW c \in LoadCodes,
               v = DecoderVector(i_type(0, 1, c[1], 3, "LOAD"), Operands,
                                 [WritesImm EXCEPT !.mem_read = TRUE, !.result_src = "mem",
                                                   !.mem_width = c[2], !.mem_unsigned = c[3]])
        PROVE  Decode(i) = v.expect /\ ~IsCsr(i)
    <2>1. c[1] \in 0 .. 7 /\ "LOAD" \in Opcode
      BY LoadCodeWidths DEF Opcode
    <2>2. /\ v.word = i_type(0, 1, c[1], 3, "LOAD") /\ v.free = Operands
          /\ v.expect = [WritesImm EXCEPT !.mem_read = TRUE, !.result_src = "mem",
                                          !.mem_width = c[2], !.mem_unsigned = c[3]]
      BY <1>8 DEF DecoderVector
    <2>3. i.op = "LOAD" /\ i.f3 = c[1]
      BY <1>4, <2>1, <2>2
    <2>4. ~IsCsr(i)
      BY <2>3 DEF IsCsr
    <2>5. Decode(i) = v.expect
      BY <2>2, <2>3, DecodedLoad
    <2> QED BY <2>4, <2>5
  <1>9. ASSUME v = DecoderVector(r_type(1, 1, 2, 0, 3, "OP"), Registers,
                              [Writes EXCEPT !.is_muldiv = TRUE])
        PROVE  Decode(i) = v.expect /\ ~IsCsr(i)
    <2>1. 1 \in 0 .. 127 /\ 0 \in 0 .. 7 /\ "OP" \in Opcode
      BY DEF Opcode
    <2>2. /\ v.word = r_type(1, 1, 2, 0, 3, "OP") /\ v.free = Registers
          /\ v.free \in SUBSET Operands
          /\ v.expect = [Writes EXCEPT !.is_muldiv = TRUE]
      BY <1>2, <1>9 DEF DecoderVector
    <2>3. WordReads(v.word \cup s, 1, 0, "OP", s)
      BY <1>3, <2>1, <2>2
    <2>4. i.op = "OP" /\ i.f7 = 1
      BY <1>1, <2>2, <2>3 DEF i, WordReads
    <2>5. ~IsCsr(i)
      BY <2>4 DEF IsCsr
    <2>6. Decode(i) = v.expect
      BY <2>2, <2>4, DecodedOther
    <2> QED BY <2>5, <2>6
  <1>10. ASSUME v = DecoderVector(r_type(0, 1, 2, 2, 0, "STORE"), Operands,
                              [Exp EXCEPT !.mem_write = TRUE, !.src_b_imm = TRUE])
        PROVE  Decode(i) = v.expect /\ ~IsCsr(i)
    <2>1. 0 \in 0 .. 127 /\ 2 \in 0 .. 7 /\ "STORE" \in Opcode
      BY DEF Opcode
    <2>2. /\ v.word = r_type(0, 1, 2, 2, 0, "STORE") /\ v.free = Operands
          /\ v.free \in SUBSET Operands
          /\ v.expect = [Exp EXCEPT !.mem_write = TRUE, !.src_b_imm = TRUE]
      BY <1>2, <1>10 DEF DecoderVector
    <2>3. WordReads(v.word \cup s, 0, 2, "STORE", s)
      BY <1>3, <2>1, <2>2
    <2>4. i.op = "STORE" /\ i.f3 = 2
      BY <1>1, <2>2, <2>3 DEF i, WordReads
    <2>5. ~IsCsr(i)
      BY <2>4 DEF IsCsr
    <2>6. Decode(i) = v.expect
      BY <2>2, <2>4, DecodedOther
    <2> QED BY <2>5, <2>6
  <1>11. ASSUME v = DecoderVector(r_type(0, 1, 2, 0, 0, "BRANCH"), Operands,
                              [Exp EXCEPT !.is_branch = TRUE])
        PROVE  Decode(i) = v.expect /\ ~IsCsr(i)
    <2>1. 0 \in 0 .. 127 /\ 0 \in 0 .. 7 /\ "BRANCH" \in Opcode
      BY DEF Opcode
    <2>2. /\ v.word = r_type(0, 1, 2, 0, 0, "BRANCH") /\ v.free = Operands
          /\ v.free \in SUBSET Operands
          /\ v.expect = [Exp EXCEPT !.is_branch = TRUE]
      BY <1>2, <1>11 DEF DecoderVector
    <2>3. WordReads(v.word \cup s, 0, 0, "BRANCH", s)
      BY <1>3, <2>1, <2>2
    <2>4. i.op = "BRANCH"
      BY <1>1, <2>2, <2>3 DEF i, WordReads
    <2>5. ~IsCsr(i)
      BY <2>4 DEF IsCsr
    <2>6. Decode(i) = v.expect
      BY <2>2, <2>4, DecodedOther
    <2> QED BY <2>5, <2>6
  <1>12. ASSUME v = DecoderVector(i_type(0, 1, 0, 3, "JALR"), Operands,
                                 [WritesImm EXCEPT !.is_jalr = TRUE, !.result_src = "pc4"])
        PROVE  Decode(i) = v.expect /\ ~IsCsr(i)
    <2>1. 0 \in 0 .. 7 /\ "JALR" \in Opcode
      BY DEF Opcode
    <2>2. /\ v.word = i_type(0, 1, 0, 3, "JALR") /\ v.free \in SUBSET Operands
          /\ v.expect = [WritesImm EXCEPT !.is_jalr = TRUE, !.result_src = "pc4"]
      BY <1>12 DEF DecoderVector
    <2>3. i.op = "JALR" /\ i.f3 = 0
      BY <1>4, <2>1, <2>2
    <2>4. ~IsCsr(i)
      BY <2>3 DEF IsCsr
    <2>5. Decode(i) = v.expect
      BY <2>2, <2>3, DecodedOther
    <2> QED BY <2>4, <2>5
  <1>13. ASSUME v = DecoderVector(i_type(0, 0, 0, 0, "CUSTOM0"), Operands,
                                 [Exp EXCEPT !.fisol_bound = TRUE])
        PROVE  Decode(i) = v.expect /\ ~IsCsr(i)
    <2>1. 0 \in 0 .. 7 /\ "CUSTOM0" \in Opcode
      BY DEF Opcode
    <2>2. /\ v.word = i_type(0, 0, 0, 0, "CUSTOM0") /\ v.free \in SUBSET Operands
          /\ v.expect = [Exp EXCEPT !.fisol_bound = TRUE]
      BY <1>13 DEF DecoderVector
    <2>3. i.op = "CUSTOM0" /\ i.f3 = 0
      BY <1>4, <2>1, <2>2
    <2>4. ~IsCsr(i)
      BY <2>3 DEF IsCsr
    <2>5. Decode(i) = v.expect
      BY <2>2, <2>3, DecodedOther
    <2> QED BY <2>4, <2>5
  <1>14. ASSUME v = DecoderVector(i_type(0, 0, 1, 0, "CUSTOM0"), Operands,
                                 [Exp EXCEPT !.fisol_off = TRUE])
        PROVE  Decode(i) = v.expect /\ ~IsCsr(i)
    <2>1. 1 \in 0 .. 7 /\ "CUSTOM0" \in Opcode
      BY DEF Opcode
    <2>2. /\ v.word = i_type(0, 0, 1, 0, "CUSTOM0") /\ v.free \in SUBSET Operands
          /\ v.expect = [Exp EXCEPT !.fisol_off = TRUE]
      BY <1>14 DEF DecoderVector
    <2>3. i.op = "CUSTOM0" /\ i.f3 = 1
      BY <1>4, <2>1, <2>2
    <2>4. ~IsCsr(i)
      BY <2>3 DEF IsCsr
    <2>5. Decode(i) = v.expect
      BY <2>2, <2>3, DecodedOther
    <2> QED BY <2>4, <2>5
  <1>15. ASSUME NEW f3 \in 2 .. 7, 
               v = DecoderVector(i_type(0, 0, f3, 0, "CUSTOM0"), Operands,
                                 [Exp EXCEPT !.illegal = TRUE])
        PROVE  Decode(i) = v.expect /\ ~IsCsr(i)
    <2>1. f3 \in 0 .. 7 /\ "CUSTOM0" \in Opcode
      BY DEF Opcode
    <2>2. /\ v.word = i_type(0, 0, f3, 0, "CUSTOM0") /\ v.free \in SUBSET Operands
          /\ v.expect = [Exp EXCEPT !.illegal = TRUE]
      BY <1>15 DEF DecoderVector
    <2>3. i.op = "CUSTOM0" /\ i.f3 = f3
      BY <1>4, <2>1, <2>2
    <2>4. ~IsCsr(i)
      BY <2>3 DEF IsCsr
    <2>5. Decode(i) = v.expect
      BY <2>2, <2>3, DecodedOther
    <2> QED BY <2>4, <2>5
  <1>16. ASSUME NEW f3 \in 1 .. 3, 
               v = CsrVector(i_type(0, 1, f3, 3, "SYSTEM"), Operands, f3)
        PROVE  Decode(i) = v.expect /\ CsrOp(i.f3) = v.csr_op
    <2>1. f3 \in 0 .. 7 /\ "SYSTEM" \in Opcode
      BY DEF Opcode
    <2>2. /\ v.word = i_type(0, 1, f3, 3, "SYSTEM") /\ v.free \in SUBSET Operands
          /\ v.expect = [Writes EXCEPT !.is_csr = TRUE] /\ v.csr_op = f3
      BY <1>16 DEF CsrVector
    <2>3. i.op = "SYSTEM" /\ i.f3 = f3
      BY <1>4, <2>1, <2>2
    <2>4. CsrOp(i.f3) = v.csr_op
      BY <2>2, <2>3 DEF CsrOp
    <2>5. Decode(i) = v.expect
      BY <2>2, <2>3, DecodedOther
    <2> QED BY <2>4, <2>5
  <1>17. ASSUME NEW f3 \in {0, 4}, 
               v = DecoderVector(i_type(0, 1, f3, 3, "SYSTEM"), Operands,
                                 [Exp EXCEPT !.illegal = TRUE])
        PROVE  Decode(i) = v.expect /\ ~IsCsr(i)
    <2>1. f3 \in 0 .. 7 /\ "SYSTEM" \in Opcode
      BY DEF Opcode
    <2>2. /\ v.word = i_type(0, 1, f3, 3, "SYSTEM") /\ v.free \in SUBSET Operands
          /\ v.expect = [Exp EXCEPT !.illegal = TRUE]
      BY <1>17 DEF DecoderVector
    <2>3. i.op = "SYSTEM" /\ i.f3 = f3
      BY <1>4, <2>1, <2>2
    <2>4. ~IsCsr(i)
      BY <2>3 DEF IsCsr
    <2>5. Decode(i) = v.expect
      BY <2>2, <2>3, DecodedOther
    <2> QED BY <2>4, <2>5
  <1>18. ASSUME v = DecoderVector(OpcodeBits("JAL"), 7 .. 31,
                                  [Writes EXCEPT !.is_jal = TRUE, !.result_src = "pc4"])
        PROVE  Decode(i) = v.expect /\ ~IsCsr(i)
    <2>1. "JAL" \in Opcode \cup {"none"}
      BY DEF Opcode
    <2>2. /\ v.word = OpcodeBits("JAL") /\ v.free = 7 .. 31
          /\ v.expect = [Writes EXCEPT !.is_jal = TRUE, !.result_src = "pc4"]
      BY <1>18 DEF DecoderVector
    <2>3. i.op = "JAL"
      BY <1>5, <2>1, <2>2
    <2>4. ~IsCsr(i)
      BY <2>3 DEF IsCsr
    <2>5. Decode(i) = v.expect
      BY <2>2, <2>3, DecodedOther
    <2> QED BY <2>4, <2>5
  <1>19. ASSUME v = DecoderVector(OpcodeBits("LUI"), 7 .. 31, [Writes EXCEPT !.result_src = "imm"])
        PROVE  Decode(i) = v.expect /\ ~IsCsr(i)
    <2>1. "LUI" \in Opcode \cup {"none"}
      BY DEF Opcode
    <2>2. /\ v.word = OpcodeBits("LUI") /\ v.free = 7 .. 31
          /\ v.expect = [Writes EXCEPT !.result_src = "imm"]
      BY <1>19 DEF DecoderVector
    <2>3. i.op = "LUI"
      BY <1>5, <2>1, <2>2
    <2>4. ~IsCsr(i)
      BY <2>3 DEF IsCsr
    <2>5. Decode(i) = v.expect
      BY <2>2, <2>3, DecodedOther
    <2> QED BY <2>4, <2>5
  <1>20. ASSUME v = DecoderVector(OpcodeBits("AUIPC"), 7 .. 31, [WritesImm EXCEPT !.src_a_pc = TRUE])
        PROVE  Decode(i) = v.expect /\ ~IsCsr(i)
    <2>1. "AUIPC" \in Opcode \cup {"none"}
      BY DEF Opcode
    <2>2. /\ v.word = OpcodeBits("AUIPC") /\ v.free = 7 .. 31
          /\ v.expect = [WritesImm EXCEPT !.src_a_pc = TRUE]
      BY <1>20 DEF DecoderVector
    <2>3. i.op = "AUIPC"
      BY <1>5, <2>1, <2>2
    <2>4. ~IsCsr(i)
      BY <2>3 DEF IsCsr
    <2>5. Decode(i) = v.expect
      BY <2>2, <2>3, DecodedOther
    <2> QED BY <2>4, <2>5
  <1>21. ASSUME v = DecoderVector(OpcodeBits("none"), 7 .. 31, Exp)
        PROVE  Decode(i) = v.expect /\ ~IsCsr(i)
    <2>1. "none" \in Opcode \cup {"none"}
      BY DEF Opcode
    <2>2. v.word = OpcodeBits("none") /\ v.free = 7 .. 31 /\ v.expect = Exp
      BY <1>21 DEF DecoderVector
    <2>3. i.op = "FENCE"
      BY <1>5, <2>1, <2>2
    <2>4. ~IsCsr(i)
      BY <2>3 DEF IsCsr
    <2>5. Decode(i) = v.expect
      BY <2>2, <2>3, DecodedOther
    <2> QED BY <2>4, <2>5
  <1>22. \/ Decode(i) = v.expect /\ ~IsCsr(i)
         \/ Decode(i) = v.expect /\ CsrOp(i.f3) = v.csr_op
    BY <1>6, <1>7, <1>8, <1>9, <1>10, <1>11, <1>12, <1>13, <1>14, <1>15,
       <1>16, <1>17, <1>18, <1>19, <1>20, <1>21 DEF DecoderVectors
  <1>23. Decode(i).is_csr = IsCsr(i)
    BY DEF Decode
  <1> QED BY <1>22, <1>23 DEF i

(* The vector's control signals are those of its word.                     *)
DecoderInv ==
  bench = "decoder" => verdict # "FAIL" /\ DecodesTo(vec)

(* Every instruction of the bench decodes to the control signals it lists, *)
(* whatever its register numbers and its immediate (decoder.sv:41-121).    *)
THEOREM ControlsAlwaysDecoded == UbSpec => []ControlsDecoded
  <1>1. UbInit => DecoderInv
    <2> SUFFICES ASSUME UbInit, bench = "decoder"
                 PROVE  verdict # "FAIL" /\ DecodesTo(vec)
      BY DEF DecoderInv
    <2>1. verdict = "none"
      BY DEF UbInit
    <2>2. PICK v \in DecoderVectors : \E s \in Noise(v) : vec = [v EXCEPT !.word = @ \cup s]
      BY DEF UbInit
    <2>3. PICK s \in Noise(v) : vec = [v EXCEPT !.word = @ \cup s]
      BY <2>2
    <2>4. vec.word = v.word \cup s /\ vec.expect = v.expect /\ vec.csr_op = v.csr_op
      <3>1. \/ \E word, free, expect : v = DecoderVector(word, free, expect)
            \/ \E word, free, op : v = CsrVector(word, free, op)
        BY DEF DecoderVectors
      <3> QED BY <2>3, <3>1 DEF DecoderVector, CsrVector
    <2> QED BY <2>1, <2>4, DecoderVectorsDecoded DEF DecodesTo
  <1>2. DecoderInv /\ [UbNext]_ubvars => DecoderInv'
    <2> SUFFICES ASSUME DecoderInv, [UbNext]_ubvars PROVE DecoderInv'
      OBVIOUS
    <2>1. CASE Eval
      BY <2>1 DEF Eval, Compare, DecoderInv
    <2>2. CASE IterStart
      BY <2>2 DEF IterStart, DecoderInv
    <2>3. CASE IterPoll
      BY <2>3 DEF IterPoll, DecoderInv
    <2>4. CASE RegfileStep
      BY <2>4 DEF RegfileStep, DecoderInv
    <2>5. CASE UNCHANGED ubvars
      BY <2>5 DEF ubvars, DecoderInv
    <2> QED BY <2>1, <2>2, <2>3, <2>4, <2>5 DEF UbNext
  <1>3. DecoderInv => ControlsDecoded
    BY DEF DecoderInv, ControlsDecoded
  <1> QED BY <1>1, <1>2, <1>3, PTL DEF UbSpec
=============================================================================
