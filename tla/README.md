# Formal model of the fusion / isolation pipeline

The repository is a five-stage RV32IM core in SystemVerilog
(`src/rtl/core_top_pipelined.sv`) with two additions: *macro-op fusion* of
adjacent instruction pairs in decode, and *operand isolation* in front of an
iterative multiply/divide unit. A single-cycle core (`src/rtl/core_top.sv`)
is its golden reference, itself compared with the Spike simulator. The
simulator's testbenches and the C library under the benchmarks come with it.

This directory models the hardware in TLA+ at the level of clock edges, and the
software loop by loop, checks both with TLC on small instances, and proves part
of what is checked with TLAPS for all instances. Paths below are relative to
the repository; RTL files without a directory are in `rtl/`.

1. [Inventory](#1-inventory)
2. [The modules, and how they correspond to the code](#2-the-modules)
3. [What is checked](#3-what-is-checked)
4. [Where the code and its documents differ](#4-where-the-code-and-its-documents-differ)
5. [What is proved](#5-what-is-proved)
6. [Bounds, restrictions and fairness](#6-bounds-restrictions-and-fairness)
7. [What is not modelled](#7-what-is-not-modelled)
8. [Plan](#8-plan)

## 1. Inventory

| component | state it keeps | operations | talks to |
|---|---|---|---|
| Pipelined core `core_top_pipelined.sv`, `pipeline_regs.sv`, `regfile_pipelined.sv` | PC; fetch register with its lookahead word; IF/ID, ID/EX, EX/MEM, MEM/WB registers; `id_bound_active`; `pend2_active`, `pend2_fire_*`; registered memory read; register file; data memory | one clock edge; asynchronous reset | all units below, by wires |
| Hazard unit `hazard_unit.sv` | none | forwarding selection, stalls, flushes | core |
| Fusion detector (in the core) | none of its own; reads `id_bound_active` | match one of 5 idioms on (ID word, lookahead word), hazard interlock, build the fused operation | IF/ID, ID/EX, register file, `pend2_*` |
| Decoder, ALU, comparator, immediates `decoder.sv`, `alu.sv`, `imm_gen.sv` | none | instruction to control signals; arithmetic | both cores |
| Iterative multiply/divide unit `muldiv_iter.sv` | FSM state, `busy`, `done`, counter, accumulator, operand and sign registers | start, iterate, finish | core: `start`, `op_en` in; `busy`, `done`, result out |
| Combinational multiply/divide unit `muldiv.sv` | none | reference result | single-cycle core |
| Operand isolation `isol_gate.sv` | `q_hold` of each gate | pass or hold | forwarding muxes to `muldiv_iter` |
| CSR file and trap unit `csr_file.sv`, `trap_unit.sv` | `mepc`, `mcause`, `mtval`, `mtvec`, four counters | read in EX, software write from WB, trap write from EX, count events | core |
| Single-cycle core `core_top.sv`, `regfile.sv` | PC, register file, memory | retire one instruction | nothing |
| Commit logs `sim/tb_pipeline.cpp`, `sim/tb_core.cpp` | UART log, length of the current `pend2` episode, histogram | print a line for a register write or a store; compare | the cores |
| Unit testbenches `sim/tb_{imm_gen,decoder,alu,muldiv,muldiv_iter,regfile}.cpp` | position in a list of vectors, verdict | drive, poll, compare | one unit each |
| Counter self-check `sim/tb_hpm_selfcheck.cpp` | shadow counters | count, compare | CSR file |
| Benchmark runtime `sw/bench/`: `ee_printf.c`, `miniprintf.c`, `ministring.c`, `syscalls_uart.c`, `core_portme.c`, `main_wrapper.c`, `board_support.c` | position in a format and its argument list; memory; start and stop time; break of the heap | print, copy, compare, time, allocate | UART, `mcycle` |
| Harness, programs, FPGA and ASIC flows | - | scripts | - |

How they interact: the hardware is synchronous to one free-running clock.
Within an edge, four *requests* compete for the pipeline registers: a load-use
bubble, the multiply/divide freeze, the stall of a deferred second write
(`pend2_active`), and a redirect (branch, jump, fused branch or trap). Three
things may want the single write port of the register file or of the CSR file
in one edge. Data crosses stages backwards by forwarding (register and CSR
values) and by the register file's write-through read. Reset is asynchronous
and reaches some of the registers only. The software runs alone on the core and
talks to the outside through the UART data register and `mcycle`.

**What is hard.** Nothing here is a thread, but the five stages are five
actors working on different instructions, and the bugs the source comments
record are all interleavings of theirs: an instruction issued twice by a
fusion clear in a stalled cycle, a bubble that erases the multiply that caused
it, operands latched one cycle late by the isolation gate, a second register
write that lands after a younger one, a load frozen in WB that gets the next
address's data. A reset may fall into any of these. In the software it is the
boundaries: a format that breaks off inside a directive, an argument list read
out of step, overlapping regions, the least integer, a counter that wraps, an
exhausted heap. `PROJECT.json` lists them as hazards, each at its line.

**What makes each component correct.**

- *Pipelined core*: whatever the interleaving of stalls, freezes, flushes and
  fusions, the program sees the single-cycle machine (`InOrderRetirement`); what
  EX reads is what its registers hold (`ForwardingIsCurrent`); no instruction of a
  wrong path gets as far as EX (`Tame`);
  the machine goes on (`KeepsIssuing`), and a reset in any cycle leaves a state
  the program could have been in (`RestartsCleanly`).
- *Fusion*: the deferred second write of idioms 3 and 5 is neither lost nor
  overtaken (`Pend2Protocol`, `WbPortConflictFree`), and holds up the front end
  for a fixed time (`EpisodesTakeFour`); the lookahead word really
  is the successor (`LookaheadFromStream`); `FISOL.BOUND` regions are respected
  (`BoundRespected`); the detector fails safe (`FusionFailsSafe`).
- *Multiply/divide unit*: the iterative result is the combinational one
  (`ResultCorrect`) because of its loop invariants (`PartialProduct`,
  `PartialQuotient`); it finishes (`Finishes`); it keeps its operands through a
  freeze and delivers to the operation that asked (`MuldivOperandsStable`,
  `MuldivDelivers`).
- *Isolation*: operands of the unit switch only when it is active
  (`IsolationHolds`), and that is invisible to the program
  (`InOrderRetirement` with `ISOL_EN`).
- *CSRs and traps*: reads in EX see the writes still in flight, traps are
  precise (`InOrderRetirement`); the counters count events and not cycles, or
  exactly the idle cycles (`MuldivCountedOnce`, `FusionCountedOnce`,
  `IsolCountsIdle`).
- *Decoder, immediates, ALU*: immediates come out as encoded
  and in the fusion logic's own copy of their layouts too (`ImmediatesRoundTrip`),
  no operand bit changes a control signal (`ControlsDecoded`), and the boundaries
  are right (`UnitsAsReference`).
- *Commit log*: one line per effect, in program order (`LogInProgramOrder`).
- *Runtime*: the formatters stay inside the format (`ScannerInside`) and in step
  with their arguments (`ArgumentsUsedUp`), write the number asked for in the
  field asked for (`NumberFields`) and agree with each other
  (`FormattersAgree`); the string functions do what the C library says
  (`MoveCorrect`, `CopiesCorrect`, `AnswersCorrect`); a time is reported right
  across a wrap (`TimeReported`); the heap has no gaps and no overlaps
  (`HeapDense`); every call returns (`EveryCallReturns`).

## 2. The modules

```
Words      W-bit words
 +- MuldivUnit     muldiv.sv, and muldiv_iter.sv as a next-state function
 |   +- MuldivIter the iterative unit alone, with an arbitrary caller
 +- ISA            decoder, ALU, comparator
 |   +- Encoding   bit positions of fields and immediates
 |   |   +- UnitBench   = Encoding + MuldivUnit: the unit testbenches
 |   +- CsrFile    csr_file.sv, trap_unit.sv
 |   +- Fusion     the five patterns
 |   +- LoadStore  byte lanes, extension, and a byte memory
 |       Machine = CsrFile + MuldivUnit + Fusion + LoadStore + address map, images, UART
 |        +- SingleCycle    the abstract machine: core_top.sv, and traps
 |        |   +- Restart    the same with a reset line
 |        +- Pipeline       = Machine + HazardUnit: core_top_pipelined.sv
 |            +- Lockstep         refinement mapping; INSTANCE SingleCycle
 |                +- Events       history variables for counters and FISOL
 |                +- CommitLog    what the benches print
 |                +- Reset        the core with its reset line; INSTANCE Restart
 +- EePrintf       ee_printf.c
 |   +- MiniPrintf miniprintf.c, after ee_printf.c has served the same call
 +- Board          main_wrapper.c, board_support.c, timing in core_portme.c
MiniString         ministring.c
Heap               _sbrk of syscalls_uart.c
Runtime = MiniPrintf + MiniString + Board + Heap

Theorems and lemmas (TLAPS), each module beside what it is about:
WordsProofs                             powers of two, wrap-around, bitwise operators
 +- MuldivUnitProofs                    one step of the iterative unit's arithmetic
 |   +- UnitProofs                      MuldivIter and UnitBench
 +- RuntimeProofs                       Runtime
PipelineProofs                          fused pairs, lookahead, isolation, widths, the freeze
 +- RefinementProofs                    Lockstep
 |   +- ObserverProofs                  Events and CommitLog
 +- ResetProofs                         Reset
MC*        programs, calls and values for TLC (Asm assembles the programs)
```

| module | code | how |
|---|---|---|
| `Words` | `logic [31:0]` everywhere, and the C code's `long` | numbers modulo 2^W; bitwise operators as set operations on bit positions |
| `ISA` | `decoder.sv`, `alu.sv`, `imm_gen.sv`, comparator and CSR function of the core | an instruction is a record of its fields, with its immediate already extracted; `Decode` is the decoder's case statement |
| `Encoding` | part selects of `decoder.sv`, `imm_gen.sv` and of the fusion logic; the benches' encoders | a 32-bit word is the set of its bits that are 1 |
| `UnitBench` | the six unit benches | a combinational unit takes one vector; a clocked one goes through the bench's list with its polling loop |
| `HazardUnit` | `hazard_unit.sv` | operators, one per output group |
| `Fusion` | `core_top_pipelined.sv:130-195` | one operator per `idiomN_pattern_match` |
| `LoadStore` | load and store paths of `core_top_pipelined.sv:524-620` and `core_top.sv:100-127` | `StoreLanes`, `LoadLanes` on a word memory; `ReadBytes`, `WriteBytes` on an array of bytes |
| `CsrFile` | `csr_file.sv`, `trap_unit.sv` | the write port's priority, the counters |
| `MuldivUnit`, `MuldivIter` | `muldiv.sv`, `muldiv_iter.sv` | `MuldivNext` is the `always_ff` block, `MuldivBus` the combinational result |
| `Pipeline` | `core_top_pipelined.sv` and the units it instantiates | each VARIABLE a register or memory, each state function a wire, each conjunct of `ClockEdge` an `always_ff` block |
| `SingleCycle` | `core_top.sv` | `Retire` is the effect of one instruction; a step retires one instruction, or the two of a fusible pair |
| `Lockstep` | what `harness/run_lockstep_pipeline.sh` compares | see below |
| `CommitLog` | the printing of `tb_core.cpp` and `tb_pipeline.cpp` | lines owed by what left EX, against the lines printed |
| `Events` | the event inputs of `csr_file.sv`; the shadow counters of `tb_hpm_selfcheck.cpp` | what left EX, counted in program order |
| `Reset`, `Restart` | the reset clauses | see below |
| `EePrintf` | `ee_printf.c` without `HAS_FLOAT` | one action per stage of the scanner; `Number`, `Eaddr` and `Iaddr` write a field; then one character at a time to the UART |
| `MiniPrintf` | `miniprintf.c` | one action per turn of its loop |
| `MiniString` | `ministring.c` | one action per turn of a function's loop |
| `Board`, `Heap` | timing, `_sbrk` | one action per call |

`Pipeline` has one action, `ClockEdge`, because the design has one clock: in
every edge every register takes its next value from the values before it. All
nondeterminism is in the program, which is chosen in `Init`. Operators whose
comment begins with "Variant" are plausible errors in the operator that follows
them; no specification uses them, they are there so that each property can be
shown to fail when the design is wrong.

**The refinement.** `Lockstep` states that the pipelined core implements the
single-cycle one. The mapping reads the architectural state off a pipeline
state: an instruction counts as executed when it leaves EX, the registers are
what the register file will hold once the write port, WB and MEM have drained
(the deferred second write coming after the write of its own pair), memory and
UART include a store still in MEM, and the PC is that of the oldest real
instruction not yet past EX. Each clock edge must then be a stutter, one
`RetireOne`, or one `RetirePair`. Leaving EX is the right point: redirects are
decided in EX, so nothing behind it can be flushed, and the operands of EX are
final.

**Reset.** `Reset` adds the line `rst_n`. It may fall between any two edges
(`Assert`), is held for any number of them (`HeldEdge`) and goes up again
(`Release`). `Cleared` lists the reset clauses; what has none (register file,
memories, `mem_rdata_raw_d`, the hold registers of the isolation gates, address
and data of a second write) keeps its value at the fall and is clocked while the
line is low. The abstract machine `Restart` says what a program may find
afterwards: the registers, memory and UART of *one* point of its own execution,
at most two retirements ago, with the PC and the CSRs as after power-on.
Of the instructions under way a suffix is thus lost as a whole: it cannot
happen that a register write is lost and a younger store is not. There is one
exception, and `Restart` names it (`HalfWay`): the two results of a pair of
idiom 3 or 5 are written in different cycles, and a reset between them leaves
the later instruction's result without the earlier one's.

**The commit log.** `due` is the queue of lines owed by the instructions that
have left EX; each cycle the bench's lines must be its head. In
`tb_pipeline.cpp` the deferred write of a pair is printed behind the pair's own
line, though its instruction is the earlier one, and a register that both
write is printed once: `LeavingLines` says so.

## 3. What is checked

"States" are distinct states. With two workers, `core` takes about 140 seconds,
the others well under a minute each.

| run | behaviours | properties | what it shows |
|---|---|---|---|
| `core` (234 144 states) | every (near) fusible pair behind 9 kinds of instruction and in front of 4 consumers; branches, loops, jumps and traps with a returning handler: 5 224 programs | `TypeOK`, `Pend2Protocol`, `WbPortConflictFree`, `EpisodesTakeFour`, `LookaheadFromStream`, `ForwardingIsCurrent`, `Tame`, `LogInProgramOrder`, `InOrderRetirement`, `KeepsIssuing` | fusion is invisible, its second write is alone and never lost; no wrong-path instruction takes effect, or as much as gets to EX; traps are precise; the log is the program's; the front end never sticks |
| `units` (158 149) | all triples of 13 instructions around multiply and divide, with byte, halfword and word accesses and the UART; CSR instructions at every distance, then a trap; pairs and FISOL markers; counters modulo 8 | `MuldivOperandsStable`, `MuldivDelivers`, `MuldivCountedOnce`, `FusionCountedOnce`, `IsolCountsIdle`, `IsolationHolds`, `BoundRespected`, `InOrderRetirement` | the freeze neither repeats nor loses a side effect; CSR forwarding is complete; each event counted once; markers respected |
| `baseline` (22 297) | the pairs of `core`, and the four pairs of section 4, with `FUSION_EN` and `ISOL_EN` off | `InOrderRetirement` | the pipeline without the two additions is right, on these pairs too |
| `muldiv` (107 521) | all 8 operations, all operand pairs at 4 bits, after each of 12 earlier operations chosen for what they leave behind | `ResultCorrect`, `PartialProduct`, `PartialQuotient`, `Finishes` | both algorithms and their loop invariants; nothing left by one operation reaches the next |
| `reset` (65 392) | 120 programs with every kind of write under way, all of which satisfy T of section 5; up to two resets, each in any cycle and of any length | `RestartsCleanly`, `MuldivOperandsStable`, `KeepsIssuing` | a reset in the middle of an episode, a freeze or a store leaves nothing half done |
| `unit_benches` (7 217) | the vectors of the benches, each also with every one of the bits next to the immediate or the function code set; the ALU, unit and register file lists | `ImmediatesRoundTrip`, `ControlsDecoded`, `UnitsAsReference`, `RegistersReadBack` | bit positions are right on 32-bit words, in both copies; the benches' references agree with the units |
| `runtime` (393 800) | printf calls with every conversion and combination of flags, widths, precisions; formats that break off; every legal call of the string functions on 5 bytes; timed runs across a wrap; up to 5 heap requests | `ScannerInside`, `ArgumentsUsedUp`, `NumberFields`, `FormattersAgree`, `MoveCorrect`, `CopiesCorrect`, `AnswersCorrect`, `TimeReported`, `HeapDense`, `EveryCallReturns` | the software under the benchmarks, at its boundaries |

Notes on properties:

- `Pend2Protocol` says more than its name: `pend2_active` is raised *exactly*
  while a second write exists, the write is in exactly one of four places, no
  writer follows it, and the unit is idle. It is inductive (section 5).
- `MuldivOperandsStable` is about forwarding, not about latches: in a freeze
  MEM and WB are frozen too, so that the forwarded operand stays what the unit
  latched. It only holds where no fused branch flushes a running operation
  (finding `loose_compare`), so it is checked on programs without that pair.
  In `reset` it says that no operation of before the reset goes on after it.
- `IsolCountsIdle` is an equation and not a bound: the counter is `mcycle` less
  W+2 cycles for each operation that has left EX and those of the one in EX.
- `Tame` says of an execution that the single-cycle machine keeps its accesses
  within words and goes to word boundaries (`MachineTame`), and of the pipeline that
  what is in EX does too and that a trap finds no CSR instruction in MEM or WB.
  The first part is a restriction of the programs. The rest follows from it
  (section 5), although the *wrong* paths of `core` break it: they hold loads,
  stores and jumps through registers that the path taken leaves otherwise, and
  illegal words behind jumps. It fails if one of those reaches EX.
- `ForwardingIsCurrent` looks at every state, bubbles and stalled cycles included,
  and at idiom 5's operands; of idiom 3 it leaves out `FwdA`, the base that ID
  computed, which is no register's value.
- `TimeReported` holds for Embench only for runs shorter than half the range of
  `mcycle`, because `main_wrapper.c` prints the difference with `%d`; the
  property says so and the run has longer ones.
- Each property has a mutant in `PROJECT.json`: the "Variant" that breaks it.

A remark on the stall logic: besides the stall for a load in EX,
`hazard_unit.sv:66-73` also stalls for a load in MEM. That second bubble is
what makes a load's consumer read a register file value or a WB value and never
the `32'hDEADBEEF` of the MEM forwarding mux.

## 4. Where the code and its documents differ

Each of these is a run of its own whose property TLC finds violated.

| run | disagreement |
|---|---|
| `same_rd` | `auipc ra; jalr ra,imm(ra)` fuses (idiom 3) and the return address is overwritten by the AUIPC value; `addi rd,..; lw rd,0(rd)` fuses (idiom 5) and `rd` ends up holding the address |
| `loose_compare` | `mulhu`/`mulhsu` then a branch on the result against x0 matches idiom 4, which looks at funct3 only; `slt x0,..; bne x0,x0` matches it too; the branch tests the ALU output and not the register |
| `misaligned` | `docs/spec/04_part8_microarchitecture.md:62` says unaligned accesses are handled by byte lanes; the lanes of a word access ignore the offset, and a halfword in the last lane loses its upper byte |
| `read_then_trap` | `csrrs` with x0 does drive the write port: one read of `mepc` ahead of a trap undoes the trap's `mepc`. (The comment in `csr_file.sv:4-6` accepts the other collision at that port: a CSR write two instructions ahead of a trap is lost.) |
| `wrong_path_fisol` | a `FISOL.OFF` on the path not taken changes `id_bound_active` although it is flushed |

The fusion findings are measured against spec part 8, section on fusion: the
detector "fails safe to the baseline behavior, never to an incorrect one"
(`docs/spec/04_part8_microarchitecture.md:43`). `FusionFailsSafe` is
`InOrderRetirement` on those pairs alone, and `baseline` shows the same pairs
are right with fusion off.

## 5. What is proved

The theorems hold for *every* value of the constants: word width, register
set, memory size, program set, initial memory, modulus of the counters and
setting of `FUSION_EN`, `ISOL_EN` and `BR_CMP_EN`; any number of resets; any
memory, any calls and any requests for the software. They rest on the modules'
ASSUMEs, which TLC evaluates in every run, and on hypotheses which stand in the
theorems that need them:

- `ProductsNotCompared`, written P below: where fusion is on, no multiply of a
  program is the first instruction of what idiom 4 takes for a compare and
  branch. Without it the theorems are false: it is the finding `loose_compare`,
  where a `mulhu` sets the redirect that clears it from EX while the unit works.
  `MCMuldiv` and `MCReset` have TLC evaluate it, so the programs of `units` and
  `reset` satisfy it, with fusion on and multiplies in them.
- `AddiAddsSomething`, A below: the second instruction of a fused LUI or AUIPC
  with ADDI has an immediate other than 0, as assemblers leave it out otherwise.
  It is what tells a fused pair from a single instruction in EX (`ExFused`); the
  counter itself does not depend on it. `MCEvents` has TLC evaluate it.
- `PathsTame`, written T0, of the texts of the programs: P; with fusion on, the two
  destinations of a pair of idiom 3 or 5 differ, and no comparison that idiom 4
  fuses writes `x0`; none of the three words behind a CSR instruction is illegal
  (three, because two of them may be a pair, which takes one place in the
  pipeline). `ProgramsTame`, written T: T0, and the CSR instructions are those of
  the trap unit.
- `[]MachineTame`, written E, of an execution: the next two instructions *of the
  single-cycle machine*, in the state the mapping gives, keep a load or store
  within its word and go to a word boundary. Two, because of a pair the machine
  skips the state between. It does not mention the pipeline, and what stands on
  paths not taken is free. Neither T nor E can be left out: `same_rd`,
  `loose_compare`, `misaligned` and `read_then_trap` are the counterexamples. `MCCore`
  has TLC evaluate T and check E as a part of `Tame`, so every behaviour of `core`
  satisfies both, with every idiom, loads and stores of every pair, and traps;
  `MCReset` has TLC evaluate T and `MCUnits` T0.
- `MarkersFallThrough`, written F, of the texts of the programs: the instruction ahead of
  a `FISOL.BOUND` or `FISOL.OFF` is neither illegal nor a JALR, and if it is another
  jump or a branch, it goes to the marker. What the proof needs of it is
  `[]MarkersOnPath`, of an execution: the single-cycle machine, standing in front of
  a marker, goes on to it. It cannot be left out: in `wrong_path_fisol` a
  branch skips a marker. `MCUnits` has TLC evaluate F, with markers around pairs.
- `ArgumentsMatch`, written M: a call of printf has as many arguments as the grammar of
  its format asks for, one for each `*` and each letter that takes one, in the
  directives the format falls into (`Pieces`). The grammar is stated of the text alone,
  by where a run of flags or digits ends, and knows nothing of the scanner. A call
  with fewer is undefined in C. `MCRuntime` has TLC evaluate it, so every call of
  `runtime` satisfies it, those whose format breaks off included.
- `LockstepAssumption`, an ASSUME of `Lockstep`: word 0 of a program is not `NOP`. The
  refinement mapping needs it to tell a bubble from an instruction.
- `UnitBenchAssumption`, an ASSUME of `UnitBench`: the register numbers are
  `0 .. LastReg` with no gap, and a word has at least 6 bits, so that the benches'
  small numbers fit and their bound on polls, `2W - 4`, covers the `W + 2` cycles of
  an operation. Both hold of the code, at 32 registers and 32 bits.

| theorem | module | statement |
|---|---|---|
| `ControlTypesInvariant` | `PipelineProofs` | every control bit is Boolean, the control record in EX is one the decoder can produce in type, and the unit is busy exactly outside IDLE |
| `Pend2ProtocolHolds` | | `Spec => []Pend2Protocol` |
| `WbPortHasOneWriter` | | `Spec => []WbPortConflictFree` |
| `LookaheadIsSuccessor` | | `Spec => []LookaheadFromStream` |
| `IsolationHoldsAlways` | | `Spec => IsolationHolds` |
| `TypesAlwaysOK` | | `Spec => []TypeOK` |
| `OperandsAlwaysStable` | | P `=> (Spec => []MuldivOperandsStable)` |
| `UnitAlwaysDelivers` | | P `=> (Spec => []MuldivDelivers)` |
| `ForwardingAlwaysCurrent` | `RefinementProofs` | `Spec => []ForwardingIsCurrent` |
| `TameEverywhere` | | T0 `=> (Spec` and E `=> []Tame)`: nothing of a wrong path gets to EX |
| `CoreImplementsMachine` | | T `=> (Spec` and E `=> InOrderRetirement)`: the pipelined core implements the single-cycle machine |
| `UnitWorksOnRequest` | `UnitProofs` | `MuSpec => []MuInv`: the registers belong to the request |
| `ResultAlwaysCorrect` | | `MuSpec => []ResultCorrect` |
| `PartialProductAlways` | | `MuSpec => []PartialProduct` |
| `PartialQuotientAlways` | | `MuSpec => []PartialQuotient` |
| `RegistersAlwaysReadBack` | | `UbSpec => []RegistersReadBack` |
| `UnitsAlwaysAsReference` | | `UbSpec => []UnitsAsReference` |
| `ImmediatesAlwaysRoundTrip` | | `UbSpec => []ImmediatesRoundTrip` |
| `ControlsAlwaysDecoded` | | `UbSpec => []ControlsDecoded` |
| `Pend2ProtocolThroughReset` | `ResetProofs` | `RSpec => []Pend2Protocol` |
| `WbPortThroughReset` | | `RSpec => []WbPortConflictFree` |
| `LookaheadThroughReset` | | `RSpec => []LookaheadFromStream` |
| `TypesThroughReset` | | `RSpec => []TypeOK` |
| `OperandsStableThroughReset` | | P `=> (RSpec => []MuldivOperandsStable)` |
| `CoreRestartsCleanly` | | T `=> (RSpec` and E `=> RestartsCleanly)`: the core with its reset line implements the machine that is restarted |
| `EpisodesAlwaysTakeFour` | `ObserverProofs` | `LSpec => EpisodesTakeFour` |
| `LogAlwaysInProgramOrder` | | T `=> (LSpec` and E `=> []LogInProgramOrder)` |
| `MuldivsCountedOnce` | | P `=> (ESpec => []MuldivCountedOnce)` |
| `IsolAlwaysCountsIdle` | | P, `ISOL_EN` and not `BR_CMP_EN` `=> (ESpec => []IsolCountsIdle)` |
| `PairsCountedOnce` | | P and A `=> (ESpec => []FusionCountedOnce)` |
| `BoundAlwaysRespected` | | T0 `=> (ESpec`, E and `[]MarkersOnPath => BoundRespected)` |
| `MarkedRegionsRespected` | | T0 and F `=> (ESpec` and E `=> BoundRespected)` |
| `MoveIsCorrect` | `RuntimeProofs` | `StringSpec => []MoveCorrect` |
| `CopiesAreCorrect` | | `StringSpec => []CopiesCorrect` |
| `AnswersAreCorrect` | | `StringSpec => []AnswersCorrect` |
| `HeapStaysDense` | | `HeapSpec => []HeapDense` |
| `TimeAlwaysReported` | | `RtSpec => []TimeReported` |
| `ScannerStaysInside` | | `RtSpec => []ScannerInside` |
| `ArgumentsAlwaysUsedUp` | | M `=> (RtSpec => []ArgumentsUsedUp)` |
| `RuntimeAlwaysCorrect` | | `RtSpec =>` the promises of the string functions and of the heap together |

**Words.** `Pow2` is a recursive function on `0 .. 2W`, and FromBits sums with
another. The provers have no induction over an operator, but a *set* of numbers
can be shown to be all of them from the least number outside it (`LeastNatural`,
`SetInduction`). That gives the function its existence (`PowersExist`), hence its
recurrence (`Pow2Step`) and the law of exponents (`Pow2Sum`); the width of the
bitwise operators follows in the same way from `SumsExist`.

**The multiply/divide unit.** `MuldivInv(m, op, a, b)` says of the unit's registers
`m` that they work on `op` of `a` and `b`, and how far they have come: with k =
`iter_cnt`, `ProductUpTo` or `Divided` for the k bits used, and in `FINISH` for all of
them. One step of each loop is a lemma about numbers (`MulStepProduct` and its
counterpart of the divider), whose only nonlinear part is regrouping; the
signs, the zero divisor and the overflow of the signed quotient are in
`MultiplyResult` and `DivideResult`. The inputs do not occur in the invariant after the
start, which is why they may change freely.

**The unit benches.** A combinational unit's bench takes one vector, so the work is
in the vectors. For the ALU, `BoundaryResults` and `ShiftSweep` compute each at width
W, the patterns of ones from what `FromBitsSum` and `ComplementBits` say of a sum of
powers. The reference of the multiply/divide benches computes in twice the
width with C's division; `ReferenceAgrees` says that this is `MuldivResult` for *all*
operands. The polling loop has `IterInv`: `MuldivInv` on the current vector, and
`Polled`, which ties the polls so far to the unit's state, so the result is there
after `W + 2` of them. For the register file, `RegfileInv` says which registers
already hold their pattern.

**Immediates.** `RoundTrip_I` to `RoundTrip_J` hold for every sign-extended immediate of
the format's width and for every noise in the bits beside it, not only for the
bench's vectors. A slice of a word is read back where the encoder put it
(`SliceAt`, `InSlice`), and the slices of a format are disjoint; the opcode survives
the noise (`OpcodeKept`). What ties the numbers of the vectors to bits is that a
number below 2^k in absolute value has copies of its sign from bit k up
(`SignedBits`), and no bits below a power of two that divides it (`MultipleBits`).
`LookaheadAgrees` is about the fusion logic's own copy of the layouts, for every
word with one of its opcodes.

**Control signals.** `WordFields` reads funct7, funct3 and opcode off a word, whatever
else is set in it; `SignalsOf` lists what each control signal is as a function of these
three. `DecodeSignals` says that the decoder's case statement computes it, and
`SignalsDetermine` that it leaves nothing open, so a vector has to be compared
signal by signal only. The one free bit that would reach a field that matters,
bit 30 of an immediate shift, is excepted, as it is in the instruction set.

**Widths.** `DataInv` adds to `TypeOK` that the trap CSRs hold words: `TypeOK` gives
one range for words and counters together, and a trap's redirect to `mtvec` would
leave it open whether the PC is a word. It also has the unit's handshake
(`UnitPhases`), without which the iteration counter could pass W.

**The freeze.** `RequestInv` says that while the unit is busy or done, a multiply or
divide is in EX and `MuldivInv` holds of it and of what forwarding gives *now*. It
is inductive because a multiply or divide cannot redirect (`ExInv`, the only place
P is used), so EX is neither cleared nor loaded, and because MEM, WB, the memory
read register and so the forwarded values stand still
(`MuldivDoesNotRedirect`). Both `MuldivOperandsStable` and `MuldivDelivers` follow.

**The refinement.** `InOrderRetirement` is `SC!Spec` under the mapping of `Lockstep`;
`CoreImplementsMachine` shows that the initial states map to initial states and
that an edge at which nothing leaves EX is a stutter (`QuietEdge`), any other one
a `RetireOne` or a `RetirePair` (`RetiringEdge`). The inductive invariant is
`CoreInv == RegsInv /\ FreezeInv /\ StreamInv`:

- `RegsInv` says that the operands in ID/EX are what the register file holds *now*,
  though they were read earlier: a later write to the same register is in WB or
  in the write port, and forwarding or the write-through read has it; a load in
  MEM never writes an operand of what is in EX, which is the second bubble of
  `hazard_unit.sv:66-73`; and behind a deferred write comes only a bubble.
  `ForwardingIsCurrent` follows from it, for all programs.
- `StreamInv` says which instruction is where. What IF/ID, the fetch register and
  the PC hold are consecutive program words from `FrontPc` on (`FrontInv`), and EX
  holds nothing, one instruction, or a pair of one of the idioms with the decoder's
  signals for it (`ExHolds`); in the last case `FrontPc` is two words further on. That
  a fused second instruction is neither issued again nor lost is this invariant.
- `FreezeInv` (below) has the unit work on the operation in EX.

An edge takes one register write, store or CSR write out of what is pending and
puts in what leaves EX; `RegsDrain`, `MemoryDrains` and `CsrDrain` say that the mapped
registers, memory and CSRs change by the latter only. What is left to show is
that EX's result is the instruction's: `SingleRetires` for one instruction, and for
the pairs `AddiRetires` (1 and 2), `CallRetires` (3), `CompareRetires` (4) and
`IndexedRetires` (5). Each compares the fused operation with `Retire` done twice, so
the second instruction's operands are those *after* the first.

**Tame.** What is in EX is aligned because it is what the machine does next: for a
single instruction `SingleGoes` has the address and the target those of `Retire`, and
for a pair `PairComputes` says what both instructions do together, before
anything is known to be aligned; `AccessesAreAligned` and `RedirectsAreAligned` follow. For
traps, `TrailInv` says where a CSR instruction in MEM or WB stands: in MEM, one word
ahead of the oldest instruction not yet past EX; in WB, and with an instruction in
EX, one to three words ahead, as a single instruction or a pair may have come
between. A redirect in between would have emptied EX. `TrapsAreAlone` then has a
trap contradict T.
`TrailInv` and `CoreInv` are inductive under `Tame`, and with E imply it, so that the
induction goes round: `Tame` now gives both one step later, and those `Tame` there.

**The log.** `LogInv` adds to `CoreInv` that `due` is exactly the lines of what is in
WB, the write port and MEM, in the order in which they will be printed. A moving
edge prints the front of it (`DueSplits`) and what leaves EX enters MEM with the
lines the single-cycle core would print (`LeavingEnters`), the deferred write behind
its own pair. That a second write is alone there (`PendingAlone`) is what keeps
the order.

**The counters.** `CountInv` has `FreezeInv`, since the start pulse occurs once in an
operation's stay in EX. `IsolCountsIdle` is an equation between counters that
wrap separately; `IdleSumStep` carries it over an edge as a statement about
remainders, for any modulus. A pair is counted when it is issued and remembered
by the history when it leaves EX, one or more cycles later; `FusionCountedOnce`
has the difference of one while it is there.

**The second write.** `Pend2Protocol` alone is not inductive: to show that
nothing follows the write one must know that the front end's stall bits are
Boolean, and that a unit that is idle and not started stays idle. The inductive
invariant is `Pend2Inv == ControlTypes /\ MuldivHandshake(muldiv) /\
Pend2Protocol`. The step is split by where the write is: `StepIdle` (no write
under way; a fused pair may enter EX, and then the front end is stalled from
the next edge), `PendingMoves` (one register further, and EX refilled by a
bubble, because `pend2_active` clears EX), with `StepAdvances` collecting the
facts common to both when no freeze is in progress. `WbPortConflictFree`
follows at once: when the write fires, WB is idle.

**The length of an episode.** `EpisodeInv` pairs the cycles counted so far with the
place of the write, EX, MEM, WB or firing. `PendingMoves` has it leave each place
in one edge, and `StepIdle` has an episode begin in EX, so the count is four when
the flag falls.

**The lookahead.** `LookaheadInv` adds that the fetch register itself holds two
adjacent program words, or what a flush leaves. The instruction memory never
changes, so the words stay right as they move.

**Isolation** needs no invariant beyond types: a closed gate holds what it last
passed. It is a theorem of `Spec` and not of `RSpec`: the reset clears EX and
closes the gates between two edges, before the hold registers have taken what
the gates passed, so that the operands of the unit do switch at that moment.

**Reset.** The clock steps are those of `PipelineProofs`. A reset clears one bit
of `pend2_fire` and keeps its address and data, so the invariant also says that
the bit is there (`Pend2HasValid`); the cleared registers satisfy it whatever
was under way (`ClearedPend2Inv`). An edge with the line low clears the same
registers again and moves only what the invariant does not mention.

**The refinement across a reset.** `RestartsCleanly` is `RS!RsSpec` under the same
mapping, with the states before the last two steps remembered in `trail`. As long
as the line is high the steps are those of `CoreImplementsMachine`, carried over to the
instance `RS` operator by operator (`RestartRetire`). For the reset one must know
*which* state of the program the memories hold. That is `UndoInv`: with a write in
MEM left to do, registers, memory and UART are those before the last step, once WB
has written; with one left in WB, those before that step. An operation writes
registers or memory and not both (`OneWrite`), so a reset never loses a register
write and keeps the store of the same step. A pair's second write is that of the
last step, and with that alone missing the state is `HalfWay` (`PairFires`). A frozen
edge writes nothing and so keeps all of it. While the line is low the registers
are `Blank`, and the mapped state is the abstract machine's after its reset
(`BlankArch`); edges with the line low are stutters.

**The markers.** ID acts on a marker before the operation ahead of it has left EX,
so `id_bound_active` runs ahead of the program and has to be compared with the
region *behind* EX (`BoundAfterEx`). A redirect may flush the marker from ID after
ID acted on it. By `[]MarkersOnPath` the redirect then goes to that same marker:
`MarkerAgain`, the second disjunct of `BoundInv`, holds until it is in ID again, and nothing
enters EX in the meantime. A pair fuses only with `id_bound_active` down and no
marker in it, so it carries the region of the program into EX. In
`MarkedRegionsRespected` F gives `[]MarkersOnPath`, as the words ahead of a marker
that the machine executes are words of the program.

**memmove.** `MoveInv` gives the whole memory in terms of the memory at the call
and of the offsets done (`MovedOffsets`). What a step has to show is that the
byte read next is not among those already overwritten. That is what the
direction of the copy is for: going up with `d < s`, the bytes written lie below
the one to be read; going down, above it.

**The other string functions.** `StringInv` has a part for each function. What was
asked (`CallInv`) does not change; the copies have moved `i` bytes, all at once in
terms of the memory at the call (`Moved`, `Filled`); the comparisons and searches
have found nothing so far. `LengthIs` turns the caller's promise of a terminator
into the length the specification speaks of, and `FirstDifference` says that the
first byte that differs decides.

**The heap.** The break is 0 before the first call only; `HeapInv` says so, since
otherwise the next call would start over at `HeapStart`. A request that fits
becomes the block behind the last one (`GrantedHeapInv`); one that does not
moves nothing (`RefusedHeapInv`).

**Timing and scanning.** `BoardInv` says where `mcycle` is relative to the first
reading; `DifferenceOfSum` that the wrap of the sum and of the difference cancel.
`ScanInv` keeps the scanner within one of the format's end: NUL is read only
there (`CharInside`), and every step beyond a character has looked at it.
`RtInv` puts the parts together, each of which the others leave alone.

**The arguments of a call.** `ArgumentsMatch` gives a set `T` of the places where the
format's directives and literal characters begin. `InStep(T)`, the invariant, says that
the scanner has taken as many arguments as stand in the format *ahead* of `at`, and
where in a directive `at` is: between directives it is in `T`, and in the directive
at `k` it is where the grammar has the stage's part (`Scanning`); among the flags,
which are read one by one, the run of them that begins at `at` ends where the whole
run does (`RunSteps`). The places of a directive come in order (`DirectivePlaces`), and
directives do not overlap, so between two of them stand no arguments but the
directive's own (`OnlyOwnArgs`). Each action goes from one place to the next and takes
an argument exactly if one stands between (`NoArgPassed`, `OneArgPassed`); at the end
all are ahead of `at`, and their number is the number passed. `%%`, an unknown letter
and a directive that breaks off are the cases with a letter that takes none.

**Only model-checked.**

- Liveness: `KeepsIssuing`, `Finishes`, `EveryCallReturns`. It is out of the
  provers' reach.
- `MachineTame`, the part of `Tame` which is a hypothesis of the proofs: it is about
  executions, not about the text of a program.
- `FormattersAgree` and `NumberFields`, of the formatters. A number's digits are
  produced by a loop of divisions and compared with a fold, and the two formatters
  each write their text piece by piece: both are functions by recursion over data,
  of which the provers can unfold a step but cannot show, for every number or text,
  what it returns.

## 6. Bounds, restrictions and fairness

**Bounds.**

- `W = 8` bits in the pipeline runs: a word is four bytes of two bits, so lanes,
  truncation and sign extension are all there; `MemBase = 128` is the top half
  of the address space, as `0x80000000` is, and the wrap-around of address and
  data arithmetic is reachable. `W = 4` for the unit alone, where *all* operands
  are enumerated; the width exercises the carry, both signs and every special
  case, and the number of iterations is W as it is 32 in the code. In
  `unit_benches` the ALU and the units have 8 bits, with the benches' patterns
  at that width, and instruction words have their real 32.
- Four registers, `x0` to `x3`: one instruction names at most three, and the
  longest chain of hazards in a five-stage pipeline involves three producers.
  The register file on its own has eight.
- Programs of 8 or 16 words, run for ever (they end in a jump to itself, or
  wrap). The set of programs, not their length, is where the cases are: a
  hazard needs at most the five instructions that are in the pipeline at once.
- `CntMod`, `UartMod`: moduli of counters that only ever count up. `CntMod = 1`
  leaves the counters out of a run; `units` has `CntMod = 8`.
- `MaxOps = 2` operations in one behaviour of the unit alone, the first of them
  from `Earlier`; `StrayWord` are the operands on its inputs between requests.
- `MaxResets = 2`: the second one may come before anything has been fetched
  after the first. The line may stay low for any number of edges: holding it
  is a cycle of the state graph.
- `Polls`: the polling bound of `tb_muldiv_iter.cpp`, 60 for 32 bits, is
  2W-4 here.
- `Calls`, `MiniCalls`: 11 sets of flags, 5 widths, 5 precisions and 6 numbers
  in every combination, among them the least and the largest; the 12 places
  where a format can break off; calls with up to three directives.
- `MemSize = 5`, `UChar = {0, 1, 200}` and all `Jobs` that are legal: overlaps of
  any distance in both directions, strings that end where memory does, and a
  byte that is negative as a signed `char`.
- `RunLengths`, `Boot`: cycle counts and start times at both sides of the wrap and
  of the sign. `MaxSbrk = 5` requests exhaust the heap of 16 bytes; a smaller
  request still fits after one that is refused.

**Restrictions of the programs in passing runs.** These are assumptions about
programs, not about the hardware:

- word 0 is not `NOP`, and no instruction is at address 0: the mapping tells
  bubbles apart by `pc = 0` and a flushed fetch slot by (`MemBase`, `NOP`), as
  a reader of the waveform would;
- with fusion on, none of the pairs of section 4;
- none of the three words behind a CSR instruction is illegal (`TrapsApart`);
- where FISOL regions are checked (`units`), nothing jumps, branches or traps past
  a marker right behind it (`MarkersFallThrough`);
- no CSR instruction names a counter (the refinement keeps the counters out of
  the architectural state; one difference known from reading: the value of a
  write that `csr_file.sv` drops is still forwarded to a read right behind it,
  `core_top_pipelined.sv:441-448`), and the unimplemented CSR addresses are one
  address, `"none"`;
- halfword and word accesses are aligned (bytes are accessed at any address), as
  `misaligned` shows they must be, and the PC is a multiple of four;
- the data memory starts with arbitrary words, where the testbench loads
  the program image into both memories. `core_top.sv` has *one* memory, where a
  program could overwrite its instructions; the pipelined core has two, and
  `SingleCycle` follows it, so programs that modify themselves are outside
  the comparison;
- both memories wrap around at `NW` words, as `dmem_off[16:2]` does; the array of
  `core_top.sv` has no byte outside it;
- a call of a string function obeys its precondition (`Legal`): regions lie in
  memory and do not overlap unless the function is `memmove`, and strings have
  their terminator;
- the number of arguments of a printf call is what its directives take
  (`ArgumentsMatch`), and a format given to `miniprintf.c` ends with a complete directive, as all in the
  repository do.

Registers without a reset (`q_hold`, `mem_rdata_raw_d`, `pend2_fire_addr` and
`_data`) start at 0; they are written before they are used. The register file
of `unit_benches` comes up with any values.

**Fairness.** `WF_vars(Next)`: the clock is free-running and each edge moves
every register; the testbench toggles it unconditionally
(`sim/tb_pipeline.cpp`). Under reset this is `WF(Clock)`, with `WF(Release)`: whoever
pulls the line lets go of it. Nothing makes it fall. The unit alone has
`WF(AnyTick)`: it is clocked whether or not it is asked. No fairness is assumed
of the caller's requests. `WF(RtNext)`: the processor goes on executing.

**Deadlock** is checked except in `runtime`, where a call returns and a heap is
used up, and in `unit_benches`, where a bench ends.

## 7. What is not modelled

- Of `ee_printf.c` the floating-point part (`HAS_FLOAT`, not defined for this
  port), and `mini_math.c`: TLC has integers only.
- Of `ministring.c` the one-line character classes, and of `syscalls_uart.c` the
  stubs that return a constant.
- Reserved encodings that share an opcode with a legal instruction, beyond
  those in the benches' vectors; programs that modify themselves.
- `sim/tb_mcycle_probe.cpp`, `sim/tb_pipeline_saif.cpp` and the waveform tracing
  of the others: they print what they see and decide nothing.
- `harness/`, test programs, `compliance/`: drivers and inputs of the simulator.
- `vivado_*`, `cadence/`, `orfs_run/`: tool flows with copies of the RTL.
- `apply_csr.py`: a one-off patch script.
- Power, timing and area: what isolation saves is outside a functional model;
  `IsolationHolds` states the switching it prevents.

## 8. Plan

Done: the modules, runs and theorems above. Of the properties of the passing runs, all
are theorems but two of the formatters and the three of liveness.

Left, in this order:

1. `NumberFields`, for which a relational description of a number's digits would have
   to stand beside the recursive one, as `ArgumentsMatch` stands beside the scanner.
2. A `Machine` with one memory for program and data, so that programs that
   modify themselves can be compared.
3. `HAS_FLOAT` of `ee_printf.c`, should the port ever define it.
