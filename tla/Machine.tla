------------------------------ MODULE Machine ------------------------------
(***************************************************************************)
(* What the two cores share: the address map, the program and data images, *)
(* and the UART the testbench listens to.                                  *)
(***************************************************************************)
EXTENDS CsrFile, MuldivUnit, Fusion, LoadStore

CONSTANTS MemBase,    \* MEM_BASE, where the memories start and reset fetches
          NW,         \* words in each memory (a power of two)
          UartAddr,   \* UART_TXDATA_ADDR
          UartMod,    \* the UART log counts its characters modulo UartMod
          Programs,   \* program images: functions from 0..NW-1 to Instr
          BootRegs,   \* register file contents at reset
          BootDmem    \* data memory contents at reset

(* A program may not start with the NOP a flush leaves in the fetch        *)
(* register: the refinement mapping tells a flushed slot by it.            *)
ASSUME MachineAssumption ==
  /\ NW \in Nat \ {0} /\ UartMod \in Nat \ {0}
  /\ MemBase \in Word \ {0} /\ UartAddr \in Word
  /\ Programs \subseteq [0 .. NW-1 -> Instr]
  /\ \A p \in Programs : p[0] # NOP
  /\ BootRegs \in [Reg -> Word] /\ BootRegs[0] = 0
  /\ BootDmem \in [0 .. NW-1 -> Word]

(* Both memories are indexed by the word offset from MemBase, and wrap.    *)
MemIndex(addr) == (Sub(addr, MemBase) \div 4) % NW
MemLane(addr)  == Sub(addr, MemBase) % 4

(* The words of a memory as bytes in address order.                        *)
BytesOf(mem) == [j \in 0 .. 4*NW - 1 |-> ByteOf(mem[j \div 4], j % 4)]

UartInit == [count |-> 0, last |-> 0]
(* A character is the low byte of what is stored.                          *)
UartSend(u, x) == [count |-> (u.count + 1) % UartMod, last |-> x % ByteMod]

(* Variant: x0 is writable.                                                *)
RegWriteAny(regs, we, rd, x) == IF we THEN [regs EXCEPT ![rd] = x] ELSE regs

(* x0 is not writable.                                                     *)
RegWrite(regs, we, rd, x) == IF we /\ rd # 0 THEN [regs EXCEPT ![rd] = x] ELSE regs
=============================================================================
