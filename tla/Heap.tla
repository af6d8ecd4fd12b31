-------------------------------- MODULE Heap --------------------------------
(***************************************************************************)
(* _sbrk of syscalls_uart.c: where an allocator gets its memory from, a    *)
(* block at a time, until the heap is used up.                             *)
(***************************************************************************)
EXTENDS Integers, Sequences

CONSTANTS HeapStart, HeapEnd,   \* from the linker script
          Increments,           \* sizes asked for
          MaxSbrk               \* bound: calls in one behaviour

ASSUME HeapAssumption ==
  /\ HeapStart \in Nat \ {0} /\ HeapEnd \in Nat /\ HeapStart <= HeapEnd
  /\ Increments \subseteq Nat /\ MaxSbrk \in Nat

VARIABLES heap_ptr,   \* 0 until the first call
          blocks,     \* the blocks handed out, oldest first
          refused     \* sizes refused

hvars == <<heap_ptr, blocks, refused>>

HeapInit == heap_ptr = 0 /\ blocks = <<>> /\ refused = <<>>

(* Variant: a block that does not fit moves the break all the same.        *)
SbrkRefusedMoves(incr) ==
  LET base == IF heap_ptr = 0 THEN HeapStart ELSE heap_ptr
  IN /\ Len(blocks) + Len(refused) < MaxSbrk
     /\ heap_ptr' = base + incr
     /\ IF base + incr > HeapEnd
        THEN refused' = Append(refused, incr) /\ UNCHANGED blocks
        ELSE blocks' = Append(blocks, [base |-> base, size |-> incr]) /\ UNCHANGED refused

(* A block that does not fit is refused and leaves the break where it is.  *)
Sbrk(incr) ==
  LET base == IF heap_ptr = 0 THEN HeapStart ELSE heap_ptr
  IN /\ Len(blocks) + Len(refused) < MaxSbrk
     /\ IF base + incr > HeapEnd
        THEN /\ heap_ptr' = base
             /\ refused' = Append(refused, incr) /\ UNCHANGED blocks
        ELSE /\ heap_ptr' = base + incr
             /\ blocks' = Append(blocks, [base |-> base, size |-> incr]) /\ UNCHANGED refused

HeapNext == \E incr \in Increments : Sbrk(incr)

HeapSpec == HeapInit /\ [][HeapNext]_hvars

-----------------------------------------------------------------------------
(* Blocks handed out lie in the heap and do not overlap, and a refused     *)
(* request costs nothing: the blocks fill the heap without a gap up to the *)
(* break (syscalls_uart.c:23-29).                                          *)
HeapDense ==
  /\ \A k \in 1 .. Len(blocks) :
       /\ blocks[k].base + blocks[k].size <= HeapEnd
       /\ blocks[k].base = IF k = 1 THEN HeapStart ELSE blocks[k-1].base + blocks[k-1].size
  /\ blocks # <<>> => heap_ptr = blocks[Len(blocks)].base + blocks[Len(blocks)].size
=============================================================================
