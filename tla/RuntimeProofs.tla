--------------------------- MODULE RuntimeProofs ---------------------------
(***************************************************************************)
(* What is proved of the C code under a benchmark, for every size of       *)
(* memory and contents of it, every call that its precondition allows,     *)
(* every place and size of the heap and every format: each part by an      *)
(* invariant of its own.                                                   *)
(***************************************************************************)
EXTENDS Runtime, WordsProofs, FiniteSetTheorems

-----------------------------------------------------------------------------
(* memmove.  The invariant says which bytes have been moved; the direction *)
(* of the loop makes sure that the byte read next is not one of them.      *)

(* Offsets already moved: the lowest i going up, the highest i going down. *)
MovedOffsets == IF job.d < job.s THEN 0 .. i - 1 ELSE job.n - i .. job.n - 1

MoveInv ==
  job.fn = "memmove" =>
    /\ {job.d, job.s, job.n} \subseteq Nat
    /\ job.d + job.n <= MemSize /\ job.s + job.n <= MemSize
    /\ i \in 0 .. job.n
    /\ mem = [a \in Addr |-> IF a - job.d \in MovedOffsets THEN old[job.s + (a - job.d)] ELSE old[a]]
    /\ ret # <<>> => i = job.n

(* At the call nothing has been moved.                                     *)
LEMMA MoveInit == StringInit => MoveInv
  <1> SUFFICES ASSUME StringInit, job.fn = "memmove" PROVE MoveInv
    BY DEF MoveInv
  <1>1. {job.d, job.s, job.n} \subseteq Nat
    BY MiniStringAssumption DEF StringInit
  <1>2. job.d + job.n <= MemSize /\ job.s + job.n <= MemSize
    BY DEF StringInit, Legal
  <1>3. i \in 0 .. job.n
    BY <1>1 DEF StringInit
  <1>4. \A a \in Addr : a - job.d \notin MovedOffsets
    BY <1>1, MiniStringAssumption DEF StringInit, MovedOffsets, Addr
  <1>5. mem = [a \in Addr |-> IF a - job.d \in MovedOffsets THEN old[job.s + (a - job.d)] ELSE old[a]]
    BY <1>4 DEF StringInit
  <1> QED
    BY <1>1, <1>2, <1>3, <1>5 DEF MoveInv, StringInit

(* One more byte is moved, and it was still the caller's.                  *)
LEMMA MoveStep == MoveInv /\ Move => MoveInv'
  <1> SUFFICES ASSUME MoveInv, Move PROVE MoveInv'
    OBVIOUS
  <1> DEFINE k == IF job.d < job.s THEN i ELSE job.n - 1 - i
  <1>1. /\ job.fn = "memmove" /\ i < job.n /\ ret = <<>>
        /\ mem' = [mem EXCEPT ![job.d + k] = mem[job.s + k]]
        /\ i' = i + 1 /\ job' = job /\ old' = old /\ ret' = ret
    BY DEF Move, Running, Put
  <1>2. mem = [a \in Addr |-> IF a - job.d \in MovedOffsets THEN old[job.s + (a - job.d)] ELSE old[a]]
    BY <1>1 DEF MoveInv
  <1>n. /\ job.d \in Int /\ job.s \in Int /\ job.n \in Int /\ i \in Int /\ MemSize \in Int
        /\ 0 <= job.d /\ 0 <= job.s /\ 0 <= job.n /\ 0 <= i /\ i < job.n
        /\ job.d + job.n <= MemSize /\ job.s + job.n <= MemSize
    BY <1>1, MiniStringAssumption DEF MoveInv
  <1>3. /\ k \in Int /\ 0 <= k /\ k < job.n
        /\ job.d < job.s => k = i
        /\ ~(job.d < job.s) => k = job.n - 1 - i
    BY <1>n
  <1> HIDE DEF k
  <1>4. job.d + k \in Addr /\ job.s + k \in Addr
    BY <1>n, <1>3 DEF Addr
  <1>5. (job.s + k) - job.d \notin MovedOffsets
    <2>1. CASE job.d < job.s
      BY <1>n, <1>3, <2>1 DEF MovedOffsets
    <2>2. CASE ~(job.d < job.s)
      BY <1>n, <1>3, <2>2 DEF MovedOffsets
    <2> QED
      BY <2>1, <2>2
  <1>6. mem[job.s + k] = old[job.s + k]
    BY <1>2, <1>4, <1>5
  <1>7. ASSUME NEW a \in Addr
        PROVE  a - job.d \in MovedOffsets' <=> a - job.d \in MovedOffsets \/ a = job.d + k
    <2>1. a \in Int
      BY MiniStringAssumption DEF Addr
    <2>2. CASE job.d < job.s
      BY <1>1, <1>n, <1>3, <2>1, <2>2 DEF MovedOffsets
    <2>3. CASE ~(job.d < job.s)
      <3>1. /\ MovedOffsets = job.n - i .. job.n - 1
            /\ MovedOffsets' = job.n - (i + 1) .. job.n - 1
        BY <1>1, <2>3 DEF MovedOffsets
      <3>2. a - job.d \in job.n - (i + 1) .. job.n - 1
              <=> a - job.d \in job.n - i .. job.n - 1 \/ a - job.d = job.n - 1 - i
        BY <1>n, <2>1
      <3>3. a - job.d = job.n - 1 - i <=> a = job.d + k
        BY <1>n, <1>3, <2>1, <2>3
      <3> QED
        BY <3>1, <3>2, <3>3
    <2> QED
      BY <2>2, <2>3
  <1>8. mem' = [a \in Addr |-> IF a - job.d \in MovedOffsets' THEN old[job.s + (a - job.d)] ELSE old[a]]
    <2> DEFINE f == [a \in Addr |-> IF a - job.d \in MovedOffsets' THEN old[job.s + (a - job.d)] ELSE old[a]]
    <2>1. mem' = [a \in Addr |-> IF a = job.d + k THEN old[job.s + k] ELSE mem[a]]
      BY <1>1, <1>2, <1>6
    <2>2. ASSUME NEW a \in Addr PROVE mem'[a] = f[a]
      <3>1. CASE a = job.d + k
        <4>1. a - job.d = k
          BY <3>1, <1>n, <1>3
        <4> QED
          BY <2>1, <3>1, <4>1, <1>7
      <3>2. CASE a # job.d + k
        <4>1. mem'[a] = mem[a]
          BY <2>1, <3>2
        <4>2. mem[a] = IF a - job.d \in MovedOffsets THEN old[job.s + (a - job.d)] ELSE old[a]
          BY <1>2
        <4>3. a - job.d \in MovedOffsets' <=> a - job.d \in MovedOffsets
          BY <1>7, <3>2
        <4> QED
          BY <4>1, <4>2, <4>3
      <3> QED
        BY <3>1, <3>2
    <2> QED
      BY <2>1, <2>2
  <1>9. i' \in 0 .. job'.n
    BY <1>1, <1>n
  <1> QED
    BY <1>1, <1>8, <1>9 DEF MoveInv

(* Every turn of the loop keeps it, and no other function is memmove.      *)
LEMMA StepMove == MoveInv /\ [StringNext]_svars => MoveInv'
  <1> SUFFICES ASSUME MoveInv, [StringNext]_svars PROVE MoveInv'
    OBVIOUS
  <1>1. CASE Move
    BY <1>1, MoveStep
  <1>2. CASE ReturnDest
    BY <1>2 DEF ReturnDest, Return, MoveInv, MovedOffsets
  <1>3. CASE UNCHANGED svars
    BY <1>3 DEF svars, MoveInv, MovedOffsets
  <1>4. CASE Copy \/ Fill \/ StrCpy \/ StrLen \/ StrCmp \/ MemCmp \/ StrChr
    <2>1. job' = job /\ job.fn # "memmove"
      BY <1>4 DEF Copy, Fill, StrCpy, StrLen, StrCmp, MemCmp, StrChr, Running, Put, Advance, Return
    <2> QED
      BY <2>1 DEF MoveInv
  <1> QED
    BY <1>1, <1>2, <1>3, <1>4 DEF StringNext

(* When all bytes are moved, they are moved at once.                       *)
LEMMA MoveDone == MoveInv => MoveCorrect
  <1> SUFFICES ASSUME MoveInv, Returned("memmove") PROVE mem = Moved(old, job.d, job.s, job.n)
    BY DEF MoveCorrect
  <1>1. /\ job.d \in Nat /\ job.s \in Nat /\ job.n \in Nat /\ i = job.n
        /\ mem = [a \in Addr |-> IF a - job.d \in MovedOffsets THEN old[job.s + (a - job.d)] ELSE old[a]]
    BY DEF MoveInv, Returned
  <1>2. \A a \in Addr : /\ a - job.d \in MovedOffsets <=> a \in job.d .. job.d + job.n - 1
                        /\ job.s + (a - job.d) = job.s + a - job.d
    BY <1>1, MiniStringAssumption DEF MovedOffsets, Addr
  <1> QED
    BY <1>1, <1>2 DEF Moved

(* Once memmove has returned, the destination holds what the source held   *)
(* at the call and nothing else has changed (ministring.c:39-48).          *)
THEOREM MoveIsCorrect == StringSpec => []MoveCorrect
  BY MoveInit, StepMove, MoveDone, PTL DEF StringSpec
-----------------------------------------------------------------------------
(* The heap.                                                               *)

(* Where the next block goes.                                              *)
Break == IF heap_ptr = 0 THEN HeapStart ELSE heap_ptr

(* The break is 0 before the first call and never again, or the heap would *)
(* start over.                                                             *)
HeapInv ==
  /\ heap_ptr \in Nat /\ Break <= HeapEnd
  /\ blocks \in Seq([base : Nat, size : Nat])
  /\ IF blocks = <<>> THEN Break = HeapStart ELSE heap_ptr # 0
  /\ HeapDense

(* Before the first request.                                               *)
LEMMA InitHeapInv == HeapInit => HeapInv
  BY HeapAssumption DEF HeapInit, HeapInv, HeapDense, Break

(* A request that does not fit moves nothing.                              *)
LEMMA RefusedHeapInv ==
  ASSUME HeapInv, heap_ptr' = Break, blocks' = blocks
  PROVE  HeapInv'
  <1>1. Break' = Break /\ heap_ptr' \in Nat
    BY HeapAssumption DEF HeapInv, Break
  <1>2. blocks # <<>> => heap_ptr' = heap_ptr
    BY DEF HeapInv, Break
  <1>3. HeapDense'
    BY <1>2 DEF HeapInv, HeapDense
  <1> QED BY <1>1, <1>2, <1>3 DEF HeapInv

(* One that fits becomes the block behind the last one.                    *)
LEMMA GrantedHeapInv ==
  ASSUME HeapInv, NEW incr \in Nat, Break + incr <= HeapEnd, heap_ptr' = Break + incr,
         blocks' = Append(blocks, [base |-> Break, size |-> incr])
  PROVE  HeapInv'
  <1>1. HeapStart \in Nat \ {0} /\ HeapEnd \in Nat /\ Break \in Nat \ {0}
    BY HeapAssumption DEF HeapInv, Break
  <1> DEFINE block == [base |-> Break, size |-> incr]
  <1>2. block \in [base : Nat, size : Nat] /\ blocks \in Seq([base : Nat, size : Nat])
    BY <1>1 DEF HeapInv
  <1>3. /\ blocks' \in Seq([base : Nat, size : Nat])
        /\ Len(blocks') = Len(blocks) + 1 /\ Len(blocks) \in Nat
        /\ blocks'[Len(blocks) + 1] = block
        /\ \A k \in 1 .. Len(blocks) : blocks'[k] = blocks[k]
    BY <1>2
  <1>4. blocks' # <<>> /\ heap_ptr' # 0 /\ heap_ptr' \in Nat
    BY <1>1, <1>3
  <1>5. Break' = heap_ptr'
    BY <1>4 DEF Break
  <1>6. block.base = IF Len(blocks) = 0 THEN HeapStart
                     ELSE blocks[Len(blocks)].base + blocks[Len(blocks)].size
    <2>1. CASE blocks = <<>>
      BY <2>1 DEF HeapInv
    <2>2. CASE blocks # <<>>
      BY <1>2, <2>2 DEF HeapInv, HeapDense, Break
    <2> QED BY <2>1, <2>2
  <1>7. HeapDense'
    <2>1. ASSUME NEW k \in 1 .. Len(blocks')
          PROVE  /\ blocks'[k].base + blocks'[k].size <= HeapEnd
                 /\ blocks'[k].base = IF k = 1 THEN HeapStart
                                      ELSE blocks'[k-1].base + blocks'[k-1].size
      <3>1. CASE k = Len(blocks) + 1
        BY <1>1, <1>3, <1>6, <3>1
      <3>2. CASE k \in 1 .. Len(blocks)
        <4>1. k # 1 => k - 1 \in 1 .. Len(blocks)
          BY <3>2
        <4> QED BY <1>3, <3>2, <4>1 DEF HeapInv, HeapDense
      <3> QED BY <1>3, <3>1, <3>2
    <2>2. heap_ptr' = blocks'[Len(blocks')].base + blocks'[Len(blocks')].size
      BY <1>3
    <2> QED BY <2>1, <2>2 DEF HeapDense
  <1> QED BY <1>1, <1>3, <1>4, <1>5, <1>7 DEF HeapInv

(* Every request keeps the invariant.                                      *)
LEMMA StepHeapInv == HeapInv /\ [HeapNext]_hvars => HeapInv'
  <1> SUFFICES ASSUME HeapInv, [HeapNext]_hvars PROVE HeapInv'
    OBVIOUS
  <1>1. CASE HeapNext
    <2>1. PICK incr \in Increments : Sbrk(incr)
      BY <1>1 DEF HeapNext
    <2>2. incr \in Nat /\ Break \in Nat /\ HeapEnd \in Nat
      BY HeapAssumption DEF HeapInv, Break
    <2>3. CASE Break + incr > HeapEnd
      BY <2>1, <2>3, RefusedHeapInv DEF Sbrk, Break
    <2>4. CASE Break + incr <= HeapEnd
      <3>1. ~(Break + incr > HeapEnd)
        BY <2>2, <2>4
      <3>2. /\ heap_ptr' = Break + incr
            /\ blocks' = Append(blocks, [base |-> Break, size |-> incr])
        BY <2>1, <3>1 DEF Sbrk, Break
      <3> QED BY <2>2, <2>4, <3>2, GrantedHeapInv
    <2> QED BY <2>2, <2>3, <2>4
  <1>2. CASE UNCHANGED hvars
    BY <1>2 DEF hvars, HeapInv, HeapDense, Break
  <1> QED BY <1>1, <1>2

(* Blocks never overlap, never leave the heap and leave no gap, however    *)
(* many requests were refused in between (syscalls_uart.c:23-29).          *)
THEOREM HeapStaysDense == HeapSpec => []HeapDense
  <1>1. HeapInv => HeapDense
    BY DEF HeapInv
  <1> QED BY <1>1, InitHeapInv, StepHeapInv, PTL DEF HeapSpec
-----------------------------------------------------------------------------
(* The other functions of ministring.c.                                    *)

(* The length of a string that has its terminator.                         *)
LEMMA LengthIs ==
  ASSUME NEW m \in [Addr -> Nat], NEW a \in Nat, Terminated(m, a)
  PROVE  /\ Length(m, a) \in Nat /\ a + Length(m, a) \in Addr /\ m[a + Length(m, a)] = 0
         /\ \A k \in 0 .. Length(m, a) - 1 : m[a + k] # 0
  <1> DEFINE S == {n \in Nat : a + n \in Addr /\ m[a + n] = 0}
  <1>1. MemSize \in Nat
    BY MiniStringAssumption
  <1>2. S # {}
    <2>1. PICK k \in a .. MemSize - 1 : m[k] = 0
      BY DEF Terminated
    <2>2. k - a \in Nat /\ a + (k - a) = k /\ k \in Addr
      BY <1>1, <2>1 DEF Addr
    <2>3. k - a \in S
      BY <2>1, <2>2
    <2> QED BY <2>3
  <1>3. PICK n \in S : \A l \in S : n <= l
    BY <1>2, LeastNatural
  <1>4. n \in 0 .. MemSize - a /\ a + n \in Addr /\ m[a + n] = 0
    BY <1>1 DEF Addr
  <1>5. \A k \in 0 .. n - 1 : m[a + k] # 0
    <2> SUFFICES ASSUME NEW k \in 0 .. n - 1, m[a + k] = 0 PROVE FALSE
      OBVIOUS
    <2>1. k \in Nat /\ k < n /\ a + k \in Addr
      BY <1>1, <1>4 DEF Addr
    <2>2. k \in S
      BY <2>1
    <2> QED BY <1>3, <2>1, <2>2
  <1>6. \E l \in 0 .. MemSize - a :
          a + l \in Addr /\ m[a + l] = 0 /\ \A k \in 0 .. l - 1 : m[a + k] # 0
    BY <1>4, <1>5
  <1>7. /\ Length(m, a) \in 0 .. MemSize - a
        /\ a + Length(m, a) \in Addr /\ m[a + Length(m, a)] = 0
        /\ \A k \in 0 .. Length(m, a) - 1 : m[a + k] # 0
    BY <1>6 DEF Length
  <1> QED BY <1>1, <1>7

(* Where the first difference is decides which of two regions comes first. *)
LEMMA FirstDifference ==
  ASSUME NEW m \in [Addr -> Nat], NEW a \in Nat, NEW b \in Nat, NEW n \in Nat,
         NEW k \in 0 .. n - 1, a + k \in Addr, b + k \in Addr,
         \A j \in 0 .. k - 1 : m[a + j] = m[b + j], m[a + k] # m[b + k]
  PROVE  Before(m, a, b, n) <=> m[a + k] < m[b + k]
  <1>1. m[a + k] \in Nat /\ m[b + k] \in Nat /\ k \in Nat
    OBVIOUS
  <1>2. ASSUME m[a + k] < m[b + k] PROVE Before(m, a, b, n)
    BY <1>2 DEF Before
  <1>3. ASSUME Before(m, a, b, n) PROVE m[a + k] < m[b + k]
    <2>1. PICK l \in 0 .. n - 1 :
            m[a + l] < m[b + l] /\ \A j \in 0 .. l - 1 : m[a + j] = m[b + j]
      BY <1>3 DEF Before
    <2>2. CASE l < k
      <3>1. l \in 0 .. k - 1
        BY <2>2
      <3>2. a + l \in Addr
        BY <1>1, <3>1, MiniStringAssumption DEF Addr
      <3>3. m[a + l] = m[b + l] /\ m[a + l] \in Nat
        BY <3>1, <3>2
      <3> QED BY <2>1, <3>3
    <2>3. CASE l = k
      BY <2>1, <2>3
    <2>4. CASE l > k
      <3>1. k \in 0 .. l - 1
        BY <2>4
      <3> QED BY <2>1, <3>1
    <2> QED BY <2>2, <2>3, <2>4
  <1> QED BY <1>2, <1>3

(* Equal regions come neither before nor after each other.                 *)
LEMMA NoDifference ==
  ASSUME NEW m \in [Addr -> Nat], NEW a \in Nat, NEW b \in Nat, NEW n \in Nat,
         a + n <= MemSize, b + n <= MemSize, \A j \in 0 .. n - 1 : m[a + j] = m[b + j]
  PROVE  ~Before(m, a, b, n) /\ ~Before(m, b, a, n)
  <1>1. \A j \in 0 .. n - 1 : m[a + j] \in Nat /\ m[b + j] \in Nat
    BY MiniStringAssumption DEF Addr
  <1> QED BY <1>1 DEF Before

(* One more byte of a copy; what is read next is not among those written.  *)
LEMMA MovedMore ==
  ASSUME NEW m \in [Addr -> Nat], NEW d \in Nat, NEW s \in Nat, NEW n \in Nat,
         d + n <= MemSize, s + n <= MemSize, Apart(d, s, n), NEW k \in 0 .. n - 1
  PROVE  /\ Moved(m, d, s, k)[s + k] = m[s + k]
         /\ [Moved(m, d, s, k) EXCEPT ![d + k] = m[s + k]] = Moved(m, d, s, k + 1)
         /\ d + k \in Addr /\ s + k \in Addr
         /\ \A j \in 0 .. k - 1 : Moved(m, d, s, k)[d + j] = m[s + j]
  <1>1. MemSize \in Nat /\ k \in Nat /\ d + k \in Addr /\ s + k \in Addr
    BY MiniStringAssumption DEF Addr
  <1>2. s + k \notin d .. d + k - 1
    BY DEF Apart
  <1>3. Moved(m, d, s, k)[s + k] = m[s + k]
    BY <1>1, <1>2 DEF Moved
  <1>4. [Moved(m, d, s, k) EXCEPT ![d + k] = m[s + k]] = Moved(m, d, s, k + 1)
    <2>1. \A x \in Addr : x \in d .. d + (k + 1) - 1 <=> x \in d .. d + k - 1 \/ x = d + k
      BY <1>1 DEF Addr
    <2>2. s + (d + k) - d = s + k
      BY <1>1
    <2>3. \A x \in Addr : [Moved(m, d, s, k) EXCEPT ![d + k] = m[s + k]][x] = Moved(m, d, s, k + 1)[x]
      <3> TAKE x \in Addr
      <3>1. CASE x = d + k
        BY <1>1, <2>1, <2>2, <3>1 DEF Moved
      <3>2. CASE x # d + k
        BY <2>1, <3>2 DEF Moved
      <3> QED BY <3>1, <3>2
    <2> QED BY <2>3 DEF Moved
  <1>5. \A j \in 0 .. k - 1 : Moved(m, d, s, k)[d + j] = m[s + j]
    <2> TAKE j \in 0 .. k - 1
    <2>1. d + j \in Addr /\ d + j \in d .. d + k - 1 /\ s + (d + j) - d = s + j
      BY <1>1 DEF Addr
    <2> QED BY <2>1 DEF Moved
  <1> QED BY <1>1, <1>3, <1>4, <1>5

(* The memory with n bytes from d filled.                                  *)
Filled(m, d, n, c) == [a \in Addr |-> IF a \in d .. d + n - 1 THEN c ELSE m[a]]

(* What every call keeps, and how far the loop of each function has come.  *)
CallInv ==
  /\ {job.d, job.s, job.n} \subseteq Nat /\ job.c \in Nat /\ i \in Nat
  /\ old \in [Addr -> Nat] /\ Legal(job, old)

CopyInv ==
  job.fn = "memcpy" =>
    i <= job.n /\ mem = Moved(old, job.d, job.s, i) /\ (ret # <<>> => i = job.n)

FillInv ==
  job.fn = "memset" => i <= job.n /\ mem = Filled(old, job.d, i, job.c) /\ (ret # <<>> => i = job.n)

StrCpyInv ==
  job.fn = "strcpy" =>
    /\ i <= Length(old, job.s) + 1 /\ mem = Moved(old, job.d, job.s, i)
    /\ ret # <<>> => i = Length(old, job.s) + 1

StrLenInv ==
  job.fn = "strlen" =>
    i <= Length(old, job.s) /\ mem = old /\ (ret # <<>> => ret[1] = Length(old, job.s))

CompareSpan ==
  IF job.fn = "memcmp" THEN job.n
  ELSE IF Length(old, job.d) < Length(old, job.s) THEN Length(old, job.d) + 1
  ELSE Length(old, job.s) + 1

CompareInv ==
  job.fn \in {"strcmp", "memcmp"} =>
    /\ mem = old /\ \A k \in 0 .. i - 1 : old[job.d + k] = old[job.s + k]
    /\ job.fn = "strcmp" => i < CompareSpan
    /\ job.fn = "memcmp" => i <= CompareSpan
    /\ ret # <<>> => /\ ret[1] < 0 <=> Before(old, job.d, job.s, CompareSpan)
                     /\ ret[1] > 0 <=> Before(old, job.s, job.d, CompareSpan)

Matching == {k \in 0 .. Length(old, job.s) : old[job.s + k] = job.c}

StrChrInv ==
  job.fn = "strchr" =>
    /\ mem = old /\ i <= Length(old, job.s) /\ \A k \in 0 .. i - 1 : old[job.s + k] # job.c
    /\ ret # <<>> => ret[1] = IF Matching = {} THEN NULL
                              ELSE job.s + CHOOSE k \in Matching : \A j \in Matching : k <= j

StringInv ==
  CallInv /\ CopyInv /\ FillInv /\ StrCpyInv /\ StrLenInv /\ CompareInv /\ StrChrInv

(* A copy of no bytes changes nothing.                                     *)
LEMMA NothingMoved ==
  ASSUME NEW m \in [Addr -> Nat], NEW d \in Nat, NEW s \in Nat
  PROVE  Moved(m, d, s, 0) = m
  <1>1. \A a \in Addr : a \notin d .. d + 0 - 1
    BY MiniStringAssumption DEF Addr
  <1> QED BY <1>1 DEF Moved

(* At the call.                                                            *)
LEMMA InitString == StringInit => StringInv
  <1> SUFFICES ASSUME StringInit PROVE StringInv
    OBVIOUS
  <1>1. /\ job \in Jobs /\ mem \in [Addr -> UChar] /\ Legal(job, mem)
        /\ old = mem /\ i = 0 /\ ret = <<>>
    BY DEF StringInit
  <1>2. CallInv
    <2>1. {job.d, job.s, job.n} \subseteq Nat /\ job.c \in UChar /\ UChar \subseteq Nat
      BY <1>1, MiniStringAssumption
    <2>2. old \in [Addr -> Nat]
      BY <1>1, <2>1
    <2> QED BY <1>1, <2>1, <2>2 DEF CallInv
  <1>3. /\ job.d \in Nat /\ job.s \in Nat /\ job.n \in Nat /\ old \in [Addr -> Nat]
    BY <1>2 DEF CallInv
  <1>4. mem = Moved(old, job.d, job.s, i)
    BY <1>1, <1>3, NothingMoved
  <1>5. mem = Filled(old, job.d, i, job.c)
    <2>1. \A a \in Addr : a \notin job.d .. job.d + 0 - 1
      BY <1>3, MiniStringAssumption DEF Addr
    <2> QED BY <1>1, <2>1 DEF Filled
  <1>6. job.fn \in {"strcpy", "strlen", "strcmp", "strchr"} => Length(old, job.s) \in Nat
    BY <1>1, <1>3, LengthIs DEF Legal
  <1>7. job.fn = "strcmp" => Length(old, job.d) \in Nat
    BY <1>1, <1>3, LengthIs DEF Legal
  <1>8. \A k \in 0 .. i - 1 : FALSE
    BY <1>1
  <1>9. CopyInv /\ FillInv /\ StrCpyInv /\ StrLenInv /\ StrChrInv
    <2>1. CopyInv /\ FillInv
      BY <1>1, <1>3, <1>4, <1>5 DEF CopyInv, FillInv
    <2>2. StrCpyInv /\ StrLenInv
      BY <1>1, <1>4, <1>6 DEF StrCpyInv, StrLenInv
    <2>3. StrChrInv
      BY <1>1, <1>6, <1>8 DEF StrChrInv
    <2> QED BY <2>1, <2>2, <2>3
  <1>10. CompareInv
    BY <1>1, <1>3, <1>6, <1>7, <1>8 DEF CompareInv, CompareSpan
  <1> QED BY <1>2, <1>9, <1>10 DEF StringInv

(* No step changes the call, or what the memory held then.                 *)
LEMMA StepCall ==
  ASSUME CallInv, StringNext
  PROVE  CallInv' /\ job' = job /\ old' = old /\ ret = <<>>
  <1>1. job' = job /\ old' = old /\ (i' = i \/ i' = i + 1) /\ ret = <<>>
    BY DEF StringNext, Move, Copy, Fill, ReturnDest, StrCpy, StrLen, StrCmp, MemCmp, StrChr,
           Running, Put, Advance, Return
  <1> QED BY <1>1 DEF CallInv

(* A turn of memcpy.                                                       *)
LEMMA StepCopy ==
  ASSUME CallInv, CopyInv, StringNext
  PROVE  CopyInv'
  <1>0. job' = job /\ old' = old /\ ret = <<>>
    BY StepCall
  <1> SUFFICES ASSUME job.fn = "memcpy" PROVE CopyInv'
    BY <1>0 DEF CopyInv
  <1>1. /\ job.d \in Nat /\ job.s \in Nat /\ job.n \in Nat /\ i \in Nat /\ old \in [Addr -> Nat]
        /\ job.d + job.n <= MemSize /\ job.s + job.n <= MemSize /\ Apart(job.d, job.s, job.n)
        /\ i <= job.n /\ mem = Moved(old, job.d, job.s, i)
    BY DEF CallInv, CopyInv, Legal
  <1>2. CASE Copy
    <2>1. /\ i < job.n /\ i' = i + 1 /\ ret' = ret
          /\ mem' = [mem EXCEPT ![job.d + i] = mem[job.s + i]]
      BY <1>2 DEF Copy, Put
    <2>2. i \in 0 .. job.n - 1
      BY <1>1, <2>1
    <2>3. mem' = Moved(old, job.d, job.s, i + 1)
      <3> DEFINE m == Moved(old, job.d, job.s, i)
      <3>1. /\ m[job.s + i] = old[job.s + i]
            /\ [m EXCEPT ![job.d + i] = old[job.s + i]] = Moved(old, job.d, job.s, i + 1)
        BY <1>1, <2>2, MovedMore
      <3> HIDE DEF m
      <3>2. mem = m
        BY <1>1 DEF m
      <3> QED BY <2>1, <3>1, <3>2
    <2>4. mem' = Moved(old', job'.d, job'.s, i')
      BY <1>0, <2>1, <2>3
    <2> QED BY <1>0, <1>1, <2>1, <2>4 DEF CopyInv
  <1>3. CASE ReturnDest
    BY <1>0, <1>1, <1>3 DEF ReturnDest, Return, CopyInv, Moved
  <1>4. Copy \/ ReturnDest
    BY DEF StringNext, Move, Fill, StrCpy, StrLen, StrCmp, MemCmp, StrChr, Running
  <1> QED BY <1>2, <1>3, <1>4

(* A turn of memset.                                                       *)
LEMMA StepFill ==
  ASSUME CallInv, FillInv, StringNext
  PROVE  FillInv'
  <1>0. job' = job /\ old' = old /\ ret = <<>>
    BY StepCall
  <1> SUFFICES ASSUME job.fn = "memset" PROVE FillInv'
    BY <1>0 DEF FillInv
  <1>1. /\ job.d \in Nat /\ job.n \in Nat /\ i \in Nat /\ job.d + job.n <= MemSize
        /\ i <= job.n /\ mem = Filled(old, job.d, i, job.c)
    BY DEF CallInv, FillInv, Legal
  <1>2. CASE Fill
    <2>1. /\ i < job.n /\ i' = i + 1 /\ ret' = ret
          /\ mem' = [mem EXCEPT ![job.d + i] = job.c]
      BY <1>2 DEF Fill, Put
    <2>2. job.d + i \in Addr
      BY <1>1, <2>1, MiniStringAssumption DEF Addr
    <2>3. \A x \in Addr : x \in job.d .. job.d + (i + 1) - 1
                            <=> x \in job.d .. job.d + i - 1 \/ x = job.d + i
      BY <1>1, MiniStringAssumption DEF Addr
    <2>4. mem' = Filled(old, job.d, i + 1, job.c)
      BY <1>1, <2>1, <2>2, <2>3 DEF Filled
    <2>5. mem' = Filled(old', job'.d, i', job'.c)
      BY <1>0, <2>1, <2>4 DEF Filled
    <2> QED BY <1>0, <1>1, <2>1, <2>5 DEF FillInv
  <1>3. CASE ReturnDest
    <2>1. mem' = mem /\ i' = i /\ i = job.n
      BY <1>3 DEF ReturnDest, Return
    <2>2. mem' = Filled(old', job'.d, i', job'.c)
      BY <1>0, <1>1, <2>1 DEF Filled
    <2> QED BY <1>0, <1>1, <2>1, <2>2 DEF FillInv
  <1>4. Fill \/ ReturnDest
    BY DEF StringNext, Move, Copy, StrCpy, StrLen, StrCmp, MemCmp, StrChr, Running
  <1> QED BY <1>2, <1>3, <1>4

(* A turn of strcpy: the byte just written tells whether it was the last.  *)
LEMMA StepStrCpy ==
  ASSUME CallInv, StrCpyInv, StringNext
  PROVE  StrCpyInv'
  <1>0. job' = job /\ old' = old /\ ret = <<>>
    BY StepCall
  <1> SUFFICES ASSUME job.fn = "strcpy" PROVE StrCpyInv'
    BY <1>0 DEF StrCpyInv
  <1> DEFINE n == Length(old, job.s) + 1
  <1>1. /\ job.d \in Nat /\ job.s \in Nat /\ i \in Nat /\ old \in [Addr -> Nat]
        /\ Terminated(old, job.s) /\ job.d + n <= MemSize /\ Apart(job.d, job.s, n)
        /\ i <= n /\ mem = Moved(old, job.d, job.s, i)
    BY DEF CallInv, StrCpyInv, Legal
  <1>2. /\ n - 1 \in Nat /\ n \in Nat /\ job.s + (n - 1) \in Addr /\ old[job.s + (n - 1)] = 0
        /\ \A k \in 0 .. n - 2 : old[job.s + k] # 0
        /\ Length(old, job.s) = n - 1
    <2>1. /\ Length(old, job.s) \in Nat /\ job.s + Length(old, job.s) \in Addr
          /\ old[job.s + Length(old, job.s)] = 0
          /\ \A k \in 0 .. Length(old, job.s) - 1 : old[job.s + k] # 0
      BY <1>1, LengthIs
    <2> QED BY <2>1
  <1> HIDE DEF n
  <1>3. job.s + n <= MemSize
    BY <1>1, <1>2, MiniStringAssumption DEF Addr
  <1>4. ASSUME i > 0 PROVE mem[job.d + i - 1] = old[job.s + (i - 1)]
    <2>1. /\ job.d + i - 1 \in Addr /\ job.d + i - 1 \in job.d .. job.d + i - 1
          /\ job.s + (job.d + i - 1) - job.d = job.s + (i - 1)
      BY <1>1, <1>2, <1>4, MiniStringAssumption DEF Addr
    <2> QED BY <1>1, <2>1 DEF Moved
  <1>5. StrCpy
    BY DEF StringNext, Move, Copy, Fill, ReturnDest, StrLen, StrCmp, MemCmp, StrChr, Running
  <1>6. CASE i > 0 /\ mem[job.d + i - 1] = 0
    <2>1. mem' = mem /\ i' = i /\ ret' = <<job.d>>
      BY <1>5, <1>6 DEF StrCpy, Return
    <2>2. i = n
      <3>1. i - 1 \notin 0 .. n - 2
        BY <1>2, <1>4, <1>6
      <3> QED BY <1>1, <1>2, <1>6, <3>1
    <2>3. i = Length(old, job.s) + 1
      BY <1>2, <2>2
    <2> QED BY <1>0, <1>1, <1>2, <2>1, <2>3 DEF StrCpyInv, Moved
  <1>7. CASE ~(i > 0 /\ mem[job.d + i - 1] = 0)
    <2>1. /\ i' = i + 1 /\ ret' = ret
          /\ mem' = [mem EXCEPT ![job.d + i] = mem[job.s + i]]
      BY <1>5, <1>7 DEF StrCpy, Put
    <2>2. i \in 0 .. n - 1
      <3> SUFFICES ASSUME i = n PROVE FALSE
        BY <1>1, <1>2
      <3>1. i > 0 /\ old[job.s + (i - 1)] = 0
        BY <1>2
      <3> QED BY <1>4, <1>7, <3>1
    <2>3. mem' = Moved(old, job.d, job.s, i + 1)
      <3> DEFINE m == Moved(old, job.d, job.s, i)
      <3>1. /\ m[job.s + i] = old[job.s + i]
            /\ [m EXCEPT ![job.d + i] = old[job.s + i]] = Moved(old, job.d, job.s, i + 1)
        BY <1>1, <1>2, <1>3, <2>2, MovedMore
      <3> HIDE DEF m
      <3>2. mem = m
        BY <1>1 DEF m
      <3> QED BY <2>1, <3>1, <3>2
    <2>4. mem' = Moved(old', job'.d, job'.s, i')
      BY <1>0, <2>1, <2>3
    <2>5. i + 1 <= Length(old, job.s) + 1
      BY <1>1, <1>2, <2>2
    <2> QED BY <1>0, <2>1, <2>4, <2>5 DEF StrCpyInv
  <1> QED BY <1>6, <1>7

(* A turn of strlen.                                                       *)
LEMMA StepStrLen ==
  ASSUME CallInv, StrLenInv, StringNext
  PROVE  StrLenInv'
  <1>0. job' = job /\ old' = old /\ ret = <<>>
    BY StepCall
  <1> SUFFICES ASSUME job.fn = "strlen" PROVE StrLenInv'
    BY <1>0 DEF StrLenInv
  <1>1. /\ i \in Nat /\ i <= Length(old, job.s) /\ mem = old
        /\ job.s \in Nat /\ old \in [Addr -> Nat] /\ Terminated(old, job.s)
    BY DEF CallInv, StrLenInv, Legal
  <1>2. /\ Length(old, job.s) \in Nat /\ old[job.s + Length(old, job.s)] = 0
        /\ \A k \in 0 .. Length(old, job.s) - 1 : old[job.s + k] # 0
    BY <1>1, LengthIs
  <1>3. StrLen
    BY DEF StringNext, Move, Copy, Fill, ReturnDest, StrCpy, StrCmp, MemCmp, StrChr, Running
  <1>4. CASE mem[job.s + i] # 0
    <2>1. i' = i + 1 /\ mem' = mem /\ ret' = ret
      BY <1>3, <1>4 DEF StrLen, Advance
    <2>2. i + 1 <= Length(old, job.s)
      BY <1>1, <1>2, <1>4
    <2> QED BY <1>0, <1>1, <2>1, <2>2 DEF StrLenInv
  <1>5. CASE mem[job.s + i] = 0
    <2>1. i' = i /\ mem' = mem /\ ret' = <<i>>
      BY <1>3, <1>5 DEF StrLen, Return
    <2>2. i = Length(old, job.s)
      BY <1>1, <1>2, <1>5
    <2> QED BY <1>0, <1>1, <2>1, <2>2 DEF StrLenInv
  <1> QED BY <1>4, <1>5

(* A turn of strchr.                                                       *)
LEMMA StepStrChr ==
  ASSUME CallInv, StrChrInv, StringNext
  PROVE  StrChrInv'
  <1>0. job' = job /\ old' = old /\ ret = <<>>
    BY StepCall
  <1> SUFFICES ASSUME job.fn = "strchr" PROVE StrChrInv'
    BY <1>0 DEF StrChrInv
  <1>1. /\ i \in Nat /\ i <= Length(old, job.s) /\ mem = old
        /\ job.s \in Nat /\ job.c \in Nat /\ old \in [Addr -> Nat] /\ Terminated(old, job.s)
        /\ \A k \in 0 .. i - 1 : old[job.s + k] # job.c
    BY DEF CallInv, StrChrInv, Legal
  <1>2. /\ Length(old, job.s) \in Nat /\ old[job.s + Length(old, job.s)] = 0
        /\ \A k \in 0 .. Length(old, job.s) - 1 : old[job.s + k] # 0
    BY <1>1, LengthIs
  <1>3. StrChr
    BY DEF StringNext, Move, Copy, Fill, ReturnDest, StrCpy, StrLen, StrCmp, MemCmp, Running
  <1> DEFINE answer == IF Matching = {} THEN NULL
                       ELSE job.s + CHOOSE k \in Matching : \A j \in Matching : k <= j
  <1>4. Matching' = Matching
    BY <1>0 DEF Matching
  <1>5. ASSUME old[job.s + i] = job.c PROVE answer = job.s + i
    <2>1. i \in Matching /\ \A j \in Matching : i <= j
      BY <1>1, <1>2, <1>5 DEF Matching
    <2>2. \A k \in Matching : (\A j \in Matching : k <= j) => k = i
      <3> TAKE k \in Matching
      <3> HAVE \A j \in Matching : k <= j
      <3>1. k <= i /\ i <= k /\ k \in Nat
        BY <1>2, <2>1 DEF Matching
      <3> QED BY <1>1, <3>1
    <2> QED BY <2>1, <2>2
  <1>6. ASSUME i = Length(old, job.s), old[job.s + i] # job.c PROVE answer = NULL
    <2>1. Matching = {}
      BY <1>1, <1>2, <1>6 DEF Matching
    <2> QED BY <2>1
  <1>7. CASE mem[job.s + i] = 0
    <2>1. i' = i /\ mem' = mem /\ ret' = <<IF job.c = 0 THEN job.s + i ELSE NULL>>
      BY <1>3, <1>7 DEF StrChr, Return
    <2>2. i = Length(old, job.s)
      BY <1>1, <1>2, <1>7
    <2>3. ret'[1] = answer
      BY <1>1, <1>5, <1>6, <1>7, <2>1, <2>2
    <2> QED BY <1>0, <1>1, <1>4, <2>1, <2>3 DEF StrChrInv
  <1>8. CASE mem[job.s + i] # 0 /\ mem[job.s + i] = job.c
    <2>1. i' = i /\ mem' = mem /\ ret' = <<job.s + i>>
      BY <1>3, <1>8 DEF StrChr, Return
    <2>2. ret'[1] = answer
      BY <1>1, <1>5, <1>8, <2>1
    <2> QED BY <1>0, <1>1, <1>4, <2>1, <2>2 DEF StrChrInv
  <1>9. CASE mem[job.s + i] # 0 /\ mem[job.s + i] # job.c
    <2>1. i' = i + 1 /\ mem' = mem /\ ret' = ret
      BY <1>3, <1>9 DEF StrChr, Advance
    <2>2. i + 1 <= Length(old, job.s)
      BY <1>1, <1>2, <1>9
    <2>3. \A k \in 0 .. i : old[job.s + k] # job.c
      BY <1>1, <1>9
    <2> QED BY <1>0, <1>1, <2>1, <2>2, <2>3 DEF StrChrInv
  <1> QED BY <1>7, <1>8, <1>9

(* The comparison ends at the first difference or where both regions end.  *)
LEMMA StepCompare ==
  ASSUME CallInv, CompareInv, StringNext
  PROVE  CompareInv'
  <1>0. job' = job /\ old' = old /\ ret = <<>>
    BY StepCall
  <1> SUFFICES ASSUME job.fn \in {"strcmp", "memcmp"} PROVE CompareInv'
    BY <1>0 DEF CompareInv
  <1> DEFINE n == CompareSpan
             x == old[job.d + i]
             y == old[job.s + i]
  <1>1. /\ job.d \in Nat /\ job.s \in Nat /\ job.n \in Nat /\ i \in Nat /\ old \in [Addr -> Nat]
        /\ mem = old /\ \A k \in 0 .. i - 1 : old[job.d + k] = old[job.s + k]
        /\ job.fn = "strcmp" => i < n
        /\ job.fn = "memcmp" => i <= n
    BY DEF CallInv, CompareInv
  <1>2. n' = n
    BY <1>0 DEF CompareSpan
  <1>m. MemSize \in Nat /\ job.d \in Nat /\ job.s \in Nat
    BY <1>1, MiniStringAssumption
  <1>3. n \in Nat /\ job.d + n <= MemSize /\ job.s + n <= MemSize
    <2>1. CASE job.fn = "memcmp"
      BY <1>1, <2>1 DEF CallInv, Legal, CompareSpan
    <2>2. CASE job.fn = "strcmp"
      <3>1. /\ Length(old, job.s) \in Nat /\ job.s + Length(old, job.s) \in Addr
            /\ Length(old, job.d) \in Nat /\ job.d + Length(old, job.d) \in Addr
        BY <1>1, <2>2, LengthIs DEF CallInv, Legal
      <3>2. \/ n = Length(old, job.d) + 1 /\ Length(old, job.d) < Length(old, job.s)
            \/ n = Length(old, job.s) + 1 /\ ~(Length(old, job.d) < Length(old, job.s))
        BY <2>2 DEF CompareSpan
      <3> HIDE DEF n
      <3> QED BY <1>m, <3>1, <3>2 DEF Addr
    <2> QED BY <2>1, <2>2
  <1> HIDE DEF n
  <1>4. \A k \in 0 .. n - 1 : job.d + k \in Addr /\ job.s + k \in Addr
    BY <1>3, <1>m DEF Addr
  <1>5. ASSUME i < n, x # y
        PROVE  /\ x - y < 0 <=> Before(old, job.d, job.s, n)
               /\ x - y > 0 <=> Before(old, job.s, job.d, n)
    <2>1. i \in 0 .. n - 1 /\ job.d + i \in Addr /\ job.s + i \in Addr
      BY <1>1, <1>3, <1>4, <1>5
    <2>2. Before(old, job.d, job.s, n) <=> x < y
      BY <1>1, <1>3, <1>5, <2>1, FirstDifference
    <2>3. Before(old, job.s, job.d, n) <=> y < x
      <3>1. \A k \in 0 .. i - 1 : old[job.s + k] = old[job.d + k]
        BY <1>1
      <3> QED BY <1>1, <1>3, <1>5, <2>1, <3>1, FirstDifference
    <2>4. x \in Nat /\ y \in Nat
      BY <1>1, <2>1
    <2>5. (x - y < 0 <=> x < y) /\ (x - y > 0 <=> y < x)
      <3> HIDE DEF x, y
      <3> QED BY <2>4
    <2> QED BY <2>2, <2>3, <2>5
  <1>6. ASSUME \A k \in 0 .. n - 1 : old[job.d + k] = old[job.s + k]
        PROVE  ~Before(old, job.d, job.s, n) /\ ~Before(old, job.s, job.d, n)
    BY <1>1, <1>3, <1>6, NoDifference
  <1>7. ASSUME NEW r \in Int, mem' = mem, i' = i, ret' = <<r>>,
               r < 0 <=> Before(old, job.d, job.s, n), r > 0 <=> Before(old, job.s, job.d, n)
        PROVE  CompareInv'
    <2>1. (ret'[1] < 0 <=> Before(old', job'.d, job'.s, n')) /\ (ret'[1] > 0 <=> Before(old', job'.s, job'.d, n'))
      BY <1>0, <1>2, <1>7
    <2> QED BY <1>0, <1>1, <1>2, <1>7, <2>1 DEF CompareInv, n
  <1>8. ASSUME mem' = mem, i' = i + 1, ret' = ret, x = y,
               job.fn = "strcmp" => i + 1 < n, job.fn = "memcmp" => i + 1 <= n
        PROVE  CompareInv'
    <2>1. \A k \in 0 .. i' - 1 : old'[job'.d + k] = old'[job'.s + k]
      <3>1. \A k \in 0 .. i' - 1 : k \in 0 .. i - 1 \/ k = i
        BY <1>1, <1>8
      <3> QED BY <1>0, <1>1, <1>8, <3>1
    <2> QED BY <1>0, <1>1, <1>2, <1>8, <2>1 DEF CompareInv, n
  <1>9. CASE job.fn = "memcmp"
    <2>1. MemCmp /\ n = job.n
      BY <1>9 DEF StringNext, Move, Copy, Fill, ReturnDest, StrCpy, StrLen, StrCmp, StrChr, Running,
                  n, CompareSpan
    <2>2. CASE i = job.n
      <3>1. mem' = mem /\ i' = i /\ ret' = <<0>>
        BY <2>1, <2>2 DEF MemCmp, Return
      <3>2. ~Before(old, job.d, job.s, n) /\ ~Before(old, job.s, job.d, n)
        BY <1>1, <1>6, <2>1, <2>2
      <3> QED BY <1>7, <3>1, <3>2
    <2>3. CASE i # job.n /\ x # y
      <3>1. mem' = mem /\ i' = i /\ ret' = <<x - y>>
        BY <1>1, <2>1, <2>3 DEF MemCmp, Return
      <3>2. i < n /\ x \in Nat /\ y \in Nat
        BY <1>1, <1>3, <1>4, <1>9, <2>1, <2>3
      <3> QED BY <1>5, <1>7, <2>3, <3>1, <3>2
    <2>4. CASE i # job.n /\ x = y
      <3>1. mem' = mem /\ i' = i + 1 /\ ret' = ret
        BY <1>1, <2>1, <2>4 DEF MemCmp, Advance
      <3> QED BY <1>1, <1>3, <1>8, <1>9, <2>1, <2>4, <3>1
    <2> QED BY <2>2, <2>3, <2>4
  <1>10. CASE job.fn = "strcmp"
    <2>1. StrCmp
      BY <1>10 DEF StringNext, Move, Copy, Fill, ReturnDest, StrCpy, StrLen, MemCmp, StrChr, Running
    <2>2. /\ n = IF Length(old, job.d) < Length(old, job.s) THEN Length(old, job.d) + 1
                 ELSE Length(old, job.s) + 1
          /\ Length(old, job.d) \in Nat /\ Length(old, job.s) \in Nat
          /\ old[job.d + Length(old, job.d)] = 0 /\ old[job.s + Length(old, job.s)] = 0
          /\ \A k \in 0 .. Length(old, job.d) - 1 : old[job.d + k] # 0
          /\ \A k \in 0 .. Length(old, job.s) - 1 : old[job.s + k] # 0
      <3>1. Terminated(old, job.d) /\ Terminated(old, job.s)
        BY <1>10 DEF CallInv, Legal
      <3>2. n = IF Length(old, job.d) < Length(old, job.s) THEN Length(old, job.d) + 1
                ELSE Length(old, job.s) + 1
        BY <1>10 DEF n, CompareSpan
      <3> QED BY <1>1, <3>1, <3>2, LengthIs
    <2>3. x \in Nat /\ y \in Nat /\ i < n
      BY <1>1, <1>3, <1>4, <1>10
    <2>4. CASE x # y
      <3>1. mem' = mem /\ i' = i /\ ret' = <<x - y>>
        BY <1>1, <2>1, <2>4 DEF StrCmp, Return
      <3> QED BY <1>5, <1>7, <2>3, <2>4, <3>1
    <2>5. CASE x = y /\ x = 0
      <3>1. mem' = mem /\ i' = i /\ ret' = <<0>>
        <4>1. mem' = mem /\ i' = i /\ ret' = <<x - y>>
          BY <1>1, <2>1, <2>5 DEF StrCmp, Return
        <4>2. x - y = 0
          BY <2>5
        <4> QED BY <4>1, <4>2
      <3>2. i = n - 1
        <4>1. i <= Length(old, job.d) /\ i <= Length(old, job.s)
          BY <1>1, <2>2, <2>3
        <4>2. i \notin 0 .. Length(old, job.d) - 1 /\ i \notin 0 .. Length(old, job.s) - 1
          BY <2>2, <2>5
        <4>3. i = Length(old, job.d) /\ i = Length(old, job.s)
          BY <1>1, <2>2, <4>1, <4>2
        <4> QED BY <2>2, <4>3
      <3>3. \A k \in 0 .. n - 1 : old[job.d + k] = old[job.s + k]
        <4>1. \A k \in 0 .. n - 1 : k \in 0 .. i - 1 \/ k = i
          BY <1>1, <1>3, <3>2
        <4> QED BY <1>1, <2>5, <4>1
      <3>4. ~Before(old, job.d, job.s, n) /\ ~Before(old, job.s, job.d, n)
        BY <1>6, <3>3
      <3> QED BY <1>7, <3>1, <3>4
    <2>6. CASE x = y /\ x # 0
      <3>1. mem' = mem /\ i' = i + 1 /\ ret' = ret
        BY <1>1, <2>1, <2>6 DEF StrCmp, Advance
      <3>2. i # Length(old, job.d) /\ i # Length(old, job.s)
        BY <2>2, <2>6
      <3>3. i + 1 < n
        BY <1>1, <2>2, <2>3, <3>2
      <3> QED BY <1>8, <1>10, <2>6, <3>1, <3>3
    <2> QED BY <2>4, <2>5, <2>6
  <1> QED BY <1>9, <1>10

(* A turn of any of the functions.                                         *)
LEMMA StepString == StringInv /\ [StringNext]_svars => StringInv'
  <1> SUFFICES ASSUME StringInv, [StringNext]_svars PROVE StringInv'
    OBVIOUS
  <1>1. CASE StringNext
    BY <1>1, StepCall, StepCopy, StepFill, StepStrCpy, StepStrLen, StepCompare, StepStrChr DEF StringInv
  <1>2. CASE UNCHANGED svars
    BY <1>2 DEF svars, StringInv, CallInv, CopyInv, FillInv, StrCpyInv, StrLenInv, CompareInv,
                CompareSpan, StrChrInv, Matching
  <1> QED BY <1>1, <1>2

(* A call that has returned has done and answered what it should.          *)
LEMMA StringDone == StringInv => CopiesCorrect /\ AnswersCorrect
  <1> SUFFICES ASSUME StringInv PROVE CopiesCorrect /\ AnswersCorrect
    OBVIOUS
  <1>1. CopiesCorrect
    <2>1. Returned("memcpy") => mem = Moved(old, job.d, job.s, job.n)
      BY DEF StringInv, CopyInv, Returned
    <2>2. Returned("memset") => mem = Filled(old, job.d, job.n, job.c)
      BY DEF StringInv, FillInv, Returned
    <2>3. Returned("strcpy") => mem = Moved(old, job.d, job.s, Length(old, job.s) + 1)
      BY DEF StringInv, StrCpyInv, Returned
    <2> QED BY <2>1, <2>2, <2>3 DEF CopiesCorrect, Filled
  <1>2. AnswersCorrect
    <2>1. Returned("strcmp") \/ Returned("memcmp") =>
            /\ ret[1] < 0 <=> Before(old, job.d, job.s, CompareSpan)
            /\ ret[1] > 0 <=> Before(old, job.s, job.d, CompareSpan)
      BY DEF StringInv, CompareInv, Returned
    <2>2. Returned("strlen") => ret[1] = Length(old, job.s)
      BY DEF StringInv, StrLenInv, Returned
    <2>3. Returned("strchr") =>
            ret[1] = IF Matching = {} THEN NULL
                     ELSE job.s + CHOOSE k \in Matching : \A j \in Matching : k <= j
      BY DEF StringInv, StrChrInv, Returned
    <2> QED BY <2>1, <2>2, <2>3 DEF AnswersCorrect, CompareSpan, Matching
  <1> QED BY <1>1, <1>2

(* memcpy, memset and strcpy leave every byte they were asked to, and no   *)
(* other, changed (ministring.c:7-21).                                     *)
THEOREM CopiesAreCorrect == StringSpec => []CopiesCorrect
  BY InitString, StepString, StringDone, PTL DEF StringSpec

(* Comparisons and searches answer as the C library promises, for every    *)
(* memory and every call with its terminators (ministring.c:3-6,24-37,     *)
(* 55-58).                                                                 *)
THEOREM AnswersAreCorrect == StringSpec => []AnswersCorrect
  BY InitString, StepString, StringDone, PTL DEF StringSpec
-----------------------------------------------------------------------------
(* The time reported.                                                      *)

(* mcycle has gone on by took when the second reading is made.             *)
BoardInv ==
  /\ mcycle \in Word /\ start_cyc \in Word /\ stop_cyc \in Word
  /\ phase \in {"stop", "verify", "report", "exit"} => took \in Word
  /\ phase = "benchmark" => mcycle = start_cyc
  /\ phase = "stop" => mcycle = Add(start_cyc, took)
  /\ phase \in {"verify", "report", "exit"} => stop_cyc = Add(start_cyc, took)

(* Before the first reading.                                               *)
LEMMA InitBoard == BoardInit \/ BoardIdle => BoardInv
  BY SmallWords, BoardAssumption DEF BoardInit, BoardIdle, Ready, BoardInv

(* Every step of a timed run keeps it.                                     *)
LEMMA StepBoard == BoardInv /\ [BoardNext]_bvars => BoardInv'
  <1> SUFFICES ASSUME BoardInv, [BoardNext]_bvars PROVE BoardInv'
    OBVIOUS
  <1>1. \A k \in RunLengths : k \in Word /\ Add(mcycle, k) \in Word
    <2> TAKE k \in RunLengths
    <2>1. k \in Word /\ k \in Int /\ mcycle \in Int
      BY SmallWords, BoardAssumption DEF BoardInv
    <2> QED BY <2>1, ArithmeticType
  <1>2. CASE StartTrigger
    BY <1>2 DEF StartTrigger, BoardInv
  <1>3. CASE StopTrigger
    BY <1>3 DEF StopTrigger, BoardInv
  <1>4. CASE Exit
    BY <1>4 DEF Exit, BoardInv
  <1>5. ASSUME NEW k \in RunLengths, Benchmark(k) PROVE BoardInv'
    <2>1. mcycle = start_cyc
      BY <1>5 DEF Benchmark, BoardInv
    <2> QED BY <1>1, <1>5, <2>1 DEF Benchmark, BoardInv
  <1>6. ASSUME NEW ok \in BOOLEAN, NEW k \in RunLengths, Verify(ok, k) PROVE BoardInv'
    BY <1>1, <1>6 DEF Verify, BoardInv
  <1>7. CASE UNCHANGED bvars
    BY <1>7 DEF bvars, BoardInv
  <1> QED BY <1>2, <1>3, <1>4, <1>5, <1>6, <1>7 DEF BoardNext

(* The wrap of the sum and the wrap of the difference cancel.              *)
LEMMA DifferenceOfSum ==
  ASSUME NEW s \in Word, NEW k \in Word
  PROVE  Sub(Add(s, k), s) = k
  <1>1. /\ WordMod \in Nat /\ WordMod > 0 /\ s \in Nat /\ k \in Nat
        /\ s < WordMod /\ k < WordMod
    BY WordHalves DEF Word
  <1>2. CASE s + k < WordMod
    <2>1. Add(s, k) = s + k
      BY <1>1, <1>2 DEF Add
    <2> QED BY <1>1, <2>1 DEF Sub
  <1>3. CASE s + k >= WordMod
    <2>1. s + k = WordMod * 1 + (s + k - WordMod) /\ s + k - WordMod \in 0 .. WordMod - 1
      BY <1>1, <1>3
    <2>2. Add(s, k) = s + k - WordMod
      BY <1>1, <2>1, DivModUnique DEF Add
    <2>3. (s + k - WordMod) - s = k - WordMod
      BY <1>1
    <2>4. k - WordMod = WordMod * (-1) + k /\ k \in 0 .. WordMod - 1
      BY <1>1
    <2>5. (k - WordMod) % WordMod = k
      BY <1>1, <2>4, DivModUnique
    <2> QED BY <2>2, <2>3, <2>5 DEF Sub
  <1> QED BY <1>1, <1>2, <1>3

(* The difference of the readings is the time taken.                       *)
LEMMA TimeDone == BoardInv => TimeReported
  <1> SUFFICES ASSUME BoardInv, phase = "exit" PROVE TimeReported
    BY DEF TimeReported
  <1>1. Elapsed = took /\ took \in Word
    BY DifferenceOfSum DEF BoardInv, Elapsed
  <1>2. ~(took < 0)
    BY <1>1, SmallWords
  <1>3. PrintUint(Elapsed) = TextOf(took)
    BY <1>1, <1>2 DEF TextOf
  <1>4. took < HalfMod => PrintInt(Elapsed) = TextOf(took)
    <2> SUFFICES ASSUME took < HalfMod PROVE PrintInt(Elapsed) = TextOf(took)
      OBVIOUS
    <2>1. Signed(took) = took
      BY <1>1, SmallWords, WordHalves DEF Signed
    <2> QED BY <1>1, <1>2, <1>3, <2>1 DEF PrintInt
  <1> QED BY <1>3, <1>4 DEF TimeReported
-----------------------------------------------------------------------------
(* The scanner of ee_printf.                                               *)

ScanInv == call.fmt \in Seq(STRING) /\ at \in 1 .. Len(call.fmt) + 1

(* Only at the end is NUL read, so a step over any other character stays   *)
(* in the format.                                                          *)
LEMMA CharInside ==
  ASSUME call.fmt \in Seq(STRING), NEW k \in Nat, CharAt(k) # NUL
  PROVE  k <= Len(call.fmt)
  BY DEF CharAt, CharIn

(* A run of characters that are not NUL ends where the format does, at the *)
(* latest.                                                                 *)
LEMMA RunEnds ==
  ASSUME NEW fmt \in Seq(STRING), NEW C, NUL \notin C, NEW k \in 1 .. Len(fmt) + 1
  PROVE  /\ RunEnd(fmt, C, k) \in k .. Len(fmt) + 1
         /\ CharIn(fmt, RunEnd(fmt, C, k)) \notin C
         /\ \A j \in k .. RunEnd(fmt, C, k) - 1 : CharIn(fmt, j) \in C
  <1> DEFINE S == {e \in k .. Len(fmt) + 1 : CharIn(fmt, e) \notin C}
  <1>1. Len(fmt) \in Nat
    OBVIOUS
  <1>2. Len(fmt) + 1 \in S
    <2>1. CharIn(fmt, Len(fmt) + 1) = NUL
      BY <1>1 DEF CharIn
    <2> QED BY <1>1, <2>1
  <1>3. PICK e \in S : \A x \in S : e <= x
    <2>1. S \subseteq Nat /\ S # {}
      BY <1>1, <1>2
    <2> QED BY <2>1, LeastNatural
  <1>4. \A j \in k .. e - 1 : CharIn(fmt, j) \in C
    <2> SUFFICES ASSUME NEW j \in k .. e - 1, CharIn(fmt, j) \notin C PROVE FALSE
      OBVIOUS
    <2>1. j \in S /\ j < e
      BY <1>1
    <2> QED BY <1>1, <1>3, <2>1
  <1>5. e \in k .. Len(fmt) + 1 /\ CharIn(fmt, e) \notin C
    BY <1>3
  <1>6. \E x \in k .. Len(fmt) + 1 :
          CharIn(fmt, x) \notin C /\ \A j \in k .. x - 1 : CharIn(fmt, j) \in C
    BY <1>4, <1>5
  <1> QED BY <1>6 DEF RunEnd

(* skip_atoi stops at the end of the format at the latest.                 *)
LEMMA DigitsEndInside ==
  ASSUME call.fmt \in Seq(STRING), NEW k \in 1 .. Len(call.fmt) + 1
  PROVE  DigitsEnd(k) \in k .. Len(call.fmt) + 1
  <1>1. NUL \notin Digit
    BY DEF NUL, Digit
  <1> QED BY <1>1, RunEnds DEF DigitsEnd

(* The scanner begins at the first character.                              *)
LEMMA InitScan == EeInit \/ PrintIdle => ScanInv
  <1>1. ASSUME EeInit PROVE ScanInv
    <2>1. call.fmt \in Seq(STRING) /\ at = 1
      BY <1>1, CallsAssumption DEF EeInit, EeReady
    <2> QED BY <2>1 DEF ScanInv
  <1>2. ASSUME PrintIdle PROVE ScanInv
    <2>1. call.fmt = <<>> /\ at = 1
      BY <1>2 DEF PrintIdle, EeReady
    <2> QED BY <2>1 DEF ScanInv
  <1> QED BY <1>1, <1>2

(* One case for each place a directive may break off.                      *)
LEMMA StepScan == ScanInv /\ [PNext]_pvars => ScanInv'
  <1> SUFFICES ASSUME ScanInv, [PNext]_pvars PROVE ScanInv'
    OBVIOUS
  <1> DEFINE n == Len(call.fmt)
  <1>1. call.fmt \in Seq(STRING) /\ n \in Nat /\ at \in Nat /\ at \in 1 .. n + 1
    BY DEF ScanInv
  <1>2. ASSUME call' = call, at' \in 1 .. n + 1 PROVE ScanInv'
    BY <1>1, <1>2 DEF ScanInv
  <1>3. CASE EeNext
    <2>1. CASE Literal \/ Percent \/ Flag
      <3>1. call' = call /\ at' = at + 1
        BY <2>1 DEF Literal, Percent, Flag
      <3>2. Char # NUL
        BY <2>1 DEF Literal, Percent, Flag, FlagOf, NUL
      <3>3. at <= n
        BY <1>1, <3>2, CharInside DEF Char
      <3> QED BY <1>1, <1>2, <3>1, <3>3
    <2>2. CASE FieldWidth
      <3>1. call' = call
        BY <2>2 DEF FieldWidth
      <3>2. CASE at' = DigitsEnd(at)
        BY <1>1, <1>2, <3>1, <3>2, DigitsEndInside
      <3>3. CASE Char = "*" /\ at' = at + 1
        <4>1. at <= n
          BY <1>1, <3>3, CharInside DEF Char, NUL
        <4> QED BY <1>1, <1>2, <3>1, <3>3, <4>1
      <3>4. CASE at' = at
        BY <1>1, <1>2, <3>1, <3>4
      <3> QED BY <2>2, <3>2, <3>3, <3>4 DEF FieldWidth
    <2>3. CASE Precision
      <3>1. call' = call
        BY <2>3 DEF Precision
      <3>2. Char = "." => at <= n
        BY <1>1, CharInside DEF Char, NUL
      <3>3. CASE at' = at
        BY <1>1, <1>2, <3>1, <3>3
      <3>4. CASE Char = "." /\ at' = DigitsEnd(at + 1)
        <4>1. at + 1 \in 1 .. n + 1
          BY <1>1, <3>2, <3>4
        <4>2. DigitsEnd(at + 1) \in at + 1 .. n + 1
          BY <1>1, <4>1, DigitsEndInside
        <4> QED BY <1>1, <1>2, <3>1, <3>4, <4>2
      <3>5. CASE CharAt(at + 1) = "*" /\ at' = at + 2
        <4>1. at + 1 <= n
          <5>1. at + 1 \in Nat
            BY <1>1
          <5>2. CharAt(at + 1) # NUL
            BY <3>5 DEF NUL
          <5> QED BY <1>1, <5>1, <5>2, CharInside
        <4> QED BY <1>1, <1>2, <3>1, <3>5, <4>1
      <3>6. CASE Char = "." /\ at' = at + 1
        BY <1>1, <1>2, <3>1, <3>2, <3>6
      <3> QED BY <2>3, <3>3, <3>4, <3>5, <3>6 DEF Precision
    <2>4. CASE Qualifier
      <3>1. call' = call /\ (at' = at \/ (Char # NUL /\ at' = at + 1))
        BY <2>4 DEF Qualifier, NUL
      <3>2. Char # NUL => at <= n
        BY <1>1, CharInside DEF Char
      <3> QED BY <1>1, <1>2, <3>1, <3>2
    <2>5. CASE Convert \/ Unknown
      <3>1. call' = call /\ (at' = at \/ (Char # NUL /\ at' = at + 1))
        BY <2>5 DEF Convert, Unknown, Takes, NUL
      <3>2. Char # NUL => at <= n
        BY <1>1, CharInside DEF Char
      <3> QED BY <1>1, <1>2, <3>1, <3>2
    <2>6. CASE EndOfFormat \/ SendChar \/ Sent
      <3>1. call' = call /\ at' = at
        BY <2>6 DEF EndOfFormat, SendChar, Sent
      <3> QED BY <1>1, <1>2, <3>1
    <2> QED BY <1>3, <2>1, <2>2, <2>3, <2>4, <2>5, <2>6 DEF EeNext
  <1>4. CASE call' = call /\ at' = at
    BY <1>1, <1>2, <1>4
  <1> QED BY <1>3, <1>4 DEF PNext, EeTurn, MiniTurn, pvars, eevars

-----------------------------------------------------------------------------
(* The arguments of a printf call.                                         *)

(* The arguments that stand in the format ahead of the place k.            *)
Ahead(A, k) == {x \in A : x < k}

(* The scanner is where its stage says, in the directive at k.             *)
Scanning(k) ==
  /\ CharIn(call.fmt, k) = "%"
  /\ \/ stage = "flags" /\ at > k /\ RunEnd(call.fmt, DOMAIN FlagOf, at) = WidthAt(call.fmt, k)
     \/ stage = "precision" /\ at = PointAt(call.fmt, k)
     \/ stage = "qualifier" /\ at = QualifierAt(call.fmt, k)
     \/ stage = "convert" /\ at = LetterAt(call.fmt, k)

(* It has taken the arguments that stand ahead of it.                      *)
InStep(T) ==
  /\ T \subseteq 1 .. Len(call.fmt) + 1 /\ Pieces(call.fmt, T)
  /\ Cardinality(ArgumentsIn(call.fmt, T)) = Len(call.args)
  /\ used = Cardinality(Ahead(ArgumentsIn(call.fmt, T), at))
  /\ \/ stage = "text" /\ at \in T
     \/ \E k \in T : Scanning(k)
     \/ /\ stage \in {"send", "sent"}
        /\ Ahead(ArgumentsIn(call.fmt, T), at) = ArgumentsIn(call.fmt, T)

ArgsInv == \E T : InStep(T)

(* A run that does not begin is empty; one character more does not move    *)
(* its end.                                                                *)
LEMMA RunSteps ==
  ASSUME NEW fmt \in Seq(STRING), NEW C, NUL \notin C, NEW k \in 1 .. Len(fmt) + 1
  PROVE  /\ CharIn(fmt, k) \notin C => RunEnd(fmt, C, k) = k
         /\ CharIn(fmt, k) \in C => k <= Len(fmt) /\ RunEnd(fmt, C, k + 1) = RunEnd(fmt, C, k)
  <1> DEFINE e == RunEnd(fmt, C, k)
             d == RunEnd(fmt, C, k + 1)
  <1>0. Len(fmt) \in Nat
    OBVIOUS
  <1>1. /\ e \in k .. Len(fmt) + 1
        /\ CharIn(fmt, e) \notin C
        /\ \A j \in k .. e - 1 : CharIn(fmt, j) \in C
    BY RunEnds
  <1>2. ASSUME CharIn(fmt, k) \notin C PROVE e = k
    BY <1>0, <1>1, <1>2
  <1>3. ASSUME CharIn(fmt, k) \in C PROVE k <= Len(fmt) /\ d = e
    <2>1. k <= Len(fmt)
      BY <1>0, <1>3 DEF CharIn
    <2>2. /\ d \in k + 1 .. Len(fmt) + 1
          /\ CharIn(fmt, d) \notin C
          /\ \A j \in k + 1 .. d - 1 : CharIn(fmt, j) \in C
      <3>1. k + 1 \in 1 .. Len(fmt) + 1
        BY <1>0, <2>1
      <3> QED BY <3>1, RunEnds
    <2>3. e # k
      BY <1>1, <1>3
    <2> HIDE DEF e, d
    <2>4. ~(d < e)
      BY <1>0, <1>1, <2>2
    <2>5. ~(e < d)
      <3> SUFFICES ASSUME e < d PROVE FALSE
        OBVIOUS
      <3>1. e \in k + 1 .. d - 1
        BY <1>0, <1>1, <2>2, <2>3
      <3> QED BY <1>1, <2>2, <3>1
    <2> QED BY <1>0, <1>1, <2>1, <2>2, <2>4, <2>5
  <1> QED BY <1>2, <1>3

(* Where the number of a width or of a precision ends.                     *)
LEMMA NumberEnds ==
  ASSUME NEW fmt \in Seq(STRING), NEW k \in 1 .. Len(fmt) + 1
  PROVE  /\ NumberEnd(fmt, k) \in k .. Len(fmt) + 1
         /\ CharIn(fmt, k) = "*" => k <= Len(fmt) /\ NumberEnd(fmt, k) = k + 1
         /\ CharIn(fmt, k) \in Digit => NumberEnd(fmt, k) = RunEnd(fmt, Digit, k)
         /\ CharIn(fmt, k) \notin Digit \cup {"*"} => NumberEnd(fmt, k) = k
  <1>1. NUL \notin Digit /\ "*" \notin Digit /\ NUL # "*"
    BY DEF NUL, Digit
  <1>2. Len(fmt) \in Nat
    OBVIOUS
  <1>3. CharIn(fmt, k) = "*" => k <= Len(fmt)
    BY <1>1, <1>2 DEF CharIn
  <1>4. RunEnd(fmt, Digit, k) \in k .. Len(fmt) + 1
    BY <1>1, RunEnds
  <1>5. CharIn(fmt, k) \notin Digit => RunEnd(fmt, Digit, k) = k
    BY <1>1, RunSteps
  <1> QED BY <1>1, <1>2, <1>3, <1>4, <1>5 DEF NumberEnd

(* The places of a directive follow one another, and those of its          *)
(* arguments lie between them.                                             *)
LEMMA DirectivePlaces ==
  ASSUME NEW fmt \in Seq(STRING), NEW k \in 1 .. Len(fmt) + 1, CharIn(fmt, k) = "%"
  PROVE  /\ k <= Len(fmt)
         /\ WidthAt(fmt, k) \in k + 1 .. Len(fmt) + 1
         /\ PointAt(fmt, k) \in WidthAt(fmt, k) .. Len(fmt) + 1
         /\ QualifierAt(fmt, k) \in PointAt(fmt, k) .. Len(fmt) + 1
         /\ LetterAt(fmt, k) \in QualifierAt(fmt, k) .. Len(fmt) + 1
         /\ CharIn(fmt, WidthAt(fmt, k)) = "*" => PointAt(fmt, k) = WidthAt(fmt, k) + 1
         /\ CharIn(fmt, PointAt(fmt, k)) = "." =>
              /\ PointAt(fmt, k) <= Len(fmt)
              /\ QualifierAt(fmt, k) = NumberEnd(fmt, PointAt(fmt, k) + 1)
              /\ QualifierAt(fmt, k) \in PointAt(fmt, k) + 1 .. Len(fmt) + 1
              /\ CharIn(fmt, PointAt(fmt, k) + 1) = "*" =>
                   QualifierAt(fmt, k) = PointAt(fmt, k) + 2
         /\ CharIn(fmt, PointAt(fmt, k)) # "." => QualifierAt(fmt, k) = PointAt(fmt, k)
         /\ PieceEnd(fmt, k) \in LetterAt(fmt, k) .. LetterAt(fmt, k) + 1
         /\ CharIn(fmt, LetterAt(fmt, k)) # NUL => PieceEnd(fmt, k) = LetterAt(fmt, k) + 1
         /\ CharIn(fmt, LetterAt(fmt, k)) = NUL => PieceEnd(fmt, k) = LetterAt(fmt, k)
  <1> DEFINE w == WidthAt(fmt, k)
             p == PointAt(fmt, k)
             q == QualifierAt(fmt, k)
             c == LetterAt(fmt, k)
  <1>0. /\ Len(fmt) \in Nat
        /\ NUL \notin DOMAIN FlagOf /\ NUL \notin {"%", ".", "l", "L"}
    BY DEF NUL, FlagOf
  <1>1. \A j \in Nat : CharIn(fmt, j) \in {"%", ".", "l", "L"} => j <= Len(fmt)
    BY <1>0 DEF CharIn
  <1>2. k <= Len(fmt) /\ k + 1 \in 1 .. Len(fmt) + 1
    BY <1>0, <1>1
  <1>3. w \in k + 1 .. Len(fmt) + 1
    BY <1>0, <1>2, RunEnds DEF WidthAt
  <1>4. w \in 1 .. Len(fmt) + 1
    BY <1>0, <1>2, <1>3
  <1>5. p = NumberEnd(fmt, w) /\ p \in w .. Len(fmt) + 1 /\ (CharIn(fmt, w) = "*" => p = w + 1)
    BY <1>4, NumberEnds DEF PointAt
  <1>6. p \in 1 .. Len(fmt) + 1
    BY <1>0, <1>4, <1>5
  <1>7. ASSUME CharIn(fmt, p) = "."
        PROVE  /\ p <= Len(fmt)
               /\ q = NumberEnd(fmt, p + 1)
               /\ q \in p + 1 .. Len(fmt) + 1
               /\ CharIn(fmt, p + 1) = "*" => q = p + 2
    <2>1. p <= Len(fmt) /\ p + 1 \in 1 .. Len(fmt) + 1
      BY <1>0, <1>1, <1>6, <1>7
    <2>2. q = NumberEnd(fmt, p + 1)
      BY <1>7 DEF QualifierAt
    <2> HIDE DEF p, q
    <2>3. q \in p + 1 .. Len(fmt) + 1 /\ (CharIn(fmt, p + 1) = "*" => q = p + 1 + 1)
      BY <2>1, <2>2, NumberEnds
    <2> QED BY <1>0, <1>6, <2>1, <2>2, <2>3
  <1>8. CharIn(fmt, p) # "." => q = p
    BY DEF QualifierAt
  <1>9. q \in p .. Len(fmt) + 1
    <2> HIDE DEF p, q
    <2> QED BY <1>0, <1>6, <1>7, <1>8
  <1>10. c \in q .. Len(fmt) + 1
    <2>1. c = IF CharIn(fmt, q) \in {"l", "L"} THEN q + 1 ELSE q
      BY DEF LetterAt
    <2> HIDE DEF c, q, p
    <2> QED BY <1>0, <1>1, <1>6, <1>9, <2>1
  <1>11. PieceEnd(fmt, k) = IF CharIn(fmt, c) = NUL THEN c ELSE c + 1
    BY DEF PieceEnd
  <1>12. PieceEnd(fmt, k) \in c .. c + 1
    <2> HIDE DEF c, q, p
    <2> QED BY <1>0, <1>6, <1>9, <1>10, <1>11
  <1> QED BY <1>2, <1>3, <1>5, <1>7, <1>8, <1>9, <1>10, <1>11, <1>12

(* The arguments of a directive stand behind its % and ahead of its end.   *)
LEMMA ArgsInside ==
  ASSUME NEW fmt \in Seq(STRING), NEW k \in 1 .. Len(fmt) + 1, CharIn(fmt, k) = "%",
         NEW x \in DirectiveArgs(fmt, k)
  PROVE  x \in k + 1 .. PieceEnd(fmt, k) - 1
  <1> DEFINE w == WidthAt(fmt, k)
             p == PointAt(fmt, k)
             q == QualifierAt(fmt, k)
             c == LetterAt(fmt, k)
             e == PieceEnd(fmt, k)
  <1>0. Len(fmt) \in Nat
    OBVIOUS
  <1>1. /\ w \in k + 1 .. Len(fmt) + 1 /\ p \in w .. Len(fmt) + 1
        /\ q \in p .. Len(fmt) + 1 /\ c \in q .. Len(fmt) + 1 /\ e \in c .. c + 1
    BY DirectivePlaces
  <1>2. /\ CharIn(fmt, w) = "*" => p = w + 1
        /\ CharIn(fmt, p) = "." /\ CharIn(fmt, p + 1) = "*" => q = p + 2
        /\ CharIn(fmt, c) # NUL => e = c + 1
    BY DirectivePlaces
  <1>3. \/ x = w /\ CharIn(fmt, x) = "*"
        \/ x = p + 1 /\ CharIn(fmt, p) = "." /\ CharIn(fmt, x) = "*"
        \/ x = c /\ CharIn(fmt, x) # NUL
    BY DEF DirectiveArgs, Stars, Takes, NUL
  <1>4. k \in Int
    BY <1>0
  <1> SUFFICES x \in k + 1 .. e - 1
    OBVIOUS
  <1> HIDE DEF w, p, q, c, e
  <1>5. CASE x = w /\ CharIn(fmt, x) = "*"
    BY <1>0, <1>1, <1>2, <1>4, <1>5
  <1>6. CASE x = p + 1 /\ CharIn(fmt, p) = "." /\ CharIn(fmt, x) = "*"
    <2>1. q = p + 2
      BY <1>2, <1>6
    <2> QED BY <1>0, <1>1, <1>4, <1>6, <2>1
  <1>7. CASE x = c /\ CharIn(fmt, x) # NUL
    <2>1. e = c + 1
      BY <1>2, <1>7
    <2> QED BY <1>0, <1>1, <1>4, <1>7, <2>1
  <1> QED BY <1>3, <1>5, <1>6, <1>7

(* What comes next in a piece of the format is an argument of this piece.  *)
LEMMA OwnArgs ==
  ASSUME NEW fmt \in Seq(STRING), NEW T, T \subseteq 1 .. Len(fmt) + 1, Pieces(fmt, T),
         NEW k \in T, CharIn(fmt, k) # NUL,
         NEW x \in ArgumentsIn(fmt, T), k <= x, x < PieceEnd(fmt, k)
  PROVE  CharIn(fmt, k) = "%" /\ x \in DirectiveArgs(fmt, k)
  <1>0. Len(fmt) \in Nat
    OBVIOUS
  <1>p. NUL # "%"
    BY DEF NUL
  <1>1. PICK j \in T : CharIn(fmt, j) = "%" /\ x \in DirectiveArgs(fmt, j)
    BY DEF ArgumentsIn
  <1>2. j \in Int /\ k \in Int
    BY <1>0
  <1>3. x \in j + 1 .. PieceEnd(fmt, j) - 1
    BY <1>1, ArgsInside
  <1>4. k \notin j + 1 .. PieceEnd(fmt, j) - 1 /\ j \notin k + 1 .. PieceEnd(fmt, k) - 1
    BY <1>p, <1>1 DEF Pieces
  <1>5. PieceEnd(fmt, j) \in Int /\ PieceEnd(fmt, k) \in Int
    <2>1. PieceEnd(fmt, j) \in T /\ PieceEnd(fmt, k) \in T
      BY <1>p, <1>1 DEF Pieces
    <2>2. \A y \in T : y \in Int
      BY <1>0
    <2> QED BY <2>1, <2>2
  <1>6. j = k
    BY <1>2, <1>3, <1>4, <1>5
  <1> QED BY <1>1, <1>6

(* The arguments are finitely many places of the format.                   *)
LEMMA ArgsFinite ==
  ASSUME NEW fmt \in Seq(STRING), NEW T, T \subseteq 1 .. Len(fmt) + 1, Pieces(fmt, T)
  PROVE  /\ ArgumentsIn(fmt, T) \subseteq 1 .. Len(fmt) + 1
         /\ IsFiniteSet(ArgumentsIn(fmt, T))
         /\ \A k : /\ Cardinality(Ahead(ArgumentsIn(fmt, T), k)) \in Nat
                   /\ Cardinality(Ahead(ArgumentsIn(fmt, T), k)) <= Cardinality(ArgumentsIn(fmt, T))
  <1> DEFINE A == ArgumentsIn(fmt, T)
  <1>0. Len(fmt) \in Nat
    OBVIOUS
  <1>1. ASSUME NEW x \in A PROVE x \in 1 .. Len(fmt) + 1
    <2>1. PICK j \in T : CharIn(fmt, j) = "%" /\ x \in DirectiveArgs(fmt, j)
      BY DEF ArgumentsIn
    <2>2. x \in j + 1 .. PieceEnd(fmt, j) - 1
      BY <2>1, ArgsInside
    <2>3. PieceEnd(fmt, j) \in T
      BY <2>1 DEF Pieces, NUL
    <2>4. j \in 1 .. Len(fmt) + 1 /\ PieceEnd(fmt, j) \in 1 .. Len(fmt) + 1
      BY <2>3
    <2> QED BY <1>0, <2>2, <2>4
  <1>2. IsFiniteSet(A)
    <2>1. IsFiniteSet(1 .. Len(fmt) + 1)
      BY <1>0, FS_Interval
    <2> QED BY <1>1, <2>1, FS_Subset
  <1>3. ASSUME NEW k PROVE Cardinality(Ahead(A, k)) \in Nat /\ Cardinality(Ahead(A, k)) <= Cardinality(A)
    <2>1. Ahead(A, k) \subseteq A
      BY DEF Ahead
    <2> HIDE DEF A
    <2> QED BY <1>2, <2>1, FS_Subset, FS_CardinalityType
  <1> QED BY <1>1, <1>2, <1>3

(* Going on from one place to another takes the argument between them, or  *)
(* none.                                                                   *)
LEMMA AheadMoves ==
  ASSUME NEW A, A \subseteq Nat, IsFiniteSet(A), NEW a \in Nat, NEW b \in Nat, a <= b
  PROVE  /\ (\A x \in A : ~(a <= x /\ x < b)) => Ahead(A, b) = Ahead(A, a)
         /\ \A y \in A : (a <= y /\ y < b) /\ (\A x \in A : a <= x /\ x < b => x = y) =>
              Cardinality(Ahead(A, b)) = Cardinality(Ahead(A, a)) + 1
  <1>1. ASSUME \A x \in A : ~(a <= x /\ x < b) PROVE Ahead(A, b) = Ahead(A, a)
    <2>1. \A x \in A : x < b <=> x < a
      BY <1>1
    <2> QED BY <2>1 DEF Ahead
  <1>2. ASSUME NEW y \in A, a <= y, y < b, \A x \in A : a <= x /\ x < b => x = y
        PROVE  Cardinality(Ahead(A, b)) = Cardinality(Ahead(A, a)) + 1
    <2>1. Ahead(A, b) = Ahead(A, a) \cup {y} /\ y \notin Ahead(A, a)
      <3>1. \A x \in A : x < b <=> (x < a \/ x = y)
        BY <1>2
      <3>2. ~(y < a)
        BY <1>2
      <3> QED BY <3>1, <3>2 DEF Ahead
    <2>2. IsFiniteSet(Ahead(A, a))
      BY FS_Subset DEF Ahead
    <2> QED BY <2>1, <2>2, FS_AddElement
  <1> QED BY <1>1, <1>2

(* In step with its arguments the scanner uses no more than there are, and *)
(* at the end all.                                                         *)
LEMMA InStepDone == ScanInv /\ ArgsInv => ArgumentsUsedUp
  <1> SUFFICES ASSUME ScanInv, ArgsInv PROVE ArgumentsUsedUp
    OBVIOUS
  <1>1. PICK T : InStep(T)
    BY DEF ArgsInv
  <1>2. call.fmt \in Seq(STRING)
    BY DEF ScanInv
  <1>3. used <= Len(call.args)
    BY <1>1, <1>2, ArgsFinite DEF InStep
  <1>4. stage = "sent" => used = Len(call.args)
    BY <1>1 DEF InStep, Scanning
  <1> QED BY <1>3, <1>4 DEF ArgumentsUsedUp

(* At the call.                                                            *)
LEMMA InitArgs == ArgumentsMatch => (EeInit \/ PrintIdle => ArgsInv)
  <1> SUFFICES ASSUME ArgumentsMatch, EeInit \/ PrintIdle PROVE ArgsInv
    OBVIOUS
  <1>1. stage = "text" /\ at = 1 /\ used = 0
    BY DEF EeInit, PrintIdle, EeReady
  <1>2. PICK T \in SUBSET (1 .. Len(call.fmt) + 1) :
          Pieces(call.fmt, T) /\ Cardinality(ArgumentsIn(call.fmt, T)) = Len(call.args)
    <2>1. CASE EeInit
      BY <2>1 DEF EeInit, ArgumentsMatch, Matched
    <2>2. CASE PrintIdle
      <3>1. call.fmt = <<>> /\ call.args = <<>>
        BY <2>2 DEF PrintIdle
      <3>2. CharIn(call.fmt, 1) = NUL
        BY <3>1 DEF CharIn
      <3>3. Pieces(call.fmt, {1})
        BY <3>2 DEF Pieces
      <3>4. ArgumentsIn(call.fmt, {1}) = {}
        BY <3>2 DEF ArgumentsIn, NUL
      <3>5. Cardinality(ArgumentsIn(call.fmt, {1})) = Len(call.args)
        BY <3>1, <3>4, FS_EmptySet
      <3>6. {1} \in SUBSET (1 .. Len(call.fmt) + 1)
        BY <3>1
      <3> QED BY <3>3, <3>5, <3>6
    <2> QED BY <2>1, <2>2
  <1>3. call.fmt \in Seq(STRING)
    BY InitScan DEF ScanInv
  <1>4. Ahead(ArgumentsIn(call.fmt, T), 1) = {}
    <2>1. ArgumentsIn(call.fmt, T) \subseteq 1 .. Len(call.fmt) + 1
      BY <1>2, <1>3, ArgsFinite
    <2>2. \A x \in 1 .. Len(call.fmt) + 1 : ~(x < 1)
      BY <1>3
    <2> QED BY <2>1, <2>2 DEF Ahead
  <1>5. 1 \in T
    BY <1>2 DEF Pieces
  <1>6. InStep(T)
    BY <1>1, <1>2, <1>4, <1>5, FS_EmptySet DEF InStep
  <1> QED BY <1>6 DEF ArgsInv

(* From a to b in one piece of the format only its own arguments come.     *)
LEMMA OnlyOwnArgs ==
  ASSUME NEW fmt \in Seq(STRING), NEW T, T \subseteq 1 .. Len(fmt) + 1, Pieces(fmt, T),
         NEW k \in T, CharIn(fmt, k) # NUL,
         NEW a \in Nat, NEW b \in Nat, k <= a, b <= PieceEnd(fmt, k),
         NEW x \in ArgumentsIn(fmt, T), a <= x, x < b
  PROVE  CharIn(fmt, k) = "%" /\ x \in DirectiveArgs(fmt, k)
  <1>0. Len(fmt) \in Nat
    OBVIOUS
  <1>1. x \in Int
    <2>1. x \in 1 .. Len(fmt) + 1
      BY ArgsFinite
    <2> QED BY <1>0, <2>1
  <1>2. PieceEnd(fmt, k) \in Int /\ k \in Int
    <2>1. PieceEnd(fmt, k) \in T
      BY DEF Pieces
    <2>2. \A y \in T : y \in Int
      BY <1>0
    <2> QED BY <2>1, <2>2
  <1>3. k <= x /\ x < PieceEnd(fmt, k)
    BY <1>1, <1>2
  <1> QED BY <1>3, OwnArgs

WithinPiece(fmt, T, k, a, b) ==
  /\ fmt \in Seq(STRING) /\ T \subseteq 1 .. Len(fmt) + 1 /\ Pieces(fmt, T)
  /\ k \in T /\ CharIn(fmt, k) # NUL
  /\ a \in Nat /\ b \in Nat /\ k <= a /\ a <= b /\ b <= PieceEnd(fmt, k)

LEMMA NoArgPassed ==
  ASSUME NEW fmt, NEW T, NEW k, NEW a, NEW b, WithinPiece(fmt, T, k, a, b),
         CharIn(fmt, k) = "%" => \A x \in DirectiveArgs(fmt, k) : ~(a <= x /\ x < b)
  PROVE  Ahead(ArgumentsIn(fmt, T), b) = Ahead(ArgumentsIn(fmt, T), a)
  <1> DEFINE A == ArgumentsIn(fmt, T)
  <1>0. /\ fmt \in Seq(STRING) /\ T \subseteq 1 .. Len(fmt) + 1 /\ Pieces(fmt, T)
        /\ k \in T /\ CharIn(fmt, k) # NUL
        /\ a \in Nat /\ b \in Nat /\ k <= a /\ a <= b /\ b <= PieceEnd(fmt, k)
    BY DEF WithinPiece
  <1>1. A \subseteq Nat /\ IsFiniteSet(A)
    <2>1. A \subseteq 1 .. Len(fmt) + 1 /\ IsFiniteSet(A)
      BY <1>0, ArgsFinite
    <2> QED BY <1>0, <2>1
  <1>2. \A x \in A : ~(a <= x /\ x < b)
    BY <1>0, OnlyOwnArgs
  <1> HIDE DEF A
  <1>3. Ahead(A, b) = Ahead(A, a)
    BY <1>0, <1>1, <1>2, AheadMoves
  <1> QED BY <1>3 DEF A

LEMMA OneArgPassed ==
  ASSUME NEW fmt, NEW T, NEW k, NEW a, NEW b, WithinPiece(fmt, T, k, a, b), CharIn(fmt, k) = "%",
         NEW y \in DirectiveArgs(fmt, k), a <= y, y < b,
         \A x \in DirectiveArgs(fmt, k) : a <= x /\ x < b => x = y
  PROVE  Cardinality(Ahead(ArgumentsIn(fmt, T), b)) = Cardinality(Ahead(ArgumentsIn(fmt, T), a)) + 1
  <1> DEFINE A == ArgumentsIn(fmt, T)
  <1>0. /\ fmt \in Seq(STRING) /\ T \subseteq 1 .. Len(fmt) + 1 /\ Pieces(fmt, T)
        /\ k \in T /\ CharIn(fmt, k) # NUL
        /\ a \in Nat /\ b \in Nat /\ k <= a /\ a <= b /\ b <= PieceEnd(fmt, k)
    BY DEF WithinPiece
  <1>1. A \subseteq Nat /\ IsFiniteSet(A)
    <2>1. A \subseteq 1 .. Len(fmt) + 1 /\ IsFiniteSet(A)
      BY <1>0, ArgsFinite
    <2> QED BY <1>0, <2>1
  <1>2. y \in A
    BY <1>0 DEF ArgumentsIn
  <1>3. \A x \in A : a <= x /\ x < b => x = y
    BY <1>0, OnlyOwnArgs
  <1> HIDE DEF A
  <1>4. Cardinality(Ahead(A, b)) = Cardinality(Ahead(A, a)) + 1
    BY <1>0, <1>1, <1>2, <1>3, AheadMoves
  <1> QED BY <1>4 DEF A

(* The arguments between the places of a directive.                        *)
LEMMA ArgsBetween ==
  ASSUME NEW fmt \in Seq(STRING), NEW k \in 1 .. Len(fmt) + 1, CharIn(fmt, k) = "%",
         NEW x \in DirectiveArgs(fmt, k)
  PROVE  /\ x \in Int /\ WidthAt(fmt, k) <= x
         /\ PointAt(fmt, k) > x <=> x = WidthAt(fmt, k) /\ CharIn(fmt, x) = "*"
         /\ PointAt(fmt, k) <= x /\ x < QualifierAt(fmt, k) =>
              CharIn(fmt, PointAt(fmt, k)) = "." /\ x = PointAt(fmt, k) + 1 /\ CharIn(fmt, x) = "*"
         /\ QualifierAt(fmt, k) <= x => x = LetterAt(fmt, k) /\ CharIn(fmt, x) \in Takes
  <1> DEFINE w == WidthAt(fmt, k)
             p == PointAt(fmt, k)
             q == QualifierAt(fmt, k)
             c == LetterAt(fmt, k)
  <1>0. Len(fmt) \in Nat /\ k \in Int
    OBVIOUS
  <1>1. /\ w \in k + 1 .. Len(fmt) + 1 /\ p \in w .. Len(fmt) + 1
        /\ q \in p .. Len(fmt) + 1 /\ c \in q .. Len(fmt) + 1
    BY DirectivePlaces
  <1>2. /\ CharIn(fmt, w) = "*" => p = w + 1
        /\ CharIn(fmt, p) = "." /\ CharIn(fmt, p + 1) = "*" => q = p + 2
    BY DirectivePlaces
  <1>3. \/ x = w /\ CharIn(fmt, x) = "*"
        \/ x = p + 1 /\ CharIn(fmt, p) = "." /\ CharIn(fmt, x) = "*"
        \/ x = c /\ CharIn(fmt, x) \in Takes
    BY DEF DirectiveArgs, Stars
  <1> SUFFICES /\ x \in Int /\ w <= x
               /\ p > x <=> x = w /\ CharIn(fmt, x) = "*"
               /\ p <= x /\ x < q => CharIn(fmt, p) = "." /\ x = p + 1 /\ CharIn(fmt, x) = "*"
               /\ q <= x => x = c /\ CharIn(fmt, x) \in Takes
    OBVIOUS
  <1> HIDE DEF w, p, q, c
  <1>4. CASE x = w /\ CharIn(fmt, x) = "*"
    BY <1>0, <1>1, <1>2, <1>4
  <1>5. CASE x = p + 1 /\ CharIn(fmt, p) = "." /\ CharIn(fmt, x) = "*"
    <2>1. q = p + 2
      BY <1>2, <1>5
    <2> QED BY <1>0, <1>1, <1>5, <2>1
  <1>6. CASE x = c /\ CharIn(fmt, x) \in Takes
    <2>1. x = w /\ CharIn(fmt, x) = "*" => p > x
      BY <1>0, <1>1, <1>2
    <2> QED BY <1>0, <1>1, <1>6, <2>1
  <1> QED BY <1>3, <1>4, <1>5, <1>6

(* The scanner goes on to its next place.                                  *)
LEMMA StaysInStep ==
  ASSUME NEW T, InStep(T), call' = call,
         used' = Cardinality(Ahead(ArgumentsIn(call.fmt, T), at')),
         \/ stage' = "text" /\ at' \in T
         \/ \E k \in T : Scanning(k)'
         \/ /\ stage' \in {"send", "sent"}
            /\ Ahead(ArgumentsIn(call.fmt, T), at') = ArgumentsIn(call.fmt, T)
  PROVE  ArgsInv'
  <1>1. InStep(T)'
    BY DEF InStep
  <1> QED BY <1>1 DEF ArgsInv

(* A literal character is no argument, and a % is none.                    *)
LEMMA TextArgs ==
  ASSUME ScanInv, NEW T, InStep(T), Literal \/ Percent
  PROVE  ArgsInv'
  <1> DEFINE f == call.fmt
  <1>1. /\ f \in Seq(STRING) /\ at \in Nat /\ Len(f) \in Nat /\ at \in 1 .. Len(f) + 1
    BY DEF ScanInv
  <1>2. /\ T \subseteq 1 .. Len(f) + 1 /\ Pieces(f, T)
        /\ used = Cardinality(Ahead(ArgumentsIn(f, T), at))
    BY DEF InStep
  <1>3. stage = "text" /\ at \in T /\ CharIn(f, at) # NUL /\ call' = call /\ used' = used /\ at' = at + 1
    <2>1. stage = "text" /\ CharIn(f, at) # NUL /\ call' = call /\ used' = used /\ at' = at + 1
      BY DEF Literal, Percent, Char, CharAt, NUL
    <2> QED BY <2>1 DEF InStep, Scanning
  <1>4. at + 1 <= PieceEnd(f, at)
    <2>1. CASE CharIn(f, at) = "%"
      <3>1. /\ WidthAt(f, at) \in at + 1 .. Len(f) + 1
            /\ PointAt(f, at) \in WidthAt(f, at) .. Len(f) + 1
            /\ QualifierAt(f, at) \in PointAt(f, at) .. Len(f) + 1
            /\ LetterAt(f, at) \in QualifierAt(f, at) .. Len(f) + 1
            /\ PieceEnd(f, at) \in LetterAt(f, at) .. LetterAt(f, at) + 1
        BY <1>1, <2>1, DirectivePlaces
      <3> QED BY <1>1, <3>1
    <2>2. CASE CharIn(f, at) # "%"
      BY <1>1, <2>2 DEF PieceEnd
    <2> QED BY <2>1, <2>2
  <1>5. Ahead(ArgumentsIn(f, T), at + 1) = Ahead(ArgumentsIn(f, T), at)
    <2>1. CharIn(f, at) = "%" => \A x \in DirectiveArgs(f, at) : ~(at <= x /\ x < at + 1)
      <3> SUFFICES ASSUME CharIn(f, at) = "%", NEW x \in DirectiveArgs(f, at)
                   PROVE  ~(x < at + 1)
        OBVIOUS
      <3>1. x \in at + 1 .. PieceEnd(f, at) - 1
        BY <1>1, ArgsInside
      <3> QED BY <1>1, <3>1
    <2>2. at \in Nat /\ at + 1 \in Nat /\ at <= at /\ at <= at + 1
      BY <1>1
    <2>3. WithinPiece(f, T, at, at, at + 1)
      BY <1>1, <1>2, <1>3, <1>4, <2>2 DEF WithinPiece
    <2> HIDE DEF f
    <2> QED BY <2>1, <2>3, NoArgPassed
  <1>6. used' = Cardinality(Ahead(ArgumentsIn(f, T), at'))
    BY <1>2, <1>3, <1>5
  <1>7. CASE Literal
    <2>1. CharIn(f, at) # "%" /\ stage' = "text"
      BY <1>3, <1>7 DEF Literal, Char, CharAt
    <2>2. at' \in T
      BY <1>2, <1>3, <2>1 DEF Pieces, PieceEnd
    <2> QED BY <1>3, <1>6, <2>1, <2>2, StaysInStep
  <1>8. CASE Percent
    <2>1. CharIn(f, at) = "%" /\ stage' = "flags"
      BY <1>8 DEF Percent, Char, CharAt
    <2>2. PICK k \in T : k = at
      BY <1>3
    <2>3. Scanning(k)'
      BY <1>1, <1>3, <2>1, <2>2 DEF Scanning, WidthAt
    <2> QED BY <1>3, <1>6, <2>3, StaysInStep
  <1> QED BY <1>7, <1>8

(* Inside a directive: which one it is, and where its places are.          *)
LEMMA InDirective ==
  ASSUME ScanInv, NEW T, InStep(T), stage \in {"flags", "precision", "qualifier", "convert"}
  PROVE  /\ call.fmt \in Seq(STRING) /\ Len(call.fmt) \in Nat
         /\ at \in Nat /\ at \in 1 .. Len(call.fmt) + 1
         /\ T \subseteq 1 .. Len(call.fmt) + 1 /\ Pieces(call.fmt, T)
         /\ used = Cardinality(Ahead(ArgumentsIn(call.fmt, T), at))
         /\ \E k \in T : Scanning(k) /\ k \in 1 .. Len(call.fmt) + 1 /\ k \in Nat
  <1>1. call.fmt \in Seq(STRING) /\ at \in 1 .. Len(call.fmt) + 1
    BY DEF ScanInv
  <1>2. Len(call.fmt) \in Nat
    BY <1>1
  <1>3. T \subseteq 1 .. Len(call.fmt) + 1 /\ \E k \in T : Scanning(k)
    BY DEF InStep
  <1>4. ASSUME NEW k \in T PROVE k \in 1 .. Len(call.fmt) + 1 /\ k \in Nat
    <2>1. k \in 1 .. Len(call.fmt) + 1
      BY <1>3
    <2> QED BY <1>2, <2>1
  <1> QED BY <1>1, <1>2, <1>3, <1>4 DEF InStep

(* From one place of a directive to a later one.                           *)
LEMMA DirectiveMoves ==
  ASSUME ScanInv, NEW T, InStep(T), NEW k \in T, CharIn(call.fmt, k) = "%", call' = call,
         k < at, at <= at', at' \in Nat, at' <= PieceEnd(call.fmt, k)
  PROVE  LET A == ArgumentsIn(call.fmt, T)
             D == DirectiveArgs(call.fmt, k) IN
         /\ used' = used /\ (\A x \in D : ~(at <= x /\ x < at')) => used' = Cardinality(Ahead(A, at'))
         /\ \A y \in D : used' = used + 1 /\ at <= y /\ y < at' /\ (\A x \in D : at <= x /\ x < at' => x = y)
                         => used' = Cardinality(Ahead(A, at'))
  <1> DEFINE f == call.fmt
             A == ArgumentsIn(f, T)
             D == DirectiveArgs(f, k)
  <1>1. /\ f \in Seq(STRING) /\ Len(f) \in Nat /\ at \in Nat
        /\ T \subseteq 1 .. Len(f) + 1 /\ Pieces(f, T)
    <2>1. f \in Seq(STRING) /\ at \in 1 .. Len(f) + 1
      BY DEF ScanInv
    <2> QED BY <2>1 DEF InStep
  <1>2. used = Cardinality(Ahead(A, at))
    BY DEF InStep
  <1>3. CharIn(f, k) # NUL /\ CharIn(f, k) = "%"
    BY DEF NUL
  <1>4. k <= at
    <2>1. \A j \in T : j \in Int
      BY <1>1
    <2> QED BY <1>1, <2>1
  <1>5. PICK b \in Nat : b = at'
    OBVIOUS
  <1>6. PICK a \in Nat : a = at
    BY <1>1
  <1>7. WithinPiece(f, T, k, a, b)
    BY <1>1, <1>3, <1>4, <1>5, <1>6 DEF WithinPiece
  <1> SUFFICES
        /\ used' = used /\ (\A x \in D : ~(at <= x /\ x < at')) => used' = Cardinality(Ahead(A, at'))
        /\ \A y \in D : used' = used + 1 /\ at <= y /\ y < at' /\ (\A x \in D : at <= x /\ x < at' => x = y)
                        => used' = Cardinality(Ahead(A, at'))
    OBVIOUS
  <1> HIDE DEF f
  <1>8. ASSUME used' = used, \A x \in D : ~(at <= x /\ x < at')
        PROVE  used' = Cardinality(Ahead(A, at'))
    <2>1. \A x \in D : ~(a <= x /\ x < b)
      BY <1>5, <1>6, <1>8
    <2>2. Ahead(A, b) = Ahead(A, a)
      BY <1>7, <2>1, NoArgPassed
    <2> QED BY <1>2, <1>5, <1>6, <1>8, <2>2
  <1>9. ASSUME NEW y \in D, used' = used + 1, at <= y, y < at',
               \A x \in D : at <= x /\ x < at' => x = y
        PROVE  used' = Cardinality(Ahead(A, at'))
    <2>1. a <= y /\ y < b /\ \A x \in D : a <= x /\ x < b => x = y
      BY <1>5, <1>6, <1>9
    <2>2. Cardinality(Ahead(A, b)) = Cardinality(Ahead(A, a)) + 1
      BY <1>3, <1>7, <2>1, OneArgPassed
    <2> QED BY <1>2, <1>5, <1>6, <1>9, <2>2
  <1> QED BY <1>8, <1>9

(* A flag is no argument, and does not move the width.                     *)
LEMMA FlagArgs ==
  ASSUME ScanInv, NEW T, InStep(T), Flag
  PROVE  ArgsInv'
  <1> DEFINE f == call.fmt
  <1>1. /\ stage = "flags" /\ stage' = stage /\ CharIn(f, at) \in DOMAIN FlagOf
        /\ call' = call /\ used' = used /\ at' = at + 1
    BY DEF Flag, Char, CharAt
  <1>2. /\ f \in Seq(STRING) /\ Len(f) \in Nat /\ at \in Nat /\ at \in 1 .. Len(f) + 1
        /\ T \subseteq 1 .. Len(f) + 1
    BY <1>1, InDirective
  <1>3. PICK k \in T : Scanning(k) /\ k \in 1 .. Len(f) + 1 /\ k \in Nat
    BY <1>1, InDirective
  <1>4. CharIn(f, k) = "%" /\ at > k /\ RunEnd(f, DOMAIN FlagOf, at) = WidthAt(f, k)
    BY <1>1, <1>3 DEF Scanning
  <1>5. NUL \notin DOMAIN FlagOf
    BY DEF NUL, FlagOf
  <1>6. at + 1 \in 1 .. Len(f) + 1 /\ RunEnd(f, DOMAIN FlagOf, at + 1) = WidthAt(f, k)
    BY <1>1, <1>2, <1>4, <1>5, RunSteps
  <1>7. WidthAt(f, k) \in at + 1 .. Len(f) + 1
    BY <1>2, <1>5, <1>6, RunEnds
  <1>8. /\ PointAt(f, k) \in WidthAt(f, k) .. Len(f) + 1
        /\ QualifierAt(f, k) \in PointAt(f, k) .. Len(f) + 1
        /\ LetterAt(f, k) \in QualifierAt(f, k) .. Len(f) + 1
        /\ PieceEnd(f, k) \in LetterAt(f, k) .. LetterAt(f, k) + 1
    BY <1>2, <1>3, <1>4, DirectivePlaces
  <1>9. at + 1 <= PieceEnd(f, k)
    BY <1>2, <1>7, <1>8
  <1>10. \A x \in DirectiveArgs(f, k) : ~(at <= x /\ x < at')
    <2> SUFFICES ASSUME NEW x \in DirectiveArgs(f, k) PROVE ~(x < at + 1)
      BY <1>1
    <2>1. x \in Int /\ WidthAt(f, k) <= x
      BY <1>2, <1>3, <1>4, ArgsBetween
    <2> QED BY <1>2, <1>7, <2>1
  <1>11. at <= at' /\ at' \in Nat /\ at' <= PieceEnd(f, k) /\ k < at
    BY <1>1, <1>2, <1>3, <1>4, <1>9
  <1>12. used' = Cardinality(Ahead(ArgumentsIn(f, T), at'))
    BY <1>1, <1>4, <1>10, <1>11, DirectiveMoves
  <1>13. Scanning(k)'
    <2>1. at' > k
      BY <1>1, <1>2, <1>3, <1>4
    <2> QED BY <1>1, <1>4, <1>6, <2>1 DEF Scanning
  <1> QED BY <1>1, <1>12, <1>13, StaysInStep

(* The places of the directive the scanner is in.                          *)
InOrder(fmt, k) ==
  /\ CharIn(fmt, k) = "%" /\ k \in 1 .. Len(fmt) + 1 /\ k \in Nat
  /\ WidthAt(fmt, k) \in Nat /\ k < WidthAt(fmt, k) /\ WidthAt(fmt, k) \in 1 .. Len(fmt) + 1
  /\ PointAt(fmt, k) \in Nat /\ WidthAt(fmt, k) <= PointAt(fmt, k)
  /\ PointAt(fmt, k) \in 1 .. Len(fmt) + 1
  /\ QualifierAt(fmt, k) \in Nat /\ PointAt(fmt, k) <= QualifierAt(fmt, k)
  /\ LetterAt(fmt, k) \in Nat /\ QualifierAt(fmt, k) <= LetterAt(fmt, k)
  /\ PieceEnd(fmt, k) \in Nat /\ LetterAt(fmt, k) <= PieceEnd(fmt, k)

LEMMA PlacesInOrder ==
  ASSUME ScanInv, NEW T, InStep(T), stage \in {"flags", "precision", "qualifier", "convert"}
  PROVE  \E k \in T : Scanning(k) /\ InOrder(call.fmt, k)
  <1> DEFINE f == call.fmt
  <1>1. f \in Seq(STRING) /\ Len(f) \in Nat
    BY InDirective
  <1>2. PICK k \in T : Scanning(k) /\ k \in 1 .. Len(f) + 1 /\ k \in Nat
    BY InDirective
  <1>3. CharIn(f, k) = "%"
    BY <1>2 DEF Scanning
  <1>4. /\ WidthAt(f, k) \in k + 1 .. Len(f) + 1
        /\ PointAt(f, k) \in WidthAt(f, k) .. Len(f) + 1
        /\ QualifierAt(f, k) \in PointAt(f, k) .. Len(f) + 1
        /\ LetterAt(f, k) \in QualifierAt(f, k) .. Len(f) + 1
        /\ PieceEnd(f, k) \in LetterAt(f, k) .. LetterAt(f, k) + 1
    BY <1>1, <1>2, <1>3, DirectivePlaces
  <1>5. /\ WidthAt(f, k) \in Nat /\ k < WidthAt(f, k) /\ WidthAt(f, k) \in 1 .. Len(f) + 1
    BY <1>1, <1>2, <1>4
  <1>6. /\ PointAt(f, k) \in Nat /\ WidthAt(f, k) <= PointAt(f, k)
        /\ PointAt(f, k) \in 1 .. Len(f) + 1
    BY <1>1, <1>4, <1>5
  <1>7. QualifierAt(f, k) \in Nat /\ PointAt(f, k) <= QualifierAt(f, k)
    BY <1>1, <1>4, <1>6
  <1>8. LetterAt(f, k) \in Nat /\ QualifierAt(f, k) <= LetterAt(f, k)
    BY <1>1, <1>4, <1>7
  <1>9. PieceEnd(f, k) \in Nat /\ LetterAt(f, k) <= PieceEnd(f, k)
    BY <1>1, <1>4, <1>8
  <1>10. InOrder(f, k)
    BY <1>2, <1>3, <1>5, <1>6, <1>7, <1>8, <1>9 DEF InOrder
  <1> QED BY <1>2, <1>10

(* A width takes an argument if it is a *.                                 *)
LEMMA WidthArgs ==
  ASSUME ScanInv, NEW T, InStep(T), FieldWidth
  PROVE  ArgsInv'
  <1> DEFINE f == call.fmt
  <1>1. stage = "flags" /\ stage' = "precision" /\ CharIn(f, at) \notin DOMAIN FlagOf /\ call' = call
    BY DEF FieldWidth, Char, CharAt
  <1>2. f \in Seq(STRING) /\ Len(f) \in Nat /\ at \in Nat /\ at \in 1 .. Len(f) + 1
    BY <1>1, InDirective
  <1>3. PICK k \in T : Scanning(k) /\ InOrder(f, k)
    BY <1>1, PlacesInOrder
  <1>4. at = WidthAt(f, k)
    <2>1. NUL \notin DOMAIN FlagOf
      BY DEF NUL, FlagOf
    <2>2. RunEnd(f, DOMAIN FlagOf, at) = at
      BY <1>1, <1>2, <2>1, RunSteps
    <2> QED BY <1>1, <1>3, <2>2 DEF Scanning
  <1>5. /\ k < at /\ at <= PointAt(f, k) /\ PointAt(f, k) <= PieceEnd(f, k)
        /\ PointAt(f, k) \in Nat /\ CharIn(f, k) = "%" /\ k \in 1 .. Len(f) + 1
    BY <1>3, <1>4 DEF InOrder
  <1>6. /\ PointAt(f, k) = NumberEnd(f, at)
        /\ CharIn(f, at) = "*" => PointAt(f, k) = at + 1
        /\ CharIn(f, at) \in Digit => PointAt(f, k) = DigitsEnd(at)
        /\ CharIn(f, at) \notin Digit \cup {"*"} => PointAt(f, k) = at
    <2>1. PointAt(f, k) = NumberEnd(f, at)
      BY <1>4 DEF PointAt
    <2> QED BY <1>2, <2>1, NumberEnds DEF DigitsEnd
  <1>7. "*" \notin Digit
    BY DEF Digit
  <1>8. /\ at' = PointAt(f, k)
        /\ CharIn(f, at) = "*" => used' = used + 1
        /\ CharIn(f, at) # "*" => used' = used
    BY <1>6, <1>7 DEF FieldWidth, Char, CharAt
  <1>9. \A x \in DirectiveArgs(f, k) : x < PointAt(f, k) => x = at /\ CharIn(f, at) = "*"
    <2> SUFFICES ASSUME NEW x \in DirectiveArgs(f, k), x < PointAt(f, k)
                 PROVE  x = at /\ CharIn(f, at) = "*"
      OBVIOUS
    <2>1. x \in Int /\ (PointAt(f, k) > x <=> x = WidthAt(f, k) /\ CharIn(f, x) = "*")
      BY <1>2, <1>5, ArgsBetween
    <2> QED BY <1>4, <1>5, <2>1
  <1>10. used' = Cardinality(Ahead(ArgumentsIn(f, T), at'))
    <2>1. CASE CharIn(f, at) = "*"
      <3>1. at \in DirectiveArgs(f, k)
        BY <1>4, <2>1 DEF DirectiveArgs, Stars
      <3>2. at <= at /\ at < at' /\ at <= at' /\ at' \in Nat /\ at' <= PieceEnd(f, k)
        BY <1>2, <1>5, <1>6, <1>8, <2>1
      <3> QED BY <1>1, <1>5, <1>8, <1>9, <2>1, <3>1, <3>2, DirectiveMoves
    <2>2. CASE CharIn(f, at) # "*"
      <3>1. at <= at' /\ at' \in Nat /\ at' <= PieceEnd(f, k)
        BY <1>5, <1>8
      <3> QED BY <1>1, <1>5, <1>8, <1>9, <2>2, <3>1, DirectiveMoves
    <2> QED BY <2>1, <2>2
  <1>11. Scanning(k)'
    BY <1>1, <1>5, <1>8 DEF Scanning
  <1> QED BY <1>1, <1>10, <1>11, StaysInStep

(* So does a precision.                                                    *)
LEMMA PrecisionArgs ==
  ASSUME ScanInv, NEW T, InStep(T), Precision
  PROVE  ArgsInv'
  <1> DEFINE f == call.fmt
  <1>1. stage = "precision" /\ stage' = "qualifier" /\ call' = call
    BY DEF Precision
  <1>2. f \in Seq(STRING) /\ Len(f) \in Nat /\ at \in Nat /\ at \in 1 .. Len(f) + 1
    BY <1>1, InDirective
  <1>3. PICK k \in T : Scanning(k) /\ InOrder(f, k)
    BY <1>1, PlacesInOrder
  <1>4. at = PointAt(f, k)
    BY <1>1, <1>3 DEF Scanning
  <1>5. /\ k < at /\ at <= QualifierAt(f, k) /\ QualifierAt(f, k) <= PieceEnd(f, k)
        /\ QualifierAt(f, k) \in Nat /\ CharIn(f, k) = "%" /\ k \in 1 .. Len(f) + 1
    BY <1>3, <1>4 DEF InOrder
  <1>6. /\ CharIn(f, at) # "." => QualifierAt(f, k) = at
        /\ CharIn(f, at) = "." =>
             /\ at + 1 \in 1 .. Len(f) + 1
             /\ QualifierAt(f, k) = NumberEnd(f, at + 1)
             /\ CharIn(f, at + 1) = "*" => QualifierAt(f, k) = at + 2
    <2>1. /\ CharIn(f, at) # "." => QualifierAt(f, k) = at
          /\ CharIn(f, at) = "." =>
             /\ at <= Len(f)
             /\ QualifierAt(f, k) = NumberEnd(f, at + 1)
             /\ CharIn(f, at + 1) = "*" => QualifierAt(f, k) = at + 2
      BY <1>2, <1>4, <1>5, DirectivePlaces
    <2> QED BY <1>2, <2>1
  <1>7. CharIn(f, at) = "." =>
          /\ CharIn(f, at + 1) \in Digit => QualifierAt(f, k) = DigitsEnd(at + 1)
          /\ CharIn(f, at + 1) \notin Digit \cup {"*"} => QualifierAt(f, k) = at + 1
    BY <1>2, <1>6, NumberEnds DEF DigitsEnd
  <1>8. "*" \notin Digit
    BY DEF Digit
  <1> DEFINE Star == CharIn(f, at) = "." /\ CharIn(f, at + 1) = "*"
  <1>9. at' = QualifierAt(f, k) /\ (Star => used' = used + 1) /\ (~Star => used' = used)
    BY <1>6, <1>7, <1>8 DEF Precision, Char, CharAt
  <1>10. \A x \in DirectiveArgs(f, k) : at <= x /\ x < QualifierAt(f, k) => x = at + 1 /\ Star
    <2> SUFFICES ASSUME NEW x \in DirectiveArgs(f, k), at <= x, x < QualifierAt(f, k)
                 PROVE  x = at + 1 /\ Star
      OBVIOUS
    <2>1. PointAt(f, k) <= x /\ x < QualifierAt(f, k) =>
            CharIn(f, PointAt(f, k)) = "." /\ x = PointAt(f, k) + 1 /\ CharIn(f, x) = "*"
      BY <1>2, <1>5, ArgsBetween
    <2> QED BY <1>4, <2>1
  <1>11. used' = Cardinality(Ahead(ArgumentsIn(f, T), at'))
    <2>1. CASE Star
      <3>1. at + 1 \in DirectiveArgs(f, k)
        BY <1>4, <2>1 DEF DirectiveArgs, Stars
      <3>2. at <= at + 1 /\ at + 1 < at' /\ at <= at' /\ at' \in Nat /\ at' <= PieceEnd(f, k)
        BY <1>2, <1>5, <1>6, <1>9, <2>1
      <3> QED BY <1>1, <1>5, <1>9, <1>10, <2>1, <3>1, <3>2, DirectiveMoves
    <2>2. CASE ~Star
      <3>1. at <= at' /\ at' \in Nat /\ at' <= PieceEnd(f, k)
        BY <1>5, <1>9
      <3> QED BY <1>1, <1>5, <1>9, <1>10, <2>2, <3>1, DirectiveMoves
    <2> QED BY <2>1, <2>2
  <1>12. Scanning(k)'
    BY <1>1, <1>5, <1>9 DEF Scanning
  <1> QED BY <1>1, <1>11, <1>12, StaysInStep

(* A qualifier is no argument.                                             *)
LEMMA QualifierArgs ==
  ASSUME ScanInv, NEW T, InStep(T), Qualifier
  PROVE  ArgsInv'
  <1> DEFINE f == call.fmt
  <1>1. stage = "qualifier" /\ stage' = "convert" /\ call' = call /\ used' = used
    BY DEF Qualifier
  <1>2. f \in Seq(STRING) /\ Len(f) \in Nat /\ at \in Nat /\ at \in 1 .. Len(f) + 1
    BY <1>1, InDirective
  <1>3. PICK k \in T : Scanning(k) /\ InOrder(f, k)
    BY <1>1, PlacesInOrder
  <1>4. at = QualifierAt(f, k)
    BY <1>1, <1>3 DEF Scanning
  <1>5. /\ k < at /\ at <= LetterAt(f, k) /\ LetterAt(f, k) <= PieceEnd(f, k)
        /\ LetterAt(f, k) \in Nat /\ CharIn(f, k) = "%" /\ k \in 1 .. Len(f) + 1
    BY <1>3, <1>4 DEF InOrder
  <1>6. at' = LetterAt(f, k)
    BY <1>4 DEF Qualifier, Char, CharAt, LetterAt
  <1>7. \A x \in DirectiveArgs(f, k) : ~(at <= x /\ x < at')
    <2> SUFFICES ASSUME NEW x \in DirectiveArgs(f, k), at <= x PROVE ~(x < at')
      OBVIOUS
    <2>1. x = LetterAt(f, k)
      BY <1>2, <1>4, <1>5, ArgsBetween
    <2> QED BY <1>5, <1>6, <2>1
  <1>8. at <= at' /\ at' \in Nat /\ at' <= PieceEnd(f, k)
    BY <1>5, <1>6
  <1>9. used' = Cardinality(Ahead(ArgumentsIn(f, T), at'))
    BY <1>1, <1>5, <1>7, <1>8, DirectiveMoves
  <1>10. Scanning(k)'
    BY <1>1, <1>5, <1>6 DEF Scanning
  <1> QED BY <1>1, <1>9, <1>10, StaysInStep

(* A letter takes an argument if it is that of a conversion.               *)
LEMMA LetterArgs ==
  ASSUME ScanInv, NEW T, InStep(T), Convert \/ Unknown
  PROVE  ArgsInv'
  <1> DEFINE f == call.fmt
  <1>1. stage = "convert" /\ stage' = "text" /\ call' = call
    BY DEF Convert, Unknown
  <1>2. /\ f \in Seq(STRING) /\ Len(f) \in Nat /\ at \in Nat /\ at \in 1 .. Len(f) + 1
        /\ Pieces(f, T)
    BY <1>1, InDirective
  <1>3. PICK k \in T : Scanning(k) /\ InOrder(f, k)
    BY <1>1, PlacesInOrder
  <1>4. at = LetterAt(f, k)
    BY <1>1, <1>3 DEF Scanning
  <1>5. /\ k < at /\ at <= PieceEnd(f, k) /\ QualifierAt(f, k) <= at
        /\ PieceEnd(f, k) \in Nat /\ CharIn(f, k) = "%" /\ k \in 1 .. Len(f) + 1
    BY <1>3, <1>4 DEF InOrder
  <1>6. /\ CharIn(f, at) # NUL => PieceEnd(f, k) = at + 1
        /\ CharIn(f, at) = NUL => PieceEnd(f, k) = at
    BY <1>2, <1>4, <1>5, DirectivePlaces
  <1>7. NUL \notin Takes /\ NUL # "%"
    BY DEF NUL, Takes
  <1> DEFINE Taken == CharIn(f, at) \in Takes
  <1>8. at' = PieceEnd(f, k) /\ (Taken => used' = used + 1) /\ (~Taken => used' = used)
    BY <1>6, <1>7 DEF Convert, Unknown, Char, CharAt
  <1>9. \A x \in DirectiveArgs(f, k) : at <= x => x = at /\ Taken
    <2> SUFFICES ASSUME NEW x \in DirectiveArgs(f, k), at <= x PROVE x = at /\ Taken
      OBVIOUS
    <2>1. x \in Int /\ (QualifierAt(f, k) <= x => x = LetterAt(f, k) /\ CharIn(f, x) \in Takes)
      BY <1>2, <1>5, ArgsBetween
    <2>2. QualifierAt(f, k) <= x
      BY <1>2, <1>3, <1>5, <2>1 DEF InOrder
    <2> QED BY <1>4, <2>1, <2>2
  <1>10. used' = Cardinality(Ahead(ArgumentsIn(f, T), at'))
    <2>1. CASE Taken
      <3>1. at \in DirectiveArgs(f, k)
        BY <1>4, <2>1 DEF DirectiveArgs
      <3>2. at <= at /\ at < at' /\ at <= at' /\ at' \in Nat /\ at' <= PieceEnd(f, k)
        BY <1>2, <1>5, <1>6, <1>7, <1>8, <2>1
      <3> QED BY <1>1, <1>5, <1>8, <1>9, <2>1, <3>1, <3>2, DirectiveMoves
    <2>2. CASE ~Taken
      <3>1. at <= at' /\ at' \in Nat /\ at' <= PieceEnd(f, k)
        BY <1>5, <1>8
      <3> QED BY <1>1, <1>5, <1>8, <1>9, <2>2, <3>1, DirectiveMoves
    <2> QED BY <2>1, <2>2
  <1>11. at' \in T
    BY <1>2, <1>5, <1>7, <1>8 DEF Pieces
  <1> QED BY <1>1, <1>10, <1>11, StaysInStep

(* Where the format ends, all its arguments are behind.                    *)
LEMMA EndArgs ==
  ASSUME ScanInv, NEW T, InStep(T), EndOfFormat
  PROVE  ArgsInv'
  <1> DEFINE f == call.fmt
  <1>1. /\ stage = "text" /\ stage' = "send" /\ call' = call /\ used' = used /\ at' = at
        /\ CharIn(f, at) = NUL
    BY DEF EndOfFormat, Char, CharAt
  <1>2. f \in Seq(STRING) /\ at \in 1 .. Len(f) + 1
    BY DEF ScanInv
  <1>3. /\ T \subseteq 1 .. Len(f) + 1 /\ Pieces(f, T) /\ at \in T
        /\ used = Cardinality(Ahead(ArgumentsIn(f, T), at))
    BY <1>1 DEF InStep, Scanning
  <1>4. Len(f) \in Nat
    BY <1>2
  <1>5. ASSUME NEW x \in ArgumentsIn(f, T) PROVE x < at
    <2>1. PICK j \in T : CharIn(f, j) = "%" /\ x \in DirectiveArgs(f, j)
      BY DEF ArgumentsIn
    <2>2. j \in 1 .. Len(f) + 1
      BY <1>3
    <2>3. x \in j + 1 .. PieceEnd(f, j) - 1
      BY <1>2, <2>1, <2>2, ArgsInside
    <2>4. T \subseteq 1 .. at
      BY <1>1, <1>3 DEF Pieces
    <2>5. PieceEnd(f, j) \in T
      <3>1. CharIn(f, j) # NUL
        BY <2>1 DEF NUL
      <3> QED BY <1>3, <3>1 DEF Pieces
    <2>6. PieceEnd(f, j) \in 1 .. at
      BY <2>4, <2>5
    <2> QED BY <1>2, <1>4, <2>2, <2>3, <2>6
  <1>6. Ahead(ArgumentsIn(f, T), at) = ArgumentsIn(f, T)
    BY <1>5 DEF Ahead
  <1> QED BY <1>1, <1>3, <1>6, StaysInStep

(* Sending the buffer, and printf's turn, change none of this.             *)
LEMMA KeepArgs ==
  ASSUME NEW T, InStep(T), UNCHANGED <<call, at, used>>,
         stage' = stage \/ (stage \in {"send", "sent"} /\ stage' \in {"send", "sent"})
  PROVE  ArgsInv'
  <1>1. InStep(T)'
    BY DEF InStep, Scanning
  <1> QED BY <1>1 DEF ArgsInv

(* One case for each stage of the scanner.                                 *)
LEMMA StepArgs == ScanInv /\ ArgsInv /\ [PNext]_pvars => ArgsInv'
  <1> SUFFICES ASSUME ScanInv, ArgsInv, [PNext]_pvars PROVE ArgsInv'
    OBVIOUS
  <1>1. PICK T : InStep(T)
    BY DEF ArgsInv
  <1>2. CASE EeNext
    <2>1. CASE Literal \/ Percent
      BY <1>1, <2>1, TextArgs
    <2>2. CASE Flag
      BY <1>1, <2>2, FlagArgs
    <2>3. CASE FieldWidth
      BY <1>1, <2>3, WidthArgs
    <2>4. CASE Precision
      BY <1>1, <2>4, PrecisionArgs
    <2>5. CASE Qualifier
      BY <1>1, <2>5, QualifierArgs
    <2>6. CASE Convert \/ Unknown
      BY <1>1, <2>6, LetterArgs
    <2>7. CASE EndOfFormat
      BY <1>1, <2>7, EndArgs
    <2>8. CASE SendChar \/ Sent
      <3>1. /\ UNCHANGED <<call, at, used>>
            /\ stage' = stage \/ (stage \in {"send", "sent"} /\ stage' \in {"send", "sent"})
        BY <2>8 DEF SendChar, Sent
      <3> QED BY <1>1, <3>1, KeepArgs
    <2> QED BY <1>2, <2>1, <2>2, <2>3, <2>4, <2>5, <2>6, <2>7, <2>8 DEF EeNext
  <1>3. CASE UNCHANGED eevars
    <2>1. /\ UNCHANGED <<call, at, used>>
          /\ stage' = stage \/ (stage \in {"send", "sent"} /\ stage' \in {"send", "sent"})
      BY <1>3 DEF eevars
    <2> QED BY <1>1, <2>1, KeepArgs
  <1>4. EeNext \/ UNCHANGED eevars
    <2>1. CASE UNCHANGED pvars
      BY <2>1 DEF pvars, eevars
    <2>2. CASE PNext
      BY <2>2 DEF PNext, EeTurn, MiniTurn
    <2> QED BY <2>1, <2>2
  <1> QED BY <1>2, <1>3, <1>4

-----------------------------------------------------------------------------
(* The whole library: each part keeps its invariant while the others run.  *)

RtInv == MoveInv /\ StringInv /\ HeapInv /\ BoardInv /\ ScanInv

(* The state of the string functions in a program that calls none of them. *)
LEMMA IdleString == StringIdle => MoveInv /\ StringInv
  <1> SUFFICES ASSUME StringIdle PROVE MoveInv /\ StringInv
    OBVIOUS
  <1>1. /\ job = [fn |-> "none", d |-> 0, s |-> 0, n |-> 0, c |-> 0]
        /\ old = [a \in Addr |-> 0] /\ i = 0
    BY DEF StringIdle
  <1>2. job.fn = "none" /\ job.d = 0 /\ job.s = 0 /\ job.n = 0 /\ job.c = 0
    BY <1>1
  <1>3. CallInv
    <2>1. Legal(job, old)
      BY <1>2 DEF Legal
    <2> QED BY <1>1, <1>2, <2>1 DEF CallInv
  <1> QED BY <1>2, <1>3 DEF MoveInv, StringInv, CopyInv, FillInv, StrCpyInv, StrLenInv, CompareInv, StrChrInv

(* In whatever a program does first.                                       *)
LEMMA InitRuntime == RtInit => RtInv
  <1> SUFFICES ASSUME RtInit PROVE RtInv
    OBVIOUS
  <1>1. HeapInv
    BY InitHeapInv DEF RtInit
  <1>2. BoardInv
    BY InitBoard DEF RtInit
  <1>3. ScanInv
    BY InitScan DEF RtInit, PInit
  <1>4. MoveInv /\ StringInv
    BY MoveInit, InitString, IdleString DEF RtInit
  <1> QED BY <1>1, <1>2, <1>3, <1>4 DEF RtInv

(* And in whatever it does next.                                           *)
LEMMA StepRuntime == RtInv /\ [RtNext]_rtvars => RtInv'
  <1> SUFFICES ASSUME RtInv, [RtNext]_rtvars PROVE RtInv'
    OBVIOUS
  <1>1. [StringNext]_svars /\ [HeapNext]_hvars /\ [BoardNext]_bvars /\ [PNext]_pvars
    BY DEF RtNext, rtvars
  <1> QED BY <1>1, StepMove, StepString, StepHeapInv, StepBoard, StepScan DEF RtInv

(* The number a report prints is the cycles the benchmark took, wherever   *)
(* mcycle wraps between the readings (main_wrapper.c:12-17,                *)
(* core_portme.c:34-50).                                                   *)
THEOREM TimeAlwaysReported == RtSpec => []TimeReported
  <1>1. RtInv => TimeReported
    BY TimeDone DEF RtInv
  <1> QED BY <1>1, InitRuntime, StepRuntime, PTL DEF RtSpec

(* The scanner never looks behind the end of a format, whatever the format *)
(* is and wherever it breaks off (ee_printf.c:487-545,644).                *)
THEOREM ScannerStaysInside == RtSpec => []ScannerInside
  <1>1. RtInv => ScannerInside
    BY DEF RtInv, ScanInv, ScannerInside
  <1> QED BY <1>1, InitRuntime, StepRuntime, PTL DEF RtSpec

(* For every format, the scanner takes an argument for each * and each     *)
(* conversion the grammar of formats finds in it, in their order, and for  *)
(* nothing else: not for %%, an unknown letter or a directive that breaks  *)
(* off (ee_printf.c:507-536, 546-656).                                     *)
THEOREM ArgumentsAlwaysUsedUp == ArgumentsMatch => (RtSpec => []ArgumentsUsedUp)
  <1> SUFFICES ASSUME ArgumentsMatch PROVE RtSpec => []ArgumentsUsedUp
    OBVIOUS
  <1>1. RtInit => RtInv /\ ArgsInv
    BY InitRuntime, InitArgs DEF RtInit, PInit
  <1>2. RtInv /\ ArgsInv /\ [RtNext]_rtvars => RtInv' /\ ArgsInv'
    <2>1. [RtNext]_rtvars => [PNext]_pvars
      BY DEF RtNext, rtvars
    <2> QED BY <2>1, StepRuntime, StepArgs DEF RtInv
  <1>3. RtInv /\ ArgsInv => ArgumentsUsedUp
    BY InStepDone DEF RtInv
  <1> QED BY <1>1, <1>2, <1>3, PTL DEF RtSpec

(* In a program that does any of these, all the promises hold together.    *)
THEOREM RuntimeAlwaysCorrect == RtSpec => [](MoveCorrect /\ CopiesCorrect /\ AnswersCorrect /\ HeapDense)
  <1>1. RtInv => MoveCorrect /\ CopiesCorrect /\ AnswersCorrect /\ HeapDense
    BY MoveDone, StringDone DEF RtInv, HeapInv
  <1> QED BY <1>1, InitRuntime, StepRuntime, PTL DEF RtSpec
=============================================================================
