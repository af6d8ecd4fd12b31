----------------------------- MODULE MiniString -----------------------------
(***************************************************************************)
(* ministring.c: the string and memory functions the benchmarks are linked *)
(* with, a byte at a time.  One action is one turn of a function's loop.   *)
(***************************************************************************)
EXTENDS Integers

CONSTANTS MemSize,    \* bytes of memory
          UChar,       \* values of an unsigned char; 0 ends a string
          Jobs        \* the calls made: function, d, s, n and c

Addr == 0 .. MemSize - 1

ASSUME MiniStringAssumption ==
  /\ MemSize \in Nat /\ UChar \subseteq Nat /\ 0 \in UChar
  /\ \A j \in Jobs : {j.d, j.s, j.n} \subseteq Nat /\ j.c \in UChar

VARIABLES mem, job,
          old,        \* the memory at the time of the call
          i,          \* bytes done
          ret         \* <<>> until the function returns, then its value

svars == <<mem, job, old, i, ret>>

NULL == -1

(* What a caller has to see to: the regions lie in memory, and are apart   *)
(* unless the function is memmove; a string has its terminator.            *)
Apart(d, s, n) == d + n <= s \/ s + n <= d
Terminated(m, a) == \E k \in a .. MemSize - 1 : m[k] = 0
(* The length of the string at a.                                          *)
Length(m, a) == CHOOSE n \in 0 .. MemSize - a :
                  a + n \in Addr /\ m[a + n] = 0 /\ \A k \in 0 .. n - 1 : m[a + k] # 0

Legal(j, m) ==
  /\ j.fn \in {"memmove", "memcpy", "memset", "memcmp"} =>
       j.d + j.n <= MemSize /\ j.s + j.n <= MemSize
  /\ j.fn = "memcpy" => Apart(j.d, j.s, j.n)
  /\ j.fn \in {"strcpy", "strcmp", "strlen", "strchr"} => Terminated(m, j.s)
  /\ j.fn = "strcmp" => Terminated(m, j.d)
  /\ j.fn = "strcpy" => LET n == Length(m, j.s) + 1
                        IN j.d + n <= MemSize /\ Apart(j.d, j.s, n)

StringInit ==
  /\ job \in Jobs /\ mem \in [Addr -> UChar] /\ Legal(job, mem)
  /\ old = mem /\ i = 0 /\ ret = <<>>

Running(fn) == job.fn = fn /\ ret = <<>>
Put(a, x) == mem' = [mem EXCEPT ![a] = x] /\ i' = i + 1 /\ UNCHANGED <<job, old, ret>>
Advance   == i' = i + 1 /\ UNCHANGED <<mem, job, old, ret>>
Return(x) == ret' = <<x>> /\ UNCHANGED <<mem, job, old, i>>

(* Variant: the copy always runs upwards.                                  *)
MoveUpwards ==
  /\ Running("memmove") /\ i < job.n
  /\ Put(job.d + i, mem[job.s + i])

(* Upwards when the destination is lower, else downwards.                  *)
Move ==
  /\ Running("memmove") /\ i < job.n
  /\ LET k == IF job.d < job.s THEN i ELSE job.n - 1 - i
     IN Put(job.d + k, mem[job.s + k])

Copy == Running("memcpy") /\ i < job.n /\ Put(job.d + i, mem[job.s + i])

Fill == Running("memset") /\ i < job.n /\ Put(job.d + i, job.c)

ReturnDest == job.fn \in {"memmove", "memcpy", "memset"} /\ ret = <<>> /\ i = job.n /\ Return(job.d)

(* Variant: the terminator ends the copy before it is copied.              *)
StrCpyShort ==
  /\ Running("strcpy")
  /\ IF mem[job.s + i] = 0 THEN Return(job.d)
     ELSE Put(job.d + i, mem[job.s + i])

(* The terminator is copied before it is looked at.                        *)
StrCpy ==
  /\ Running("strcpy")
  /\ IF i > 0 /\ mem[job.d + i - 1] = 0 THEN Return(job.d)
     ELSE Put(job.d + i, mem[job.s + i])

StrLen == Running("strlen") /\ IF mem[job.s + i] # 0 THEN Advance ELSE Return(i)

(* Variant: the end of the first string does not end the comparison.       *)
StrCmpPast ==
  /\ Running("strcmp")
  /\ LET a == mem[job.d + i] b == mem[job.s + i]
     IN IF a = b /\ job.d + i + 1 \in Addr /\ job.s + i + 1 \in Addr THEN Advance ELSE Return(a - b)

StrCmp ==
  /\ Running("strcmp")
  /\ LET a == mem[job.d + i] b == mem[job.s + i]
     IN IF a # 0 /\ a = b THEN Advance ELSE Return(a - b)

MemCmp ==
  /\ Running("memcmp")
  /\ IF i = job.n THEN Return(0)
     ELSE LET a == mem[job.d + i] b == mem[job.s + i]
          IN IF a # b THEN Return(a - b) ELSE Advance

(* The terminator can be looked for too.                                   *)
StrChr ==
  /\ Running("strchr")
  /\ LET a == mem[job.s + i]
     IN IF a = 0 THEN Return(IF job.c = 0 THEN job.s + i ELSE NULL)
        ELSE IF a = job.c THEN Return(job.s + i) ELSE Advance

(* No call: the state a program that calls none of these is in.            *)
StringIdle ==
  /\ job = [fn |-> "none", d |-> 0, s |-> 0, n |-> 0, c |-> 0]
  /\ mem = [a \in Addr |-> 0] /\ old = mem /\ i = 0 /\ ret = <<>>

StringNext ==
  \/ Move \/ Copy \/ Fill \/ ReturnDest
  \/ StrCpy \/ StrLen \/ StrCmp \/ MemCmp \/ StrChr

StringSpec == StringInit /\ [][StringNext]_svars

-----------------------------------------------------------------------------
(* What the C library promises of each function.                           *)

Returned(fn) == job.fn = fn /\ ret # <<>>

(* The memory with n bytes from s copied to d, all at once.                *)
Moved(m, d, s, n) == [a \in Addr |-> IF a \in d .. d + n - 1 THEN m[s + a - d] ELSE m[a]]

(* memmove: the destination holds what the source held at the call, and    *)
(* nothing else has changed, however the two overlap (ministring.c:39-48). *)
MoveCorrect == Returned("memmove") => mem = Moved(old, job.d, job.s, job.n)

(* The first n bytes from a come before those from b.                      *)
Before(m, a, b, n) ==
  \E k \in 0 .. n - 1 : m[a + k] < m[b + k] /\ \A j \in 0 .. k - 1 : m[a + j] = m[b + j]

(* The copying functions leave the bytes they were asked to and no others  *)
(* changed (ministring.c:7-21).                                            *)
CopiesCorrect ==
  /\ Returned("memcpy") => mem = Moved(old, job.d, job.s, job.n)
  /\ Returned("memset") => mem = [a \in Addr |-> IF a \in job.d .. job.d + job.n - 1 THEN job.c ELSE old[a]]
  /\ Returned("strcpy") => mem = Moved(old, job.d, job.s, Length(old, job.s) + 1)

(* The comparisons order as unsigned bytes, a string before its extensions,*)
(* and the searches find the first match, none past the terminator         *)
(* (ministring.c:3-6,24-37,55-58).                                         *)
AnswersCorrect ==
  LET a == Length(old, job.d)  b == Length(old, job.s)
      span == IF job.fn = "memcmp" THEN job.n ELSE IF a < b THEN a + 1 ELSE b + 1
  IN /\ Returned("strcmp") \/ Returned("memcmp") =>
          /\ ret[1] < 0 <=> Before(old, job.d, job.s, span)
          /\ ret[1] > 0 <=> Before(old, job.s, job.d, span)
     /\ Returned("strlen") => ret[1] = Length(old, job.s)
     /\ Returned("strchr") =>
          LET here == {k \in 0 .. Length(old, job.s) : old[job.s + k] = job.c}
          IN ret[1] = IF here = {} THEN NULL ELSE job.s + CHOOSE k \in here : \A j \in here : k <= j
=============================================================================
