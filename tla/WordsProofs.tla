----------------------------- MODULE WordsProofs -----------------------------
(***************************************************************************)
(* What is proved of machine words, for every width: the powers of two the *)
(* operators of Words are built from, and the operators' types.            *)
(*                                                                         *)
(* The provers cannot instantiate an induction theorem whose parameter is  *)
(* an operator, so induction is done on sets: a set of numbers that holds  *)
(* 0 and the successor of each of its members holds every number.          *)
(***************************************************************************)
EXTENDS Words, FiniteSetTheorems, TLAPS

(* A nonempty set of numbers has a least one: the intervals up to its      *)
(* members are ordered by inclusion, which is well founded.                *)
LEMMA LeastNatural ==
  ASSUME NEW S, S \subseteq Nat, S # {}
  PROVE  \E n \in S : \A m \in S : n <= m
  <1>1. PICK bound \in S : TRUE
    OBVIOUS
  <1> DEFINE Below(n) == 0 .. n
             R == StrictSubsetOrdering(0 .. bound)
             T == {Below(n) : n \in {m \in S : m <= bound}}
  <1>2. IsWellFoundedOn(R, SUBSET (0 .. bound))
    <2>1. IsFiniteSet(0 .. bound)
      BY <1>1, FS_Interval
    <2>2. FiniteSubsetsOf(0 .. bound) = SUBSET (0 .. bound)
      BY <2>1, FS_FiniteSubsetsOfFinite
    <2> QED BY <2>2, FS_StrictSubsetOrderingWellFounded
  <1>3. T \subseteq SUBSET (0 .. bound) /\ T # {}
    BY <1>1
  <1>4. PICK x \in T : \A y \in T : <<y, x>> \notin R
    <2> HIDE DEF R, T
    <2> QED BY <1>2, <1>3, WFMin
  <1>5. PICK n \in S : n <= bound /\ x = Below(n)
    BY <1>4
  <1>6. ASSUME NEW m \in S, m < n PROVE FALSE
    <2>1. m \in Nat /\ n \in Nat
      OBVIOUS
    <2>2. Below(m) \in T
      BY <1>5, <1>6, <2>1
    <2>3. Below(m) \subseteq Below(n) /\ n \in Below(n) /\ n \notin Below(m)
      BY <1>6, <2>1
    <2>4. <<Below(m), Below(n)>> \in R
      BY <1>3, <1>4, <1>5, <2>2, <2>3, SMTT(30) DEF StrictSubsetOrdering
    <2> QED BY <1>4, <1>5, <2>2, <2>4
  <1> QED BY <1>5, <1>6

(* A set with 0 and with every successor of its members has every number.  *)
LEMMA SetInduction ==
  ASSUME NEW S, 0 \in S, \A n \in Nat : n \in S => n+1 \in S
  PROVE  Nat \subseteq S
  <1>1. SUFFICES ASSUME Nat \ S # {} PROVE FALSE
    OBVIOUS
  <1>2. PICK n \in Nat \ S : \A m \in Nat \ S : n <= m
    BY <1>1, LeastNatural
  <1>3. n-1 \in Nat /\ n-1 \in S
    BY <1>2
  <1> QED BY <1>2, <1>3

-----------------------------------------------------------------------------
(* Powers of two.                                                          *)

(* f starts the sequence of the powers of two, up to the n-th.             *)
IsPowers(f, n) ==
  /\ f \in [0 .. n -> Nat \ {0}]
  /\ f[0] = 1
  /\ \A k \in 0 .. n-1 : f[k+1] = 2 * f[k]

(* There is a function with the recurrence of the powers.                  *)
LEMMA PowersExist == \A n \in Nat : \E f : IsPowers(f, n)
  <1> DEFINE S == {n \in Nat : \E f : IsPowers(f, n)}
  <1>1. 0 \in S
    <2>1. IsPowers([k \in 0 .. 0 |-> 1], 0)
      BY DEF IsPowers
    <2> QED BY <2>1
  <1>2. ASSUME NEW n \in Nat, n \in S PROVE n+1 \in S
    <2>1. PICK f : IsPowers(f, n)
      BY <1>2
    <2> DEFINE g == [k \in 0 .. n+1 |-> IF k = n+1 THEN 2 * f[n] ELSE f[k]]
    <2>2. IsPowers(g, n+1)
      BY <2>1 DEF IsPowers
    <2> QED BY <2>2
  <1> HIDE DEF S
  <1>3. Nat \subseteq S
    BY <1>1, <1>2, SetInduction
  <1> QED BY <1>3 DEF S

(* It satisfies the recursive definition, and is all that does.            *)
LEMMA PowersDefined ==
  ASSUME NEW n \in Nat
  PROVE  \E f : f = [k \in 0 .. n |-> IF k = 0 THEN 1 ELSE 2 * f[k-1]]
  <1>1. PICK f : IsPowers(f, n)
    BY PowersExist
  <1> DEFINE g == [k \in 0 .. n |-> IF k = 0 THEN 1 ELSE 2 * f[k-1]]
  <1>2. ASSUME NEW k \in 0 .. n PROVE f[k] = g[k]
    <2>1. CASE k = 0
      BY <1>1, <2>1 DEF IsPowers
    <2>2. CASE k # 0
      <3>1. k-1 \in 0 .. n-1 /\ (k-1)+1 = k
        BY <2>2
      <3>2. f[k] = 2 * f[k-1]
        BY <1>1, <3>1 DEF IsPowers
      <3> QED BY <2>2, <3>2
    <2> QED BY <2>1, <2>2
  <1>3. f = g
    BY <1>1, <1>2 DEF IsPowers
  <1> QED BY <1>3

LEMMA PowersUnfold ==
  ASSUME NEW m \in Nat, NEW f, f = [k \in 0 .. m |-> IF k = 0 THEN 1 ELSE 2 * f[k-1]]
  PROVE  IsPowers(f, m)
  <1> DEFINE S == {n \in Nat : n <= m => f[n] \in Nat \ {0}}
  <1>1. 0 \in S
    OBVIOUS
  <1>2. ASSUME NEW n \in Nat, n \in S PROVE n+1 \in S
    <2>1. SUFFICES ASSUME n+1 <= m PROVE f[n+1] \in Nat \ {0}
      OBVIOUS
    <2>2. f[n] \in Nat \ {0}
      BY <1>2, <2>1
    <2>3. f[n+1] = 2 * f[(n+1)-1]
      BY <2>1
    <2> QED BY <2>2, <2>3
  <1>3. Nat \subseteq S
    <2> HIDE DEF S
    <2> QED BY <1>1, <1>2, SetInduction
  <1>4. f \in [0 .. m -> Nat \ {0}]
    <2>1. \A k \in 0 .. m : f[k] \in Nat \ {0}
      BY <1>3
    <2> QED BY <2>1
  <1>5. \A k \in 0 .. m-1 : f[k+1] = 2 * f[k]
    OBVIOUS
  <1> QED BY <1>4, <1>5 DEF IsPowers

(* Pow2 is what its definition says.                                       *)
LEMMA Pow2Powers == IsPowers(Pow2, 2*W)
  <1>1. 2*W \in Nat
    BY WAssumption
  <1>2. Pow2 = [k \in 0 .. 2*W |-> IF k = 0 THEN 1 ELSE 2 * Pow2[k-1]]
    BY <1>1, PowersDefined DEF Pow2
  <1> QED BY <1>1, <1>2, PowersUnfold

(* A power of two is positive.                                             *)
LEMMA Pow2Type == \A k \in 0 .. 2*W : Pow2[k] \in Nat /\ Pow2[k] > 0
  BY Pow2Powers DEF IsPowers

(* The recurrence itself.                                                  *)
LEMMA Pow2Step == Pow2[0] = 1 /\ \A k \in 0 .. 2*W-1 : Pow2[k+1] = 2 * Pow2[k]
  BY Pow2Powers DEF IsPowers

(* The law of exponents.                                                   *)
LEMMA Pow2Sum ==
  ASSUME NEW i \in Nat, NEW j \in Nat, i + j <= 2*W
  PROVE  Pow2[i + j] = Pow2[i] * Pow2[j]
  <1> DEFINE S == {n \in Nat : i + n <= 2*W => Pow2[i + n] = Pow2[i] * Pow2[n]}
  <1>1. 0 \in S
    BY Pow2Type, Pow2Step, WAssumption
  <1>2. ASSUME NEW n \in Nat, n \in S PROVE n+1 \in S
    <2> SUFFICES ASSUME i + (n+1) <= 2*W PROVE Pow2[i + (n+1)] = Pow2[i] * Pow2[n+1]
      OBVIOUS
    <2>1. Pow2[i + n] = Pow2[i] * Pow2[n]
      BY <1>2, WAssumption
    <2>2. Pow2[(i + n) + 1] = 2 * Pow2[i + n] /\ Pow2[n+1] = 2 * Pow2[n]
      BY Pow2Step, WAssumption
    <2>3. i + (n+1) = (i + n) + 1
      OBVIOUS
    <2>4. Pow2[i] \in Nat /\ Pow2[n] \in Nat
      BY Pow2Type, WAssumption
    <2>5. 2 * (Pow2[i] * Pow2[n]) = Pow2[i] * (2 * Pow2[n])
      BY <2>4
    <2> QED BY <2>1, <2>2, <2>3, <2>5
  <1>3. Nat \subseteq S
    <2> HIDE DEF S
    <2> QED BY <1>1, <1>2, SetInduction
  <1> QED BY <1>3

(* A word has two halves.                                                  *)
LEMMA WordHalves ==
  /\ WordMod \in Nat /\ HalfMod \in Nat /\ HalfMod > 0
  /\ WordMod = 2 * HalfMod
  <1>1. W-1 \in 0 .. 2*W-1 /\ W = (W-1)+1 /\ W-1 \in 0 .. 2*W /\ W \in 0 .. 2*W
    BY WAssumption
  <1> QED BY <1>1, Pow2Type, Pow2Step DEF WordMod, HalfMod

-----------------------------------------------------------------------------
(* Division with remainder.                                                *)

(* A number is its quotient and remainder, the quotient rounded down.      *)
LEMMA DivMod ==
  ASSUME NEW a \in Int, NEW b \in Nat, b > 0
  PROVE  /\ a \div b \in Int /\ a % b \in 0 .. b-1
         /\ a = b * (a \div b) + (a % b)
  OBVIOUS

(* There is only one such quotient and remainder.                          *)
LEMMA DivModUnique ==
  ASSUME NEW a \in Int, NEW b \in Nat, b > 0, NEW q \in Int, NEW r \in 0 .. b-1,
         a = b * q + r
  PROVE  a \div b = q /\ a % b = r
  OBVIOUS

(* A product with a positive factor is no smaller.                         *)
LEMMA TimesPositive ==
  ASSUME NEW p \in Nat, p > 0, NEW q \in Nat
  PROVE  p * q \in Nat /\ p * q >= q
  <1>1. (p-1) * q >= 0
    OBVIOUS
  <1>2. p * q = (p-1) * q + q
    OBVIOUS
  <1> QED BY <1>1, <1>2

(* A quotient is no larger than the dividend.                              *)
LEMMA DivSmaller ==
  ASSUME NEW a \in Nat, NEW b \in Nat, b > 0
  PROVE  a \div b \in 0 .. a
  <1>1. PICK q \in Int, r \in 0 .. b-1 : q = a \div b /\ a = b * q + r
    BY DivMod
  <1>2. q >= 0
    <2> SUFFICES ASSUME q <= -1 PROVE FALSE
      BY <1>1
    <2>1. b * (-q) >= b
      <3>1. b * (-q) >= b * 1
        BY <1>1
      <3> QED BY <3>1
    <2>2. b * q = -(b * (-q))
      BY <1>1
    <2> QED BY <1>1, <2>1, <2>2
  <1>3. b * q >= q
    BY <1>2, TimesPositive
  <1> QED BY <1>1, <1>2, <1>3

-----------------------------------------------------------------------------
(* The operators stay in Word.                                             *)

(* Every wrapped result is a word.                                         *)
LEMMA ModIsWord == \A x \in Int : x % WordMod \in Word
  BY WordHalves DEF Word

(* The words the design writes as constants.                               *)
LEMMA SmallWords ==
  /\ 0 \in Word /\ 1 \in Word /\ HalfMod \in Word /\ WordMod - 1 \in Word
  /\ Word \subseteq Nat
  BY WordHalves DEF Word

(* Sum, difference and negation of integers wrap to words.                 *)
LEMMA ArithmeticType ==
  ASSUME NEW a \in Int, NEW b \in Int
  PROVE  Add(a, b) \in Word /\ Sub(a, b) \in Word /\ Neg(a) \in Word
  <1>1. WordMod \in Int
    BY WordHalves
  <1> QED BY <1>1, ModIsWord DEF Add, Sub, Neg

(* The range of a word read as a signed number.                            *)
LEMMA SignedRange ==
  ASSUME NEW a \in Word
  PROVE  /\ Signed(a) \in -HalfMod .. HalfMod-1
         /\ Signed(a) = a \/ Signed(a) = a - WordMod
  BY WordHalves DEF Word, Signed

(* f holds the sums of the weights of the members of S below n.            *)
IsSum(f, S, n) ==
  /\ f \in [0 .. n -> Nat]
  /\ f[0] = 0
  /\ \A k \in 0 .. n-1 : f[k+1] = f[k] + (IF k \in S THEN Pow2[k] ELSE 0)

(* There is a function with the recurrence of FromBits.                    *)
LEMMA SumsExist ==
  ASSUME NEW S
  PROVE  \A n \in Nat : n <= W => \E f : IsSum(f, S, n)
  <1> DEFINE N == {n \in Nat : n <= W => \E f : IsSum(f, S, n)}
  <1>1. 0 \in N
    <2>1. IsSum([k \in 0 .. 0 |-> 0], S, 0)
      BY DEF IsSum
    <2> QED BY <2>1
  <1>2. ASSUME NEW n \in Nat, n \in N PROVE n+1 \in N
    <2> SUFFICES ASSUME n+1 <= W PROVE \E f : IsSum(f, S, n+1)
      OBVIOUS
    <2>1. PICK f : IsSum(f, S, n)
      BY <1>2, WAssumption
    <2> DEFINE last == f[n] + (IF n \in S THEN Pow2[n] ELSE 0)
               g == [k \in 0 .. n+1 |-> IF k = n+1 THEN last ELSE f[k]]
    <2>2. Pow2[n] \in Nat /\ f[n] \in Nat
      BY <2>1, Pow2Type, WAssumption DEF IsSum
    <2>3. last \in Nat
      BY <2>2
    <2> HIDE DEF last
    <2>4. g \in [0 .. n+1 -> Nat] /\ g[0] = 0
      BY <2>1, <2>3 DEF IsSum
    <2>5. ASSUME NEW k \in 0 .. n PROVE g[k+1] = g[k] + (IF k \in S THEN Pow2[k] ELSE 0)
      BY <2>1 DEF IsSum, last
    <2>6. (n+1)-1 = n
      OBVIOUS
    <2> HIDE DEF g
    <2>7. IsSum(g, S, n+1)
      BY <2>4, <2>5, <2>6 DEF IsSum
    <2> QED BY <2>7
  <1>3. Nat \subseteq N
    <2> HIDE DEF N
    <2> QED BY <1>1, <1>2, SetInduction
  <1> QED BY <1>3

(* What a set of bits stands for is the last of those sums.                *)
LEMMA FromBitsSum ==
  ASSUME NEW S
  PROVE  \E f : /\ f[0] = 0
                /\ \A k \in 0 .. W-1 : f[k+1] = f[k] + (IF k \in S THEN Pow2[k] ELSE 0)
                /\ FromBits(S) = f[W]
  <1> DEFINE Sum[n \in 0 .. W] ==
               IF n = 0 THEN 0 ELSE Sum[n-1] + (IF n-1 \in S THEN Pow2[n-1] ELSE 0)
  <1>1. PICK f : IsSum(f, S, W)
    BY SumsExist, WAssumption
  <1> DEFINE g == [n \in 0 .. W |->
                     IF n = 0 THEN 0 ELSE f[n-1] + (IF n-1 \in S THEN Pow2[n-1] ELSE 0)]
  <1>2. ASSUME NEW n \in 0 .. W PROVE f[n] = g[n]
    <2>1. CASE n = 0
      BY <1>1, <2>1 DEF IsSum
    <2>2. CASE n # 0
      <3>1. n-1 \in 0 .. W-1 /\ (n-1)+1 = n
        BY <2>2, WAssumption
      <3>2. f[n] = f[n-1] + (IF n-1 \in S THEN Pow2[n-1] ELSE 0)
        BY <1>1, <3>1 DEF IsSum
      <3> QED BY <2>2, <3>2
    <2> QED BY <2>1, <2>2
  <1>3. f = g
    BY <1>1, <1>2 DEF IsSum
  <1>4. Sum = [n \in 0 .. W |->
                 IF n = 0 THEN 0 ELSE Sum[n-1] + (IF n-1 \in S THEN Pow2[n-1] ELSE 0)]
    BY <1>3
  <1>5. FromBits(S) = Sum[W]
    BY DEF FromBits, Sum
  <1> HIDE DEF Sum
  <1>6. Sum[0] = 0
    BY <1>4, WAssumption
  <1>7. ASSUME NEW k \in 0 .. W-1 PROVE Sum[k+1] = Sum[k] + (IF k \in S THEN Pow2[k] ELSE 0)
    <2>1. k+1 \in 0 .. W /\ k+1 # 0 /\ (k+1)-1 = k
      BY WAssumption
    <2> QED BY <1>4, <2>1
  <1> QED BY <1>5, <1>6, <1>7

(* The number a set of bits stands for is below 2^W.                       *)
LEMMA FromBitsType == \A S : FromBits(S) \in Word
  <1> TAKE S
  <1>1. PICK f : /\ f[0] = 0
                 /\ \A k \in 0 .. W-1 : f[k+1] = f[k] + (IF k \in S THEN Pow2[k] ELSE 0)
                 /\ FromBits(S) = f[W]
    BY FromBitsSum
  <1> DEFINE N == {n \in Nat : n <= W => f[n] \in 0 .. Pow2[n]-1}
  <1>2. 0 \in N
    BY <1>1, Pow2Step, WAssumption
  <1>3. ASSUME NEW n \in Nat, n \in N PROVE n+1 \in N
    <2> SUFFICES ASSUME n+1 <= W PROVE f[n+1] \in 0 .. Pow2[n+1]-1
      OBVIOUS
    <2>1. f[n] \in 0 .. Pow2[n]-1
      BY <1>3, WAssumption
    <2>2. f[n+1] = f[n] + (IF n \in S THEN Pow2[n] ELSE 0)
      BY <1>1, WAssumption
    <2>3. Pow2[n+1] = 2 * Pow2[n] /\ Pow2[n] \in Nat
      BY Pow2Type, Pow2Step, WAssumption
    <2> QED BY <2>1, <2>2, <2>3
  <1>4. Nat \subseteq N
    <2> HIDE DEF N
    <2> QED BY <1>2, <1>3, SetInduction
  <1> QED BY <1>1, <1>4, WAssumption DEF Word, WordMod

(* Adjacent bits make a difference of two powers.                          *)
LEMMA FromBitsRange ==
  ASSUME NEW lo \in Nat, NEW hi \in Nat, lo <= hi, hi <= W
  PROVE  FromBits(lo .. hi-1) = Pow2[hi] - Pow2[lo]
  <1> DEFINE S == lo .. hi-1
             Upto(n) == IF n <= lo THEN 0
                        ELSE IF n <= hi THEN Pow2[n] - Pow2[lo] ELSE Pow2[hi] - Pow2[lo]
  <1>1. PICK f : /\ f[0] = 0
                 /\ \A k \in 0 .. W-1 : f[k+1] = f[k] + (IF k \in S THEN Pow2[k] ELSE 0)
                 /\ FromBits(S) = f[W]
    BY FromBitsSum
  <1> DEFINE N == {n \in Nat : n <= W => f[n] = Upto(n)}
  <1>2. 0 \in N
    BY <1>1
  <1>3. ASSUME NEW n \in Nat, n \in N PROVE n+1 \in N
    <2> SUFFICES ASSUME n+1 <= W PROVE f[n+1] = Upto(n+1)
      OBVIOUS
    <2>1. f[n] = Upto(n)
      BY <1>3, WAssumption
    <2>2. f[n+1] = f[n] + (IF n \in S THEN Pow2[n] ELSE 0)
      BY <1>1, WAssumption
    <2>3. Pow2[n+1] = 2 * Pow2[n] /\ Pow2[n] \in Nat /\ Pow2[lo] \in Nat /\ Pow2[hi] \in Nat
      BY Pow2Type, Pow2Step, WAssumption
    <2>4. CASE n < lo
      BY <2>1, <2>2, <2>4
    <2>5. CASE n = lo /\ lo < hi
      BY <2>1, <2>2, <2>3, <2>5
    <2>6. CASE lo < n /\ n < hi
      BY <2>1, <2>2, <2>3, <2>6
    <2>7. CASE n = hi
      <3>1. f[n+1] = Upto(n)
        BY <2>1, <2>2, <2>3, <2>7
      <3>2. Upto(n) = Pow2[hi] - Pow2[lo]
        BY <2>3, <2>7
      <3>3. Upto(n+1) = Pow2[hi] - Pow2[lo]
        BY <2>7
      <3> QED BY <3>1, <3>2, <3>3
    <2>8. CASE n > hi
      BY <2>1, <2>2, <2>3, <2>8
    <2> QED BY <2>4, <2>5, <2>6, <2>7, <2>8
  <1>4. Nat \subseteq N
    <2> HIDE DEF N
    <2> QED BY <1>2, <1>3, SetInduction
  <1>5. f[W] = Upto(W)
    BY <1>4, WAssumption
  <1>6. Pow2[lo] \in Nat /\ Pow2[hi] \in Nat
    BY Pow2Type, WAssumption
  <1> QED BY <1>1, <1>5, <1>6, WAssumption

(* Subtracting from all ones turns every bit round.                        *)
LEMMA ComplementBits ==
  ASSUME NEW a \in Word
  PROVE  Bits((WordMod-1) - a) = (0 .. W-1) \ Bits(a)
  <1> SUFFICES ASSUME NEW i \in 0 .. W-1
               PROVE  (((WordMod-1) - a) \div Pow2[i]) % 2 = 1 <=> (a \div Pow2[i]) % 2 # 1
    BY DEF Bits
  <1> DEFINE p == Pow2[i]
             h == Pow2[(W-1)-i]
  <1>1. p \in Nat /\ p > 0 /\ h \in Nat
    BY Pow2Type, WAssumption
  <1>2. WordMod = p * (2*h)
    <2>1. (W-1)-i \in 0 .. 2*W-1 /\ W-i \in Nat /\ ((W-1)-i)+1 = W-i /\ i + (W-i) = W
      BY WAssumption
    <2>2. Pow2[W-i] = 2*h
      BY <2>1, Pow2Step
    <2>3. Pow2[i + (W-i)] = Pow2[i] * Pow2[W-i]
      BY <2>1, Pow2Sum, WAssumption
    <2> QED BY <2>1, <2>2, <2>3 DEF WordMod
  <1> HIDE DEF p, h
  <1>3. a \in Int
    BY SmallWords
  <1>4. PICK q \in Int, r \in 0 .. p-1 : q = a \div p /\ a = p * q + r
    BY <1>1, <1>3, DivMod
  <1> DEFINE c == (WordMod-1) - a
             m == (2*h - q) - 1
  <1>5. c = p * m + ((p-1) - r)
    <2>1. p * m = p * (2*h) - p * q - p
      BY <1>1, <1>4
    <2>2. p * (2*h) \in Int /\ p * q \in Int
      BY <1>1, <1>4
    <2> QED BY <1>1, <1>2, <1>4, <2>1, <2>2
  <1>6. c \in Int /\ m \in Int /\ (p-1) - r \in 0 .. p-1
    BY <1>1, <1>3, <1>4, WordHalves
  <1>7. c \div p = m
    <2> HIDE DEF c, m
    <2> QED BY <1>1, <1>5, <1>6, DivModUnique
  <1>8. m % 2 = 1 <=> q % 2 # 1
    BY <1>1, <1>4
  <1> QED BY <1>4, <1>7, <1>8 DEF p

(* Zero has no bits, and the largest word all of them.                     *)
LEMMA ExtremeBits == Bits(0) = {} /\ Bits(WordMod-1) = 0 .. W-1
  <1>1. \A i \in 0 .. W-1 : 0 \div Pow2[i] = 0
    BY Pow2Type, WAssumption
  <1>2. Bits(0) = {}
    BY <1>1 DEF Bits
  <1>3. 0 \in Word /\ (WordMod-1) - 0 = WordMod-1
    BY SmallWords, WordHalves
  <1> QED BY <1>2, <1>3, ComplementBits

(* The bitwise operators give words whatever they are applied to.          *)
LEMMA BitwiseType ==
  \A a, b : And(a, b) \in Word /\ Or(a, b) \in Word /\ Xor(a, b) \in Word /\ AndNot(a, b) \in Word
  BY FromBitsType DEF And, Or, Xor, AndNot

(* So do the shifts, of words.                                             *)
LEMMA ShiftType ==
  ASSUME NEW a \in Word, NEW n \in Word
  PROVE  ShiftL(a, n) \in Word /\ ShiftR(a, n) \in Word /\ ShiftRA(a, n) \in Word
  <1> DEFINE p == Pow2[n % W]
  <1>1. p \in Nat /\ p > 0
    <2>1. n % W \in 0 .. 2*W
      BY SmallWords, WAssumption
    <2> QED BY <2>1, Pow2Type
  <1>2. a \in 0 .. WordMod-1 /\ WordMod \in Nat /\ Signed(a) \in Int
    BY SignedRange, WordHalves DEF Word
  <1> HIDE DEF p
  <1>3. a * p \in Int /\ Signed(a) \div p \in Int
    BY <1>1, <1>2
  <1>4. a \div p \in 0 .. a
    BY <1>1, <1>2, DivSmaller
  <1> QED BY <1>2, <1>3, <1>4, ModIsWord DEF ShiftL, ShiftR, ShiftRA, Word, p

=============================================================================
