-------------------------- MODULE MuldivUnitProofs --------------------------
(***************************************************************************)
(* The arithmetic of the iterative unit, for every width: what k steps of  *)
(* shift-add multiplication and of restoring division have computed, and   *)
(* that restoring the signs gives the combinational unit's result.         *)
(***************************************************************************)
EXTENDS MuldivUnit, WordsProofs

-----------------------------------------------------------------------------
(* Integers.                                                               *)

(* A common positive factor cancels.                                       *)
LEMMA CancelFactor ==
  ASSUME NEW a \in Int, NEW b \in Int, NEW u \in Nat, u > 0, a * u = b * u
  PROVE  a = b
  <1>1. (a - b) * u = 0
    OBVIOUS
  <1> QED BY <1>1

(* One more bit of a number: what halving the weight of the last bit does. *)
LEMMA NextBit ==
  ASSUME NEW x \in Nat, NEW u \in Nat, u > 0
  PROVE  /\ x % (2*u) = (x % u) + u * ((x \div u) % 2)
         /\ 2 * (x \div (2*u)) = (x \div u) - ((x \div u) % 2)
  <1>1. PICK q \in Int, r \in 0 .. u-1 : q = x \div u /\ r = x % u /\ x = u * q + r
    BY DivMod
  <1>2. PICK h \in Int, c \in 0 .. 1 : h = q \div 2 /\ c = q % 2 /\ q = 2 * h + c
    BY DivMod
  <1>3. u * c \in 0 .. u
    BY <1>2
  <1>4. u * c + r \in 0 .. 2*u - 1
    BY <1>1, <1>3, <1>2
  <1>5. x = (2*u) * h + (u * c + r)
    <2>1. u * q = u * (2*h) + u * c
      BY <1>1, <1>2
    <2>2. u * (2*h) = (2*u) * h
      BY <1>2
    <2> QED BY <1>1, <1>2, <2>1, <2>2
  <1>6. x \div (2*u) = h /\ x % (2*u) = u * c + r
    <2> DEFINE uu == 2*u
               rr == u * c + r
    <2>1. uu \in Nat /\ uu > 0
      OBVIOUS
    <2>2. rr \in 0 .. uu-1 /\ x = uu * h + rr
      BY <1>4, <1>5
    <2> HIDE DEF uu, rr
    <2>3. x \div uu = h /\ x % uu = rr
      BY <1>2, <2>1, <2>2, DivModUnique
    <2> QED BY <2>3 DEF uu, rr
  <1> QED BY <1>1, <1>2, <1>6

(* A double word is a word of words.                                       *)
LEMMA DoubleWord ==
  DoubleMod \in Nat /\ DoubleMod = WordMod * WordMod
  <1>1. W \in Nat /\ W + W <= 2*W /\ W + W = 2*W
    BY WAssumption
  <1>2. Pow2[W + W] = Pow2[W] * Pow2[W]
    BY <1>1, Pow2Sum
  <1> QED BY <1>1, <1>2, WordHalves DEF DoubleMod, WordMod

-----------------------------------------------------------------------------
(* One step of the multiplication.                                         *)

(* The bit that leaves the accumulator adds the multiplicand to its upper  *)
(* half.                                                                   *)
LEMMA MulStepHalves ==
  ASSUME NEW acc \in Nat, NEW mcand \in Nat
  PROVE  /\ MulStep(acc, mcand) \in Nat
         /\ 2 * MulStep(acc, mcand) =
              acc - (acc % 2) + (IF acc % 2 = 1 THEN mcand * WordMod ELSE 0)
  <1>1. PICK upper \in Nat, lower \in 0 .. WordMod-1 :
          upper = acc \div WordMod /\ lower = acc % WordMod /\ acc = WordMod * upper + lower
    BY DivMod, DivSmaller, WordHalves
  <1>2. PICK half \in Nat, bit \in 0 .. 1 :
          half = lower \div 2 /\ bit = lower % 2 /\ lower = 2 * half + bit
    <2>1. lower \in Nat
      BY WordHalves
    <2> QED BY <2>1
  <1>3. lower = 2 * half + bit /\ acc = WordMod * upper + lower
    BY <1>1, <1>2
  <1>4. acc % 2 = bit
    <2> DEFINE rest == HalfMod * upper + half
    <2>1. WordMod * upper = 2 * (HalfMod * upper)
      BY WordHalves
    <2>2. rest \in Int /\ 2 * rest = WordMod * upper + 2 * half
      BY <2>1, WordHalves
    <2> HIDE DEF rest
    <2>3. acc = 2 * rest + bit
      BY <1>3, <2>2, WordHalves
    <2> QED BY <2>2, <2>3
  <1> DEFINE sum == IF acc % 2 = 1 THEN upper + mcand ELSE upper
             added == IF acc % 2 = 1 THEN mcand * WordMod ELSE 0
  <1>5. MulStep(acc, mcand) = sum * HalfMod + half
    BY <1>1, <1>2 DEF MulStep
  <1>6. 2 * (sum * HalfMod) = WordMod * upper + added
    <2>1. 2 * ((upper + mcand) * HalfMod) = WordMod * upper + mcand * WordMod
      BY WordHalves
    <2>2. 2 * (upper * HalfMod) = WordMod * upper
      BY WordHalves
    <2>3. CASE acc % 2 = 1
      <3>1. sum = upper + mcand /\ added = mcand * WordMod
        BY <2>3
      <3> QED BY <2>1, <3>1
    <2>4. CASE acc % 2 # 1
      <3>1. sum = upper /\ added = 0
        BY <2>4
      <3> QED BY <2>2, <3>1, WordHalves
    <2> QED BY <2>3, <2>4
  <1>7. sum * HalfMod \in Nat /\ added \in Nat /\ WordMod * upper \in Nat
    BY WordHalves
  <1> HIDE DEF sum, added
  <1>8. /\ sum * HalfMod + half \in Nat
        /\ 2 * (sum * HalfMod + half) = acc - bit + added
    BY <1>3, <1>6, <1>7
  <1> QED BY <1>4, <1>5, <1>8 DEF added

(* The accumulator is wide enough for the carry.                           *)
LEMMA MulStepType ==
  ASSUME NEW acc \in 0 .. DoubleMod-1, NEW mcand \in Word
  PROVE  MulStep(acc, mcand) \in 0 .. DoubleMod-1
  <1>1. acc \in Nat /\ mcand \in Nat /\ mcand <= WordMod-1
    BY DoubleWord, WordHalves DEF Word
  <1>2. mcand * WordMod <= DoubleMod - WordMod
    <2>1. (WordMod-1 - mcand) * WordMod >= 0
      BY <1>1, WordHalves
    <2>2. (WordMod-1 - mcand) * WordMod = WordMod * WordMod - WordMod - mcand * WordMod
      BY <1>1, WordHalves
    <2> QED BY <1>1, <2>1, <2>2, DoubleWord, WordHalves
  <1>3. mcand * WordMod \in Nat
    BY <1>1, WordHalves
  <1>4. acc % 2 \in 0 .. 1
    BY <1>1
  <1> DEFINE s == MulStep(acc, mcand)
  <1>5. s \in Nat /\ 2 * s = acc - (acc % 2) + (IF acc % 2 = 1 THEN mcand * WordMod ELSE 0)
    BY <1>1, MulStepHalves
  <1> HIDE DEF s
  <1>6. 2 * s <= 2 * DoubleMod - 2
    BY <1>1, <1>2, <1>3, <1>4, <1>5, DoubleWord, WordHalves
  <1> QED BY <1>5, <1>6, DoubleWord DEF s
(* One more step, in integers only: p is the multiplicand's weight, low    *)
(* and rest the used and unused bits of the multiplier, bit the next one.  *)
LEMMA ProductArithmetic ==
  ASSUME NEW acc \in Nat, NEW s \in Nat, NEW p \in Nat, NEW u \in Nat, NEW low \in Nat,
         NEW rest \in Nat, NEW bit \in 0 .. 1, NEW half \in Nat
  PROVE  (/\ acc * u = low * p + rest * u
          /\ 2 * s = acc - bit + bit * p
          /\ 2 * half = rest - bit)
         => s * (2*u) = (low + u * bit) * p + half * (2*u)
  <1>0. SUFFICES ASSUME acc * u = low * p + rest * u,
                        2 * s = acc - bit + bit * p,
                        2 * half = rest - bit
                 PROVE  s * (2*u) = (low + u * bit) * p + half * (2*u)
    OBVIOUS
  <1>1. CASE bit = 0
    <2>1. acc = 2 * s /\ rest = 2 * half
      BY <1>0, <1>1
    <2>2. s * (2*u) = acc * u /\ half * (2*u) = rest * u
      BY <2>1
    <2>3. (low + u * bit) * p = low * p
      BY <1>1
    <2> QED BY <1>0, <2>2, <2>3
  <1>2. CASE bit = 1
    <2>1. 2 * s = acc - 1 + p /\ 2 * half = rest - 1
      BY <1>0, <1>2
    <2>2. s * (2*u) = (acc - 1 + p) * u /\ half * (2*u) = (rest - 1) * u
      <3>1. s * (2*u) = (2*s) * u /\ half * (2*u) = (2*half) * u
        OBVIOUS
      <3> QED BY <2>1, <3>1
    <2>3. (acc - 1 + p) * u = acc * u - u + p * u /\ (rest - 1) * u = rest * u - u
      OBVIOUS
    <2>4. (low + u * bit) * p = low * p + p * u
      BY <1>2
    <2> QED BY <1>0, <2>2, <2>3, <2>4
  <1> QED BY <1>1, <1>2

(* While u of the multiplier's bits' weight is used up, 2 * u * v =        *)
(* WordMod, the accumulator's last bit is the multiplier's next one.       *)
LEMMA ProductParity ==
  ASSUME NEW acc \in Nat, NEW p \in Nat, NEW low \in Nat, NEW rest \in Nat,
         NEW u \in Nat, u > 0, NEW v \in Nat
  PROVE  acc * u = low * (p * (2 * (u * v))) + rest * u => acc % 2 = rest % 2
  <1>0. SUFFICES ASSUME acc * u = low * (p * (2 * (u * v))) + rest * u
                 PROVE  acc % 2 = rest % 2
    OBVIOUS
  <1> DEFINE x == low * (p * v)
  <1>1. x \in Nat
    OBVIOUS
  <1>2. low * (p * (2 * (u * v))) = (2 * x) * u
    OBVIOUS
  <1> HIDE DEF x
  <1>3. acc * u = (2 * x + rest) * u
    BY <1>0, <1>1, <1>2
  <1>4. acc = 2 * x + rest
    BY <1>1, <1>3, CancelFactor
  <1> QED BY <1>1, <1>4

(* What the accumulator holds when the multiplier's bits below weight u    *)
(* have been used.                                                         *)
ProductUpTo(acc, mcand, x, u) == acc * u = mcand * (x % u) * WordMod + (x \div u) * u

(* A shift-add step uses one more bit of the multiplier.                   *)
LEMMA MulStepProduct ==
  ASSUME NEW acc \in Nat, NEW mcand \in Nat, NEW x \in Nat,
         NEW u \in Nat, u > 0, NEW v \in Nat, 2 * (u * v) = WordMod,
         ProductUpTo(acc, mcand, x, u)
  PROVE  ProductUpTo(MulStep(acc, mcand), mcand, x, 2*u)
  <1> DEFINE p == mcand * WordMod
  <1>1. p \in Nat /\ \A y \in Nat : mcand * y * WordMod = y * p
    BY WordHalves
  <1> HIDE DEF p
  <1>2. PICK low \in Nat, rest \in Nat : low = x % u /\ rest = x \div u
    BY DivMod, DivSmaller
  <1>3. acc * u = low * p + rest * u
    BY <1>1, <1>2 DEF ProductUpTo
  <1>4. acc % 2 = rest % 2
    <2>1. p = mcand * (2 * (u * v))
      BY DEF p
    <2>2. acc * u = low * (mcand * (2 * (u * v))) + rest * u
      BY <1>3, <2>1
    <2> QED BY <2>2, ProductParity
  <1>5. PICK bit \in 0 .. 1 : bit = rest % 2
    OBVIOUS
  <1>6. PICK half \in Nat : half = x \div (2*u)
    <2>1. 2*u \in Nat /\ 2*u > 0
      OBVIOUS
    <2> QED BY <2>1, DivSmaller
  <1>7. x % (2*u) = low + u * bit /\ 2 * half = rest - bit
    BY <1>2, <1>5, <1>6, NextBit
  <1>8. PICK s \in Nat : s = MulStep(acc, mcand) /\ 2 * s = acc - bit + bit * p
    <2>1. /\ MulStep(acc, mcand) \in Nat
          /\ 2 * MulStep(acc, mcand) =
               acc - (acc % 2) + (IF acc % 2 = 1 THEN mcand * WordMod ELSE 0)
      BY MulStepHalves
    <2>2. acc % 2 = bit
      BY <1>4, <1>5
    <2>3. (IF acc % 2 = 1 THEN mcand * WordMod ELSE 0) = bit * p
      <3>1. bit = 0 \/ bit = 1
        OBVIOUS
      <3> QED BY <1>1, <2>2, <3>1 DEF p
    <2> QED BY <2>1, <2>2, <2>3
  <1>9. s * (2*u) = (low + u * bit) * p + half * (2*u)
    <2>1. 2 * s = acc - bit + bit * p /\ 2 * half = rest - bit /\ p \in Nat
      BY <1>1, <1>7, <1>8
    <2> QED BY <1>3, <2>1, ProductArithmetic
  <1>10. low + u * bit \in Nat
    BY <1>5
  <1>11. s * (2*u) = mcand * (low + u * bit) * WordMod + half * (2*u)
    BY <1>1, <1>9, <1>10
  <1> QED BY <1>6, <1>7, <1>8, <1>11 DEF ProductUpTo
-----------------------------------------------------------------------------
(* One step of the division.                                               *)

(* A register whose halves are hi and {bit, lo}.                           *)
Halves(r, hi, bit, lo) == r = hi * WordMod + (bit * HalfMod + lo)

(* The step on such a register: hi takes in the bit, and c is the new bit  *)
(* of the quotient.                                                        *)
TrialStep(hi, bit, lo, d) ==
  IF 2*hi + bit >= d THEN (2*hi + bit - d) * WordMod + (2*lo + 1)
  ELSE (2*hi + bit) * WordMod + 2*lo

StepResult(r, d, hi, bit, lo) ==
  \E c \in 0 .. 1, rem \in 0 .. d-1 :
    /\ DivStep(r, d) \div WordMod = rem
    /\ DivStep(r, d) % WordMod = 2*lo + c
    /\ \A quo \in Nat : 2 * (quo * d + hi) + bit = (2*quo + c) * d + rem

(* ... unless hi is so large that the shift would drop its top bit.        *)
LEMMA DivStepHalves ==
  ASSUME NEW hi \in Nat, NEW bit \in 0 .. 1, NEW lo \in 0 .. HalfMod-1, NEW d \in Nat,
         2*hi + bit <= WordMod-1,
         NEW r, Halves(r, hi, bit, lo)
  PROVE  DivStep(r, d) = TrialStep(hi, bit, lo, d)
  <1> DEFINE trial == 2*hi + bit
             shifted == (r * 2) % DoubleMod
  <1>1. lo \in Nat /\ 2*lo \in 0 .. WordMod-1 /\ trial \in 0 .. WordMod-1
    BY WordHalves
  <1>2. r \in Nat /\ r * 2 = WordMod * trial + 2*lo
    <2>1. hi * WordMod \in Nat /\ bit * HalfMod \in Nat
      BY WordHalves
    <2>2. WordMod * trial = (hi * WordMod) * 2 + (bit * HalfMod) * 2
      BY WordHalves
    <2> QED BY <1>1, <2>1, <2>2 DEF Halves
  <1> HIDE DEF trial
  <1>3. r * 2 \in 0 .. DoubleMod-1
    <2>1. WordMod * trial <= DoubleMod - WordMod
      <3>1. (WordMod-1 - trial) * WordMod >= 0
        BY <1>1, WordHalves
      <3>2. (WordMod-1 - trial) * WordMod = WordMod * WordMod - WordMod - WordMod * trial
        BY <1>1, WordHalves
      <3> QED BY <1>1, <3>1, <3>2, DoubleWord, WordHalves
    <2>2. WordMod * trial \in Int
      BY <1>1, WordHalves
    <2> QED BY <1>1, <1>2, <2>1, <2>2, DoubleWord, WordHalves
  <1>4. shifted = r * 2
    <2> HIDE DEF shifted
    <2>1. DoubleMod \in Nat /\ DoubleMod > 0
      BY <1>3, DoubleWord
    <2>2. \A n \in 0 .. DoubleMod-1 : n % DoubleMod = n
      BY <2>1
    <2> QED BY <1>3, <2>2 DEF shifted
  <1>5. shifted \div WordMod = trial /\ shifted % WordMod = 2*lo
    <2> HIDE DEF shifted
    <2>1. shifted = WordMod * trial + 2*lo /\ shifted \in Int
      BY <1>2, <1>4
    <2>2. WordMod \in Nat /\ WordMod > 0
      BY WordHalves
    <2> QED BY <1>1, <2>1, <2>2, DivModUnique
  <1>6. (2*lo) \div 2 = lo
    BY <1>1
  <1>7. WordMod * trial = trial * WordMod
    BY <1>1, WordHalves
  <1>8. DivStep(r, d) = IF trial >= d THEN (trial - d) * WordMod + 2 * ((shifted % WordMod) \div 2) + 1
                        ELSE shifted
    <2>1. trial = shifted \div WordMod
      BY <1>5
    <2> HIDE DEF trial
    <2> QED BY <2>1 DEF DivStep
  <1>9. DivStep(r, d) = IF trial >= d THEN (trial - d) * WordMod + (2*lo + 1)
                        ELSE trial * WordMod + 2*lo
    <2> HIDE DEF shifted
    <2>1. (trial - d) * WordMod \in Int
      BY <1>1, WordHalves
    <2>2. (trial - d) * WordMod + 2 * lo + 1 = (trial - d) * WordMod + (2*lo + 1)
      BY <1>1, <2>1
    <2> QED BY <1>2, <1>4, <1>5, <1>6, <1>7, <1>8, <2>2
  <1> QED BY <1>9 DEF trial, TrialStep

(* Two words side by side.                                                 *)
LEMMA SplitRegister ==
  ASSUME NEW hi \in Nat, NEW lo \in 0 .. WordMod-1
  PROVE  /\ (hi * WordMod + lo) \div WordMod = hi
         /\ (hi * WordMod + lo) % WordMod = lo
  <1>1. hi * WordMod + lo = WordMod * hi + lo /\ hi * WordMod + lo \in Int
    BY WordHalves
  <1> QED BY <1>1, DivModUnique, WordHalves

(* A register is its upper and its lower word.                             *)
LEMMA JoinRegister ==
  ASSUME NEW r \in Nat
  PROVE  /\ r \div WordMod \in Nat /\ r % WordMod \in 0 .. WordMod-1
         /\ r = (r \div WordMod) * WordMod + (r % WordMod)
  <1>1. WordMod \in Nat /\ WordMod > 0
    BY WordHalves
  <1>2. PICK q \in Int, m \in 0 .. WordMod-1 :
          q = r \div WordMod /\ m = r % WordMod /\ r = WordMod * q + m
    BY <1>1, DivMod
  <1>3. q \in Nat
    BY <1>1, <1>2, DivSmaller
  <1>4. WordMod * q = q * WordMod
    BY <1>1, <1>3
  <1> QED BY <1>2, <1>3, <1>4

(* The upper half of a double word is a word.                              *)
LEMMA UpperHalf ==
  ASSUME NEW r \in 0 .. DoubleMod-1
  PROVE  r \div WordMod \in 0 .. WordMod-1
  <1>1. r \in Nat
    BY DoubleWord
  <1>2. PICK t \in Nat, m \in 0 .. WordMod-1 :
          t = r \div WordMod /\ r = t * WordMod + m
    BY <1>1, JoinRegister
  <1>3. t <= WordMod-1
    <2> SUFFICES ASSUME t >= WordMod PROVE FALSE
      BY WordHalves
    <2>1. t * WordMod >= WordMod * WordMod
      <3>1. (t - WordMod) * WordMod >= 0
        BY WordHalves
      <3>2. (t - WordMod) * WordMod = t * WordMod - WordMod * WordMod
        BY WordHalves
      <3>3. t * WordMod \in Int /\ WordMod * WordMod \in Int
        BY WordHalves
      <3> QED BY <3>1, <3>2, <3>3
    <2>2. t * WordMod \in Int
      BY WordHalves
    <2> QED BY <1>2, <2>1, <2>2, DoubleWord
  <1> QED BY <1>2, <1>3

(* Whatever the divisor, the register keeps its width.                     *)
LEMMA DivStepType ==
  ASSUME NEW r \in 0 .. DoubleMod-1, NEW d \in Word
  PROVE  DivStep(r, d) \in 0 .. DoubleMod-1
  <1> DEFINE shifted == (r * 2) % DoubleMod
  <1>1. shifted \in 0 .. DoubleMod-1 /\ DoubleMod \in Nat
    BY DoubleWord
  <1>2. PICK t \in Nat, m \in 0 .. WordMod-1 :
          t = shifted \div WordMod /\ m = shifted % WordMod /\ shifted = t * WordMod + m
    <2> HIDE DEF shifted
    <2>1. shifted \in Nat
      BY <1>1
    <2> QED BY <2>1, JoinRegister
  <1>3. PICK h \in Nat : h = m \div 2 /\ 2*h + 1 <= WordMod
    <2>1. m \in Nat /\ WordMod = 2 * HalfMod
      BY WordHalves
    <2> QED BY <2>1, WordHalves
  <1>4. DivStep(r, d) = IF t >= d THEN (t - d) * WordMod + 2*h + 1 ELSE shifted
    BY <1>2, <1>3 DEF DivStep
  <1> HIDE DEF shifted
  <1>5. t <= WordMod-1
    BY <1>1, <1>2, UpperHalf, WordHalves
  <1>6. CASE t >= d
    <2>1. PICK k \in 0 .. WordMod-1 : k = t - d
      BY <1>5, <1>6, WordHalves DEF Word
    <2>2. k * WordMod \in Nat /\ k * WordMod <= DoubleMod - WordMod
      <3>1. (WordMod-1 - k) * WordMod >= 0
        BY WordHalves
      <3>2. (WordMod-1 - k) * WordMod = WordMod * WordMod - WordMod - k * WordMod
        BY WordHalves
      <3>3. k * WordMod \in Nat
        BY WordHalves
      <3> QED BY <3>1, <3>2, <3>3, DoubleWord, WordHalves
    <2>3. DivStep(r, d) = k * WordMod + 2*h + 1
      BY <1>4, <1>6, <2>1
    <2> QED BY <1>1, <1>3, <2>2, <2>3, WordHalves
  <1> QED BY <1>1, <1>4, <1>6 DEF Word
(* The register when the dividend's bits from weight y up have been used:  *)
(* the remainder of those, the bits left, and the quotient bits found,     *)
(* which have weights below x.                                             *)
QuotientUpTo(r, d, dividend, y, x) ==
  /\ (r % WordMod) \div x = dividend % y
  /\ dividend \div y = ((r % WordMod) % x) * d + (r \div WordMod)
  /\ r \div WordMod < d

(* A quotient bit found doubles the quotient so far, in integers only.     *)
LEMMA QuotientArithmetic ==
  ASSUME NEW quo \in Nat, NEW d \in Nat, NEW hi \in Nat, NEW bit \in 0 .. 1, hi < d
  PROVE  LET t == 2*hi + bit
             c == IF t >= d THEN 1 ELSE 0
         IN /\ 2 * (quo * d + hi) + bit = (2*quo + c) * d + (t - c * d)
            /\ t - c * d \in 0 .. d-1
  <1> DEFINE t == 2*hi + bit
  <1>1. (2*quo + 1) * d = 2 * (quo * d) + d /\ (2*quo + 0) * d = 2 * (quo * d)
    OBVIOUS
  <1>2. quo * d \in Nat
    OBVIOUS
  <1>3. CASE t >= d
    BY <1>1, <1>2, <1>3
  <1>4. CASE ~(t >= d)
    BY <1>1, <1>2, <1>4
  <1> QED BY <1>3, <1>4

(* The halves of the register after the step, c being the new quotient bit.*)
LEMMA DivStepResult ==
  ASSUME NEW r, NEW d \in Nat,
         NEW hi \in Nat, NEW bit \in 0 .. 1, NEW lo \in 0 .. HalfMod-1,
         Halves(r, hi, bit, lo), 2*hi + bit <= WordMod-1, hi < d
  PROVE  StepResult(r, d, hi, bit, lo)
  <1> DEFINE t == 2*hi + bit
             c == IF t >= d THEN 1 ELSE 0
             rem == t - c * d
  <1>1. c \in 0 .. 1
    OBVIOUS
  <1>2. \A quo \in Nat : 2 * (quo * d + hi) + bit = (2*quo + c) * d + rem
    BY QuotientArithmetic
  <1>3. rem \in 0 .. d-1
    BY QuotientArithmetic
  <1>4. DivStep(r, d) = rem * WordMod + (2*lo + c)
    <2>1. DivStep(r, d) = IF t >= d THEN (t - d) * WordMod + (2*lo + 1) ELSE t * WordMod + 2*lo
      <3>1. DivStep(r, d) = TrialStep(hi, bit, lo, d)
        BY DivStepHalves
      <3> QED BY <3>1 DEF TrialStep
    <2>2. CASE t >= d
      <3>1. c = 1 /\ rem = t - d
        BY <2>2
      <3> HIDE DEF t, c, rem
      <3> QED BY <2>1, <2>2, <3>1
    <2>3. CASE ~(t >= d)
      <3>1. c = 0 /\ rem = t
        BY <2>3
      <3>2. 2*lo + 0 = 2*lo
        BY WordHalves
      <3> HIDE DEF t, c, rem
      <3> QED BY <2>1, <2>3, <3>1, <3>2
    <2> QED BY <2>2, <2>3
  <1> HIDE DEF t, c, rem
  <1>5. 2*lo + c \in 0 .. WordMod-1
    BY <1>1, WordHalves
  <1>6. /\ DivStep(r, d) \div WordMod = rem
        /\ DivStep(r, d) % WordMod = 2*lo + c
    <2>1. rem \in Nat
      BY <1>3
    <2> QED BY <1>4, <1>5, <2>1, SplitRegister
  <1> QED BY <1>1, <1>2, <1>3, <1>6 DEF StepResult

(* One more bit of the dividend, moved over to the remainder.              *)
LEMMA RegroupBits ==
  ASSUME NEW x \in Nat, NEW z \in Nat, NEW bit \in 0 .. 1, NEW left \in Nat, NEW quo \in Nat
  PROVE  x * (z * bit + left) + quo = bit * (x * z) + (x * left + quo)
  OBVIOUS

(* Bits of weight below z over bits of weight below x: together below x*z. *)
LEMMA LowerBits ==
  ASSUME NEW x \in Nat, x > 0, NEW z \in Nat, z > 0,
         NEW left \in 0 .. z-1, NEW quo \in 0 .. x-1
  PROVE  x * left + quo \in 0 .. x * z - 1
  <1>1. x * ((z-1) - left) >= 0
    OBVIOUS
  <1>2. x * ((z-1) - left) = x * z - x - x * left
    OBVIOUS
  <1>3. x * z \in Nat /\ x * left \in Nat
    OBVIOUS
  <1> QED BY <1>1, <1>2, <1>3

(* The invariant of the division: after one more step, one more bit of the *)
(* dividend is used.                                                       *)
LEMMA DivStepQuotient ==
  ASSUME NEW r \in Nat, NEW d \in Nat, NEW dividend \in Word,
         NEW z \in Nat, z > 0, NEW x \in Nat, x > 0, x * z = HalfMod,
         QuotientUpTo(r, d, dividend, 2*z, x)
  PROVE  QuotientUpTo(DivStep(r, d), d, dividend, z, 2*x)
  <1>1. PICK hi \in Nat, low \in 0 .. WordMod-1 :
          hi = r \div WordMod /\ low = r % WordMod /\ r = hi * WordMod + low
    BY JoinRegister
  <1>2. low \in Nat /\ dividend \in Nat /\ dividend < WordMod /\ 2*z \in Nat /\ 2*z > 0
    BY WordHalves DEF Word
  <1>3. PICK rest \in Nat, quo \in 0 .. x-1 :
          rest = low \div x /\ quo = low % x /\ low = x * rest + quo
    BY <1>2, DivMod, DivSmaller
  <1>4. /\ rest = dividend % (2*z)
        /\ dividend \div (2*z) = quo * d + hi
        /\ hi < d
    BY <1>1, <1>3 DEF QuotientUpTo
  <1>5. PICK bit \in 0 .. 1, left \in 0 .. z-1 :
          rest = z * bit + left /\ dividend % z = left
          /\ dividend \div z = 2 * (quo * d + hi) + bit
    <2>1. PICK q \in Nat, m \in 0 .. z-1 : q = dividend \div z /\ m = dividend % z
      BY <1>2, DivMod, DivSmaller
    <2>2. dividend % (2*z) = m + z * (q % 2) /\ 2 * (dividend \div (2*z)) = q - (q % 2)
      BY <1>2, <2>1, NextBit
    <2>3. PICK b \in 0 .. 1 : b = q % 2
      OBVIOUS
    <2>4. rest = z * b + m
      <3>1. z * b \in Int
        OBVIOUS
      <3> QED BY <1>4, <2>2, <2>3, <3>1
    <2>5. q = 2 * (quo * d + hi) + b
      <3>1. quo * d + hi \in Int
        OBVIOUS
      <3> QED BY <1>4, <2>2, <2>3, <3>1
    <2> QED BY <2>1, <2>4, <2>5
  <1>6. PICK lo \in 0 .. HalfMod-1 : lo = x * left + quo
    BY LowerBits
  <1>7. Halves(r, hi, bit, lo)
    <2>1. left \in Nat /\ quo \in Nat
      OBVIOUS
    <2>2. x * (z * bit + left) + quo = bit * (x * z) + (x * left + quo)
      BY <2>1, RegroupBits
    <2>3. low = bit * HalfMod + lo
      BY <1>3, <1>5, <1>6, <2>2
    <2> QED BY <1>1, <2>3 DEF Halves
  <1>8. 2*hi + bit <= WordMod-1
    <2>1. quo * d >= 0 /\ quo * d \in Int
      OBVIOUS
    <2>2. dividend \div z \in 0 .. dividend
      BY <1>2, DivSmaller
    <2> QED BY <1>2, <1>5, <2>1, <2>2, WordHalves
  <1>9. PICK c \in 0 .. 1, rem \in 0 .. d-1 :
          /\ DivStep(r, d) \div WordMod = rem
          /\ DivStep(r, d) % WordMod = 2*lo + c
          /\ \A n \in Nat : 2 * (n * d + hi) + bit = (2*n + c) * d + rem
    <2>1. StepResult(r, d, hi, bit, lo)
      BY <1>4, <1>7, <1>8, DivStepResult
    <2> QED BY <2>1 DEF StepResult
  <1>10. 2 * (quo * d + hi) + bit = (2*quo + c) * d + rem
    BY <1>9
  <1>11. (2*lo + c) \div (2*x) = left /\ (2*lo + c) % (2*x) = 2*quo + c
    <2> DEFINE xx == 2*x
               y == 2*lo + c
               n == 2*quo + c
    <2>1. xx \in Nat /\ xx > 0
      OBVIOUS
    <2>2. n \in 0 .. xx-1
      OBVIOUS
    <2>3. y = xx * left + n
      <3>1. (2*x) * left = 2 * (x * left) /\ x * left \in Int
        OBVIOUS
      <3> QED BY <1>6, <3>1
    <2>4. y \in Int
      BY WordHalves
    <2> HIDE DEF xx, y, n
    <2>5. y \div xx = left /\ y % xx = n
      BY <2>1, <2>2, <2>3, <2>4, DivModUnique
    <2> QED BY <2>5 DEF xx, y, n
  <1> QED BY <1>5, <1>9, <1>10, <1>11 DEF QuotientUpTo
-----------------------------------------------------------------------------
(* Signs.                                                                  *)

(* A signed word is its magnitude with its sign.                           *)
LEMMA SignAndMagnitude ==
  ASSUME NEW x \in Word
  PROVE  LET neg == x >= HalfMod
             mag == Magnitude(neg, x)
         IN /\ mag \in Word
            /\ Signed(x) = (IF neg THEN -mag ELSE mag)
            /\ Abs(Signed(x)) = mag
            /\ Sign(Signed(x)) = (IF neg THEN -1 ELSE 1)
            /\ mag = 0 <=> x = 0
  <1>1. x \in Nat /\ x <= WordMod-1
    BY WordHalves DEF Word
  <1>2. CASE x >= HalfMod
    <2>1. WordMod - x \in 0 .. WordMod-1
      BY <1>1, <1>2, WordHalves
    <2>2. Neg(x) = WordMod - x
      BY <2>1, WordHalves DEF Neg
    <2> QED BY <1>1, <1>2, <2>1, <2>2, WordHalves DEF Magnitude, Signed, Abs, Sign, Word
  <1>3. CASE ~(x >= HalfMod)
    BY <1>1, <1>3, WordHalves DEF Magnitude, Signed, Abs, Sign, Word
  <1> QED BY <1>2, <1>3

(* A magnitude is a word, and 0 only for 0.                                *)
LEMMA MagnitudeType ==
  ASSUME NEW neg \in BOOLEAN, NEW x \in Word
  PROVE  /\ Magnitude(neg, x) \in Word
         /\ Magnitude(neg, x) = 0 <=> x = 0
         /\ ~neg => Magnitude(neg, x) = x
  <1>1. x \in Nat /\ x <= WordMod-1
    BY WordHalves DEF Word
  <1>2. CASE x = 0
    BY <1>2, SmallWords, WordHalves DEF Magnitude, Neg
  <1>3. CASE x # 0
    <2>1. WordMod - x \in 1 .. WordMod-1
      BY <1>1, <1>3, WordHalves
    <2>2. (WordMod - x) % WordMod = WordMod - x
      BY <2>1, WordHalves
    <2> QED BY <1>1, <1>3, <2>1, <2>2, WordHalves DEF Magnitude, Neg, Word
  <1> QED BY <1>2, <1>3

(* A whole number of words changes nothing modulo 2^W.                     *)
LEMMA ModShift ==
  ASSUME NEW x \in Int, NEW k \in Int
  PROVE  (x + WordMod * k) % WordMod = x % WordMod
  <1>1. WordMod \in Nat /\ WordMod > 0
    BY WordHalves
  <1>2. PICK q \in Int, r \in 0 .. WordMod-1 : r = x % WordMod /\ x = WordMod * q + r
    BY <1>1, DivMod
  <1>3. x + WordMod * k = WordMod * (q + k) + r
    BY <1>1, <1>2
  <1>4. x + WordMod * k \in Int /\ q + k \in Int
    BY <1>1
  <1> QED BY <1>1, <1>2, <1>3, <1>4, DivModUnique

(* The two halves of a negated double word.                                *)
LEMMA NegatedDouble ==
  ASSUME NEW p \in 0 .. DoubleMod-1
  PROVE  LET n == (DoubleMod - p) % DoubleMod
         IN /\ n % WordMod = (-p) % WordMod
            /\ n \div WordMod = ((-p) \div WordMod) % WordMod
  <1> DEFINE n == (DoubleMod - p) % DoubleMod
  <1>1. PICK k \in 0 .. 1 : n = k * DoubleMod - p /\ n \in 0 .. DoubleMod-1
    <2>1. CASE p = 0
      <3>1. DoubleMod \in Nat /\ DoubleMod > 0
        BY DoubleWord
      <3>2. n = 0 /\ n = 0 * DoubleMod - p
        BY <2>1, <3>1
      <3> QED BY <3>1, <3>2
    <2>2. CASE p # 0
      <3>1. DoubleMod - p \in 0 .. DoubleMod-1
        BY <2>2, DoubleWord
      <3>2. n = DoubleMod - p
        BY <3>1, DoubleWord
      <3> QED BY <3>1, <3>2, DoubleWord
    <2> QED BY <2>1, <2>2
  <1> HIDE DEF n
  <1>2. WordMod \in Nat /\ WordMod > 0 /\ p \in Int
    BY WordHalves, DoubleWord
  <1>3. PICK q \in Int, r \in 0 .. WordMod-1 :
          q = (-p) \div WordMod /\ r = (-p) % WordMod /\ -p = WordMod * q + r
    BY <1>2, DivMod
  <1>4. n = WordMod * (k * WordMod + q) + r
    <2>1. k * DoubleMod = WordMod * (k * WordMod)
      BY <1>2, DoubleWord
    <2>2. WordMod * (k * WordMod + q) = WordMod * (k * WordMod) + WordMod * q
      BY <1>2
    <2>3. WordMod * (k * WordMod) \in Int /\ WordMod * q \in Int
      BY <1>2
    <2> QED BY <1>1, <1>2, <1>3, <2>1, <2>2, <2>3
  <1> DEFINE h == k * WordMod + q
  <1>5. h \in Int
    BY <1>2
  <1>6. n \div WordMod = h /\ n % WordMod = r
    <2>1. n \in Int
      BY <1>1
    <2> QED BY <1>2, <1>4, <1>5, <2>1, DivModUnique
  <1>7. h \in 0 .. WordMod-1
    <2>1. n \div WordMod \in 0 .. WordMod-1
      BY <1>1, UpperHalf
    <2> QED BY <1>6, <2>1
  <1>8. q % WordMod = h
    <2>1. q = WordMod * (-k) + h
      BY <1>2
    <2>2. -k \in Int
      OBVIOUS
    <2> HIDE DEF h
    <2> QED BY <1>2, <1>7, <2>1, <2>2, DivModUnique
  <1> QED BY <1>3, <1>6, <1>8 DEF n
-----------------------------------------------------------------------------
(* The results.                                                            *)

(* A product of two words fits a double word.                              *)
LEMMA ProductRange ==
  ASSUME NEW x \in Word, NEW y \in Word
  PROVE  x * y \in 0 .. DoubleMod-1
  <1>1. x \in Nat /\ y \in Nat /\ x <= WordMod-1 /\ y <= WordMod-1
    BY WordHalves DEF Word
  <1>2. x * y <= x * (WordMod-1)
    <2>1. x * ((WordMod-1) - y) >= 0
      BY <1>1, WordHalves
    <2>2. x * ((WordMod-1) - y) = x * (WordMod-1) - x * y
      BY <1>1, WordHalves
    <2>3. x * (WordMod-1) \in Int /\ x * y \in Int
      BY <1>1, WordHalves
    <2> QED BY <2>1, <2>2, <2>3
  <1>3. x * (WordMod-1) <= WordMod * WordMod - WordMod
    <2>1. (WordMod - x) * (WordMod-1) >= 0
      BY <1>1, WordHalves
    <2>2. (WordMod - x) * (WordMod-1) = WordMod * WordMod - WordMod - x * (WordMod-1)
      BY <1>1, WordHalves
    <2>3. x * (WordMod-1) \in Int /\ WordMod * WordMod \in Int
      BY <1>1, WordHalves
    <2> QED BY <2>1, <2>2, <2>3, WordHalves
  <1>4. x * y \in Nat /\ x * (WordMod-1) \in Int
    BY <1>1, WordHalves
  <1> QED BY <1>2, <1>3, <1>4, DoubleWord, WordHalves

(* What the result bus makes of the accumulator.                           *)
WithSign(neg, p) == IF neg THEN (DoubleMod - p) % DoubleMod ELSE p

(* The sign may be applied before the upper half is taken.                 *)
LEMMA HighHalf ==
  ASSUME NEW p \in 0 .. DoubleMod-1, NEW neg \in BOOLEAN
  PROVE  WithSign(neg, p) \div WordMod = ((IF neg THEN -p ELSE p) \div WordMod) % WordMod
  <1>1. CASE neg
    BY <1>1, NegatedDouble DEF WithSign
  <1>2. CASE ~neg
    <2>1. PICK h \in 0 .. WordMod-1 : h = p \div WordMod
      BY UpperHalf
    <2>2. h % WordMod = h
      BY WordHalves
    <2> QED BY <1>2, <2>1, <2>2 DEF WithSign
  <1> QED BY <1>1, <1>2

(* The low half of a product is the same for signed and unsigned factors.  *)
LEMMA LowHalf ==
  ASSUME NEW mag \in Word, NEW b \in Word, NEW neg \in BOOLEAN
  PROVE  WithSign(neg, b * mag) % WordMod =
           ((IF neg THEN -mag ELSE mag) * Signed(b)) % WordMod
  <1>1. PICK p \in 0 .. DoubleMod-1 : p = b * mag
    BY ProductRange
  <1>2. b \in Int /\ mag \in Int /\ Signed(b) \in Int /\ p \in Int
    BY <1>1, SignedRange, WordHalves, DoubleWord DEF Word
  <1>3. PICK k \in Int : Signed(b) = b + WordMod * k
    <2>1. Signed(b) = b + WordMod * 0 \/ Signed(b) = b + WordMod * (-1)
      BY <1>2, SignedRange, WordHalves
    <2> QED BY <2>1
  <1>4. CASE neg
    <2>1. WithSign(neg, p) % WordMod = (-p) % WordMod
      BY <1>4, NegatedDouble DEF WithSign
    <2>2. (-mag) * (b + WordMod * k) = (-p) + WordMod * (-(mag * k))
      BY <1>1, <1>2, WordHalves
    <2>3. -p \in Int /\ -(mag * k) \in Int
      BY <1>2
    <2>4. ((-p) + WordMod * (-(mag * k))) % WordMod = (-p) % WordMod
      BY <2>3, ModShift
    <2> QED BY <1>1, <1>3, <1>4, <2>1, <2>2, <2>4
  <1>5. CASE ~neg
    <2>1. mag * (b + WordMod * k) = p + WordMod * (mag * k)
      BY <1>1, <1>2, WordHalves
    <2>2. mag * k \in Int
      BY <1>2
    <2>3. (p + WordMod * (mag * k)) % WordMod = p % WordMod
      BY <1>2, <2>2, ModShift
    <2> QED BY <1>1, <1>3, <1>5, <2>1, <2>3 DEF WithSign
  <1> QED BY <1>4, <1>5

(* The registers of a multiplication of a and b.                           *)
Multiplies(m, op, a, b) ==
  /\ m.op_r = op /\ m.op_a_r = a
  /\ m.mul_a_sign = (op % 4 # 3 /\ a >= HalfMod)
  /\ m.mul_b_sign = (op % 4 = 1 /\ b >= HalfMod)
  /\ m.mul_mcand = Magnitude(m.mul_b_sign, b)

(* When all bits are used, the bus has the product muldiv.sv computes.     *)
LEMMA MultiplyResult ==
  ASSUME NEW m, NEW op \in 0 .. 3, NEW a \in Word, NEW b \in Word,
         Multiplies(m, op, a, b),
         m.mul_acc = m.mul_mcand * Magnitude(m.mul_a_sign, a)
  PROVE  MuldivBus(m) = MuldivResult(op, a, b)
  <1> DEFINE negA == a >= HalfMod
             negB == b >= HalfMod
             magA == Magnitude(negA, a)
             magB == Magnitude(negB, b)
  <1>1. /\ magA \in Word /\ Signed(a) = (IF negA THEN -magA ELSE magA)
        /\ magB \in Word /\ Signed(b) = (IF negB THEN -magB ELSE magB)
    BY SignAndMagnitude
  <1>2. a \in Nat /\ b \in Nat /\ magA \in Nat /\ magB \in Nat
    BY <1>1, WordHalves DEF Word
  <1>3. \A x : Magnitude(FALSE, x) = x
    BY DEF Magnitude
  <1>4. negA \in BOOLEAN /\ negB \in BOOLEAN
    OBVIOUS
  <1>5. m.op_r = op
    BY DEF Multiplies
  <1>6. CASE op = 0
    <2>0. op % 4 # 3 /\ op % 4 # 1
      BY <1>6
    <2>1. m.mul_a_sign = negA /\ m.mul_b_sign = FALSE /\ m.mul_acc = b * magA
      <3>1. /\ (op % 4 # 3 /\ a >= HalfMod) = negA
            /\ (op % 4 = 1 /\ b >= HalfMod) = FALSE
        BY <2>0
      <3>2. m.mul_a_sign = negA /\ m.mul_b_sign = FALSE
        BY <3>1 DEF Multiplies
      <3> QED BY <1>3, <3>2 DEF Multiplies
    <2> HIDE DEF negA, negB, magA, magB
    <2>2. (m.mul_a_sign # m.mul_b_sign) = negA
      BY <1>4, <2>1
    <2>3. MuldivBus(m) = WithSign(negA, b * magA) % WordMod
      <3>1. MuldivBus(m) = WithSign(m.mul_a_sign # m.mul_b_sign, m.mul_acc) % WordMod
        BY <1>5, <1>6 DEF MuldivBus, WithSign
      <3> QED BY <2>1, <2>2, <3>1
    <2>4. MuldivResult(op, a, b) = ((IF negA THEN -magA ELSE magA) * Signed(b)) % WordMod
      BY <1>1, <1>6 DEF MuldivResult
    <2> QED BY <1>1, <1>4, <2>3, <2>4, LowHalf
  <1>7. CASE op = 1
    <2>1. m.mul_a_sign = negA /\ m.mul_b_sign = negB /\ m.mul_acc = magB * magA
      BY <1>7 DEF Multiplies
    <2> HIDE DEF negA, negB, magA, magB
    <2>2. PICK p \in 0 .. DoubleMod-1, neg \in BOOLEAN : p = magB * magA /\ neg = (negA # negB)
      BY <1>1, ProductRange
    <2>3. MuldivBus(m) = WithSign(neg, p) \div WordMod
      <3>1. MuldivBus(m) = WithSign(m.mul_a_sign # m.mul_b_sign, m.mul_acc) \div WordMod
        BY <1>5, <1>7 DEF MuldivBus, WithSign
      <3> QED BY <2>1, <2>2, <3>1
    <2>4. Signed(a) * Signed(b) = IF neg THEN -p ELSE p
      <3>1. /\ (-magA) * magB = -(magB * magA) /\ magA * (-magB) = -(magB * magA)
            /\ (-magA) * (-magB) = magB * magA /\ magA * magB = magB * magA
        BY <1>2
      <3> QED BY <1>1, <1>4, <2>2, <3>1
    <2>5. MuldivResult(op, a, b) = ((IF neg THEN -p ELSE p) \div WordMod) % WordMod
      BY <1>7, <2>4 DEF MuldivResult
    <2> QED BY <2>3, <2>5, HighHalf
  <1>8. CASE op = 2
    <2>0. op % 4 # 3 /\ op % 4 # 1
      BY <1>8
    <2>1. m.mul_a_sign = negA /\ m.mul_b_sign = FALSE /\ m.mul_acc = b * magA
      <3>1. /\ (op % 4 # 3 /\ a >= HalfMod) = negA
            /\ (op % 4 = 1 /\ b >= HalfMod) = FALSE
        BY <2>0
      <3>2. m.mul_a_sign = negA /\ m.mul_b_sign = FALSE
        BY <3>1 DEF Multiplies
      <3> QED BY <1>3, <3>2 DEF Multiplies
    <2> HIDE DEF negA, negB, magA, magB
    <2>2. PICK p \in 0 .. DoubleMod-1 : p = b * magA
      BY <1>1, ProductRange
    <2>3. MuldivBus(m) = WithSign(negA, p) \div WordMod
      BY <1>5, <1>8, <2>1, <2>2 DEF MuldivBus, WithSign
    <2>4. Signed(a) * b = IF negA THEN -p ELSE p
      <3>1. (-magA) * b = -(b * magA) /\ magA * b = b * magA
        BY <1>2
      <3> QED BY <1>1, <1>4, <2>2, <3>1
    <2>5. MuldivResult(op, a, b) = ((IF negA THEN -p ELSE p) \div WordMod) % WordMod
      BY <1>8, <2>4 DEF MuldivResult
    <2> QED BY <1>4, <2>3, <2>5, HighHalf
  <1>9. CASE op = 3
    <2>0. op % 4 = 3
      BY <1>9
    <2>1. m.mul_a_sign = FALSE /\ m.mul_b_sign = FALSE
      <3>1. /\ (op % 4 # 3 /\ a >= HalfMod) = FALSE
            /\ (op % 4 = 1 /\ b >= HalfMod) = FALSE
        BY <2>0
      <3> QED BY <3>1 DEF Multiplies
    <2>2. m.mul_acc = b * a
      BY <1>3, <2>1 DEF Multiplies
    <2>3. b * a = a * b
      BY <1>2
    <2> QED BY <1>5, <1>9, <2>2, <2>3 DEF MuldivBus, MuldivResult
  <1> QED BY <1>6, <1>7, <1>8, <1>9
(* The registers of a division of a by b.                                  *)
Divides(m, op, a, b) ==
  /\ m.op_r = op /\ m.op_a_r = a
  /\ m.div_a_sign = (op % 2 = 0 /\ a >= HalfMod)
  /\ m.div_b_sign = (op % 2 = 0 /\ b >= HalfMod)
  /\ m.div_by_zero = (b = 0)
  /\ m.div_divisor = Magnitude(m.div_b_sign, b)
  /\ m.is_div_overflow = (a = MinInt /\ m.div_b_sign /\ b = AllOnes)

(* The register has become quotient and remainder.                         *)
Divided(r, d, dividend) ==
  /\ dividend = (r % WordMod) * d + (r \div WordMod)
  /\ r \div WordMod < d

(* The sign of a word, restored on the bus.                                *)
LEMMA RestoredSign ==
  ASSUME NEW x \in Word, NEW neg \in BOOLEAN
  PROVE  Magnitude(neg, x) = (IF neg THEN -x ELSE x) % WordMod
  <1>1. x \in 0 .. WordMod-1 /\ WordMod \in Nat /\ WordMod > 0
    BY WordHalves DEF Word
  <1>2. x % WordMod = x
    BY <1>1
  <1>3. Neg(x) = (-x) % WordMod
    <2>1. -x \in Int /\ WordMod - x = (-x) + WordMod * 1
      BY <1>1
    <2> QED BY <2>1, ModShift DEF Neg
  <1> QED BY <1>2, <1>3 DEF Magnitude

(* A dividend and a divisor by sign and magnitude, the magnitudes divided. *)
SignedParts(sa, sb, na, nb, q, r, d) ==
  /\ Abs(sa) = q * d + r /\ r < d /\ Abs(sb) = d
  /\ Sign(sa) = (IF na THEN -1 ELSE 1) /\ Sign(sb) = (IF nb THEN -1 ELSE 1)
  /\ sa = (IF na THEN -Abs(sa) ELSE Abs(sa)) /\ sb = (IF nb THEN -d ELSE d)

(* Division of signed numbers by magnitudes and signs.                     *)
LEMMA SignedDivision ==
  ASSUME NEW q \in Nat, NEW r \in Nat, NEW d \in Nat,
         NEW na \in BOOLEAN, NEW nb \in BOOLEAN, NEW sa \in Int, NEW sb \in Int,
         SignedParts(sa, sb, na, nb, q, r, d)
  PROVE  /\ Quot(sa, sb) = (IF na # nb THEN -q ELSE q)
         /\ Rem(sa, sb) = (IF na THEN -r ELSE r)
  <1>0. /\ Abs(sa) = q * d + r /\ r < d /\ Abs(sb) = d
        /\ Sign(sa) = (IF na THEN -1 ELSE 1) /\ Sign(sb) = (IF nb THEN -1 ELSE 1)
        /\ sa = (IF na THEN -Abs(sa) ELSE Abs(sa)) /\ sb = (IF nb THEN -d ELSE d)
    BY DEF SignedParts
  <1>1. (q * d + r) \div d = q
    <2>1. q * d + r = d * q + r /\ q * d + r \in Int
      OBVIOUS
    <2> QED BY <1>0, <2>1, DivModUnique
  <1>2. Quot(sa, sb) = (IF na THEN -1 ELSE 1) * (IF nb THEN -1 ELSE 1) * q
    BY <1>0, <1>1 DEF Quot
  <1>3. Quot(sa, sb) = (IF na # nb THEN -q ELSE q)
    BY <1>2
  <1>4. Rem(sa, sb) = (IF na THEN -r ELSE r)
    <2>1. PICK qd \in Nat : qd = q * d
      OBVIOUS
    <2>2. d * q = qd /\ (-d) * q = -qd /\ d * (-q) = -qd /\ (-d) * (-q) = qd
      BY <2>1
    <2>3. sa = (IF na THEN -(qd + r) ELSE qd + r) /\ sb = (IF nb THEN -d ELSE d)
      BY <1>0, <2>1
    <2> QED BY <1>3, <2>2, <2>3 DEF Rem
  <1> QED BY <1>3, <1>4

(* When all bits are used, it has the quotient or remainder it computes.   *)
LEMMA DivideResult ==
  ASSUME NEW m, NEW op \in 4 .. 7, NEW a \in Word, NEW b \in Word,
         NEW r \in 0 .. DoubleMod-1, m.div_rem = r,
         Divides(m, op, a, b),
         b # 0 => Divided(r, m.div_divisor, Magnitude(m.div_a_sign, a))
  PROVE  MuldivBus(m) = MuldivResult(op, a, b)
  <1>1. PICK hi \in Word, lo \in Word : hi = r \div WordMod /\ lo = r % WordMod
    BY UpperHalf, JoinRegister, DoubleWord DEF Word
  <1>2. a \in Nat /\ b \in Nat /\ hi \in Nat /\ lo \in Nat
    BY WordHalves DEF Word
  <1>3. m.op_r = op /\ m.op_a_r = a /\ m.div_by_zero = (b = 0)
    BY DEF Divides
  <1>4. CASE b = 0
    <2>1. m.div_by_zero = TRUE
      BY <1>3, <1>4
    <2>2. op = 4 \/ op = 5 \/ op = 6 \/ op = 7
      OBVIOUS
    <2> QED BY <1>3, <1>4, <2>1, <2>2 DEF MuldivBus, MuldivResult
  <1>5. CASE b # 0 /\ op \in {5, 7}
    <2>1. op % 2 = 1
      BY <1>5
    <2>2. m.div_a_sign = FALSE /\ m.div_b_sign = FALSE
      <3>1. /\ (op % 2 = 0 /\ a >= HalfMod) = FALSE
            /\ (op % 2 = 0 /\ b >= HalfMod) = FALSE
        BY <2>1
      <3> QED BY <3>1 DEF Divides
    <2>3. m.div_divisor = b /\ Magnitude(m.div_a_sign, a) = a
      BY <2>2 DEF Divides, Magnitude
    <2>4. a = lo * b + hi /\ hi < b
      BY <1>1, <1>5, <2>3 DEF Divided
    <2>5. a \div b = lo /\ a % b = hi
      <3>1. lo * b = b * lo
        BY <1>2
      <3>2. b > 0
        BY <1>2, <2>4
      <3> QED BY <1>2, <2>4, <3>1, <3>2, DivModUnique
    <2>6. m.div_by_zero = FALSE
      BY <1>3, <1>5
    <2>7. MuldivBus(m) = (IF op = 5 THEN lo ELSE hi)
      BY <1>1, <1>3, <1>5, <2>6 DEF MuldivBus
    <2>8. MuldivResult(op, a, b) = (IF op = 5 THEN a \div b ELSE a % b)
      BY <1>5 DEF MuldivResult
    <2> QED BY <2>5, <2>7, <2>8
  <1>6. CASE b # 0 /\ op \in {4, 6}
    <2> DEFINE negA == a >= HalfMod
               negB == b >= HalfMod
               magA == Magnitude(negA, a)
               magB == Magnitude(negB, b)
    <2>1. m.div_a_sign = negA /\ m.div_b_sign = negB
      <3>1. op % 2 = 0
        BY <1>6
      <3>2. /\ (op % 2 = 0 /\ a >= HalfMod) = negA
            /\ (op % 2 = 0 /\ b >= HalfMod) = negB
        BY <3>1
      <3> QED BY <3>2 DEF Divides
    <2>2. magA = lo * magB + hi /\ hi < magB
      BY <1>1, <1>6, <2>1 DEF Divided, Divides
    <2>3. /\ magA \in Word /\ Signed(a) = (IF negA THEN -magA ELSE magA)
          /\ Abs(Signed(a)) = magA /\ Sign(Signed(a)) = (IF negA THEN -1 ELSE 1)
          /\ magB \in Word /\ Signed(b) = (IF negB THEN -magB ELSE magB)
          /\ Abs(Signed(b)) = magB /\ Sign(Signed(b)) = (IF negB THEN -1 ELSE 1)
      BY SignAndMagnitude
    <2>4. negA \in BOOLEAN /\ negB \in BOOLEAN
      OBVIOUS
    <2>5. m.div_by_zero = FALSE
      BY <1>3, <1>6
    <2>6. magA \in Nat /\ magB \in Nat /\ Signed(a) \in Int /\ Signed(b) \in Int
      BY <2>3, SignedRange, WordHalves DEF Word
    <2> DEFINE overflow == a = MinInt /\ b = AllOnes
    <2>7. m.is_div_overflow = overflow
      <3>1. b = AllOnes => negB
        BY WordHalves DEF AllOnes
      <3>2. (a = MinInt /\ negB /\ b = AllOnes) = overflow
        BY <3>1
      <3> QED BY <2>1, <3>2 DEF Divides
    <2>8. /\ Quot(Signed(a), Signed(b)) = (IF negA # negB THEN -lo ELSE lo)
          /\ Rem(Signed(a), Signed(b)) = (IF negA THEN -hi ELSE hi)
      <3> HIDE DEF negA, negB, magA, magB
      <3>1. SignedParts(Signed(a), Signed(b), negA, negB, lo, hi, magB)
        BY <2>2, <2>3 DEF SignedParts
      <3> QED BY <1>2, <2>4, <2>6, <3>1, SignedDivision
    <2> HIDE DEF negA, negB, magA, magB, overflow
    <2>9. /\ Magnitude(negA # negB, lo) = (IF negA # negB THEN -lo ELSE lo) % WordMod
          /\ Magnitude(negA, hi) = (IF negA THEN -hi ELSE hi) % WordMod
      BY <2>4, RestoredSign
    <2>10. CASE op = 4
      <3>1. MuldivBus(m) = IF overflow THEN MinInt ELSE Magnitude(negA # negB, lo)
        BY <1>1, <1>3, <2>1, <2>5, <2>7, <2>10 DEF MuldivBus
      <3>2. MuldivResult(op, a, b) =
              IF overflow THEN MinInt ELSE Quot(Signed(a), Signed(b)) % WordMod
        BY <1>6, <2>10 DEF MuldivResult, overflow
      <3> QED BY <2>8, <2>9, <3>1, <3>2
    <2>11. CASE op = 6
      <3>1. MuldivBus(m) = IF overflow THEN 0 ELSE Magnitude(negA, hi)
        BY <1>1, <1>3, <2>1, <2>5, <2>7, <2>11 DEF MuldivBus
      <3>2. MuldivResult(op, a, b) =
              IF overflow THEN 0 ELSE Rem(Signed(a), Signed(b)) % WordMod
        BY <1>6, <2>11 DEF MuldivResult, overflow
      <3> QED BY <2>8, <2>9, <3>1, <3>2
    <2> QED BY <1>6, <2>10, <2>11
  <1> QED BY <1>4, <1>5, <1>6
-----------------------------------------------------------------------------
(* The unit between two clock edges: what it was asked, op on a and b, and *)
(* how far it has got.                                                     *)
UnitPhases(m) ==
  /\ m \in MuldivRegisters
  /\ m.busy = (m.state # "IDLE")
  /\ m.done => m.state = "IDLE"
  /\ m.state \in {"MUL_RUN", "DIV_RUN"} => m.iter_cnt < W
  /\ m.state = "FINISH" \/ m.done => m.iter_cnt = W

WorkDone(m, op, a, b) ==
  IF op < 4
  THEN /\ Multiplies(m, op, a, b)
       /\ ProductUpTo(m.mul_acc, m.mul_mcand, Magnitude(m.mul_a_sign, a), Pow2[m.iter_cnt])
  ELSE /\ Divides(m, op, a, b)
       /\ b # 0 => QuotientUpTo(m.div_rem, m.div_divisor, Magnitude(m.div_a_sign, a),
                                Pow2[W - m.iter_cnt], Pow2[m.iter_cnt])

MuldivInv(m, op, a, b) ==
  /\ UnitPhases(m)
  /\ m.state = "MUL_RUN" => op < 4
  /\ m.state = "DIV_RUN" => op >= 4
  /\ m.state # "IDLE" \/ m.done => WorkDone(m, op, a, b)

(* The registers keep their widths and the phases their order, whatever    *)
(* the caller presents: first one register, then several.                  *)
LEMMA RegisterWrites ==
  ASSUME NEW m \in MuldivRegisters
  PROVE  /\ \A x \in {"IDLE", "MUL_RUN", "DIV_RUN", "FINISH"} :
              [m EXCEPT !.state = x] \in MuldivRegisters
         /\ \A x \in BOOLEAN : [m EXCEPT !.busy = x] \in MuldivRegisters
         /\ \A x \in BOOLEAN : [m EXCEPT !.done = x] \in MuldivRegisters
         /\ \A x \in Word : [m EXCEPT !.op_a_r = x] \in MuldivRegisters
         /\ \A x \in 0 .. 7 : [m EXCEPT !.op_r = x] \in MuldivRegisters
         /\ \A x \in 0 .. W : [m EXCEPT !.iter_cnt = x] \in MuldivRegisters
         /\ \A x \in 0 .. DoubleMod-1 : [m EXCEPT !.mul_acc = x] \in MuldivRegisters
         /\ \A x \in 0 .. DoubleMod-1 : [m EXCEPT !.div_rem = x] \in MuldivRegisters
  <1> QED BY DEF MuldivRegisters

(* The widths of the unit's registers, one by one.                         *)
LEMMA RegisterTypes ==
  ASSUME NEW m \in MuldivRegisters
  PROVE  /\ m.state \in {"IDLE", "MUL_RUN", "DIV_RUN", "FINISH"}
         /\ m.op_a_r \in Word /\ m.op_r \in 0 .. 7 /\ m.iter_cnt \in 0 .. W
         /\ m.mul_acc \in 0 .. DoubleMod-1 /\ m.mul_mcand \in Word
         /\ m.div_rem \in 0 .. DoubleMod-1 /\ m.div_divisor \in Word
  BY DEF MuldivRegisters


(* None of them is negative.                                               *)
LEMMA RegisterNaturals ==
  ASSUME NEW m \in MuldivRegisters
  PROVE  m.mul_acc \in Nat /\ m.mul_mcand \in Nat /\ m.div_rem \in Nat /\ m.div_divisor \in Nat
  <1>1. 0 .. DoubleMod-1 \subseteq Nat /\ Word \subseteq Nat
    BY DoubleWord, SmallWords
  <1> QED BY <1>1, RegisterTypes

(* An iteration keeps the widths.                                          *)
LEMMA IteratedType ==
  ASSUME NEW m \in MuldivRegisters, m.iter_cnt < W
  PROVE  Iterated(m) \in MuldivRegisters
  <1>1. m.iter_cnt + 1 \in 0 .. W
    BY RegisterTypes, WAssumption
  <1>2. (IF m.iter_cnt = W - 1 THEN "FINISH" ELSE m.state)
           \in {"IDLE", "MUL_RUN", "DIV_RUN", "FINISH"}
    BY RegisterTypes
  <1>3. \A k \in 0 .. W, s \in {"IDLE", "MUL_RUN", "DIV_RUN", "FINISH"} :
          [m EXCEPT !.done = FALSE, !.iter_cnt = k, !.state = s] \in MuldivRegisters
    BY DEF MuldivRegisters
  <1> QED BY <1>1, <1>2, <1>3 DEF Iterated

(* What an iteration does to the registers that control the unit.          *)
LEMMA IteratedFields ==
  ASSUME NEW m \in MuldivRegisters
  PROVE  /\ Iterated(m).state = (IF m.iter_cnt = W - 1 THEN "FINISH" ELSE m.state)
         /\ Iterated(m).iter_cnt = m.iter_cnt + 1
         /\ Iterated(m).done = FALSE /\ Iterated(m).busy = m.busy
  BY DEF Iterated, MuldivRegisters

(* The handshake is in order after a reset.                                *)
LEMMA UnitPhasesReset == UnitPhases(MuldivReset)
  <1>1. 0 \in Word /\ 0 \in 0 .. DoubleMod-1 /\ 0 \in 0 .. W /\ 0 \in 0 .. 7
    <2>1. DoubleMod > 0
      BY DoubleWord, WordHalves
    <2> QED BY <2>1, SmallWords, DoubleWord, WAssumption
  <1>2. MuldivReset \in MuldivRegisters
    BY <1>1 DEF MuldivReset, MuldivRegisters
  <1> QED BY <1>2 DEF UnitPhases, MuldivReset

(* A clock edge keeps it so, whatever the inputs are.                      *)
LEMMA UnitPhasesNext ==
  ASSUME NEW m, UnitPhases(m), NEW start \in BOOLEAN, NEW op_en \in BOOLEAN,
         NEW a \in Word, NEW b \in Word, NEW op \in 0 .. 7
  PROVE  UnitPhases(MuldivNext(m, start, op_en, a, b, op))
  <1>1. m \in MuldivRegisters /\ m.state \in {"IDLE", "MUL_RUN", "DIV_RUN", "FINISH"}
    BY RegisterTypes DEF UnitPhases
  <1>2. CASE m.state = "IDLE" /\ ~start
    <2>1. MuldivNext(m, start, op_en, a, b, op) = [m EXCEPT !.done = FALSE]
      BY <1>2 DEF MuldivNext
    <2> QED BY <1>2, <2>1 DEF UnitPhases, MuldivRegisters
  <1>3. CASE m.state = "IDLE" /\ start
    <2> DEFINE gated == IF op_en THEN [m EXCEPT !.op_a_r = a, !.op_r = op] ELSE m
               started == [gated EXCEPT !.busy = TRUE, !.done = FALSE, !.iter_cnt = 0]
    <2>1. started \in MuldivRegisters /\ started.busy = TRUE /\ started.done = FALSE
      <3>1. gated \in MuldivRegisters
        BY <1>1 DEF MuldivRegisters
      <3>2. 0 \in 0 .. W
        BY WAssumption
      <3> HIDE DEF gated
      <3> QED BY <3>1, <3>2 DEF MuldivRegisters
    <2>2. MuldivNext(m, start, op_en, a, b, op) =
            IF op < 4 THEN MulAccept(started, a, b, op) ELSE DivAccept(started, a, b, op)
      BY <1>3 DEF MuldivNext, MuldivAccept
    <2>20. started.iter_cnt = 0
      <3>1. gated \in MuldivRegisters
        BY <1>1 DEF MuldivRegisters
      <3> HIDE DEF gated
      <3> QED BY <3>1 DEF MuldivRegisters
    <2> HIDE DEF started
    <2>3. \A neg \in BOOLEAN, x \in Word :
            Magnitude(neg, x) \in Word /\ Magnitude(neg, x) \in 0 .. DoubleMod-1
      <3>1. Word \subseteq 0 .. DoubleMod-1
        <4>1. WordMod <= WordMod * WordMod
          BY TimesPositive, WordHalves
        <4> QED BY <4>1, DoubleWord, WordHalves DEF Word
      <3> QED BY <3>1, MagnitudeType
    <2>4. UnitPhases(MulAccept(started, a, b, op))
      <3> DEFINE na == op % 4 # 3 /\ a >= HalfMod
                 nb == op % 4 = 1 /\ b >= HalfMod
      <3>1. na \in BOOLEAN /\ nb \in BOOLEAN
        OBVIOUS
      <3>2. MulAccept(started, a, b, op) =
              [started EXCEPT !.state = "MUL_RUN", !.mul_a_sign = na, !.mul_b_sign = nb,
                              !.mul_mcand = Magnitude(nb, b), !.mul_acc = Magnitude(na, a)]
        BY DEF MulAccept
      <3> HIDE DEF na, nb
      <3>3. MulAccept(started, a, b, op) \in MuldivRegisters
        <4>1. PICK d \in Word : d = Magnitude(nb, b)
          BY <2>3, <3>1
        <4>2. PICK x \in 0 .. DoubleMod-1 : x = Magnitude(na, a)
          BY <2>3, <3>1
        <4> QED BY <2>1, <3>1, <3>2, <4>1, <4>2 DEF MuldivRegisters
      <3>4. /\ MulAccept(started, a, b, op).state = "MUL_RUN"
            /\ MulAccept(started, a, b, op).busy = TRUE
            /\ MulAccept(started, a, b, op).done = FALSE
            /\ MulAccept(started, a, b, op).iter_cnt = 0
        BY <2>1, <2>20, <3>2 DEF MuldivRegisters
      <3>5. (MulAccept(started, a, b, op).state # "IDLE") = TRUE /\ 0 < W
        BY <3>4, WAssumption
      <3> QED BY <3>3, <3>4, <3>5 DEF UnitPhases
    <2>5. UnitPhases(DivAccept(started, a, b, op))
      <3> DEFINE na == op % 2 = 0 /\ a >= HalfMod
                 nb == op % 2 = 0 /\ b >= HalfMod
                 over == a = MinInt /\ nb /\ b = AllOnes
                 zero == b = 0
      <3>1. na \in BOOLEAN /\ nb \in BOOLEAN /\ over \in BOOLEAN /\ zero \in BOOLEAN
        OBVIOUS
      <3>2. DivAccept(started, a, b, op) =
              [started EXCEPT !.state = "DIV_RUN", !.div_a_sign = na, !.div_b_sign = nb,
                              !.div_by_zero = zero, !.div_divisor = Magnitude(nb, b),
                              !.is_div_overflow = over, !.div_rem = Magnitude(na, a)]
        BY DEF DivAccept
      <3> HIDE DEF na, nb, over, zero
      <3>3. DivAccept(started, a, b, op) \in MuldivRegisters
        <4>1. PICK d \in Word : d = Magnitude(nb, b)
          BY <2>3, <3>1
        <4>2. PICK x \in 0 .. DoubleMod-1 : x = Magnitude(na, a)
          BY <2>3, <3>1
        <4> DEFINE first == [started EXCEPT !.state = "DIV_RUN", !.div_a_sign = na,
                                            !.div_b_sign = nb, !.div_by_zero = zero]
        <4>3. first \in MuldivRegisters
          BY <2>1, <3>1 DEF MuldivRegisters
        <4>4. DivAccept(started, a, b, op) =
                [first EXCEPT !.div_divisor = d, !.is_div_overflow = over, !.div_rem = x]
          BY <3>2, <4>1, <4>2
        <4> HIDE DEF first
        <4> QED BY <3>1, <4>3, <4>4 DEF MuldivRegisters
      <3>4. /\ DivAccept(started, a, b, op).state = "DIV_RUN"
            /\ DivAccept(started, a, b, op).busy = TRUE
            /\ DivAccept(started, a, b, op).done = FALSE
            /\ DivAccept(started, a, b, op).iter_cnt = 0
        BY <2>1, <2>20, <3>2 DEF MuldivRegisters
      <3>5. (DivAccept(started, a, b, op).state # "IDLE") = TRUE /\ 0 < W
        BY <3>4, WAssumption
      <3> QED BY <3>3, <3>4, <3>5 DEF UnitPhases
    <2> QED BY <2>2, <2>4, <2>5
  <1>4. CASE m.state \in {"MUL_RUN", "DIV_RUN"}
    <2> DEFINE next == MuldivNext(m, start, op_en, a, b, op)
               it == Iterated(m)
    <2>1. m.iter_cnt \in 0 .. W-1 /\ m.done = FALSE /\ m.busy = TRUE
      <3>1. m.done \in BOOLEAN /\ m.iter_cnt \in 0 .. W
        BY <1>1 DEF MuldivRegisters
      <3>2. m.state # "IDLE" /\ (m.state # "IDLE") = TRUE
        BY <1>4
      <3>3. m.iter_cnt < W /\ ~m.done /\ m.busy = TRUE
        BY <1>4, <3>2 DEF UnitPhases
      <3> QED BY <3>1, <3>3, WAssumption
    <2>2. it \in MuldivRegisters
      <3>1. m.iter_cnt < W
        BY <2>1, WAssumption
      <3> QED BY <1>1, <3>1, IteratedType DEF it
    <2>3. /\ it.state = (IF m.iter_cnt = W - 1 THEN "FINISH" ELSE m.state)
          /\ it.iter_cnt = m.iter_cnt + 1 /\ it.done = FALSE /\ it.busy = TRUE
      BY <1>1, <2>1, IteratedFields
    <2> HIDE DEF it
    <2>4. /\ next \in MuldivRegisters /\ next.state = it.state /\ next.iter_cnt = it.iter_cnt
          /\ next.done = it.done /\ next.busy = it.busy
      <3>1. CASE m.state = "MUL_RUN"
        <4>1. next = [it EXCEPT !.mul_acc = MulStep(m.mul_acc, m.mul_mcand)]
          BY <3>1 DEF MuldivNext, it
        <4>2. MulStep(m.mul_acc, m.mul_mcand) \in 0 .. DoubleMod-1
          BY <1>1, MulStepType, RegisterTypes
        <4> HIDE DEF next
        <4>3. next \in MuldivRegisters
          BY <2>2, <4>1, <4>2, RegisterWrites
        <4> QED BY <2>2, <4>1, <4>3 DEF MuldivRegisters
      <3>2. CASE m.state = "DIV_RUN"
        <4>1. next = [it EXCEPT !.div_rem = DivStep(m.div_rem, m.div_divisor)]
          BY <3>2 DEF MuldivNext, it
        <4>2. DivStep(m.div_rem, m.div_divisor) \in 0 .. DoubleMod-1
          BY <1>1, DivStepType, RegisterTypes
        <4> HIDE DEF next
        <4>3. next \in MuldivRegisters
          BY <2>2, <4>1, <4>2, RegisterWrites
        <4> QED BY <2>2, <4>1, <4>3 DEF MuldivRegisters
      <3> QED BY <1>4, <3>1, <3>2
    <2> HIDE DEF next
    <2>5. UnitPhases(next)
      <3>1. (next.state # "IDLE") = TRUE /\ next.done = FALSE /\ next.busy = TRUE
        BY <1>4, <2>3, <2>4
      <3>2. /\ next.state \in {"MUL_RUN", "DIV_RUN"} => next.iter_cnt < W
            /\ next.state = "FINISH" => next.iter_cnt = W
        BY <1>4, <2>1, <2>3, <2>4, WAssumption
      <3> QED BY <2>4, <3>1, <3>2 DEF UnitPhases
    <2> QED BY <2>5 DEF next
  <1>6. CASE m.state = "FINISH"
    <2>1. MuldivNext(m, start, op_en, a, b, op) =
            [m EXCEPT !.busy = FALSE, !.done = TRUE, !.state = "IDLE"]
      BY <1>6 DEF MuldivNext
    <2> QED BY <1>6, <2>1 DEF UnitPhases, MuldivRegisters
  <1> QED BY <1>1, <1>2, <1>3, <1>4, <1>6
(* Before the first step nothing is used up of the multiplier, and no bit  *)
(* of the quotient is known.                                               *)
LEMMA FirstStep ==
  ASSUME NEW x \in Word, NEW d \in Nat
  PROVE  ProductUpTo(x, d, x, Pow2[0]) /\ (d > 0 => QuotientUpTo(x, d, x, Pow2[W], Pow2[0]))
  <1>1. Pow2[0] = 1 /\ Pow2[W] = WordMod
    BY Pow2Step DEF WordMod
  <1>2. x \in 0 .. WordMod-1 /\ x \in Nat
    BY WordHalves DEF Word
  <1>3. x % 1 = 0 /\ x \div 1 = x
    BY <1>2
  <1>4. ProductUpTo(x, d, x, Pow2[0])
    BY <1>1, <1>2, <1>3, WordHalves DEF ProductUpTo
  <1>5. x % WordMod = x /\ x \div WordMod = 0
    BY <1>2, WordHalves
  <1>6. ASSUME d > 0
        PROVE  QuotientUpTo(x, d, x, Pow2[W], Pow2[0])
    BY <1>1, <1>3, <1>5, <1>6 DEF QuotientUpTo
  <1> QED BY <1>4, <1>6

(* The edge that starts the unit establishes what it works from.           *)
LEMMA StartWork ==
  ASSUME NEW m, UnitPhases(m), m.state = "IDLE",
         NEW a \in Word, NEW b \in Word, NEW op \in 0 .. 7
  PROVE  MuldivInv(MuldivNext(m, TRUE, TRUE, a, b, op), op, a, b)
  <1> DEFINE next == MuldivNext(m, TRUE, TRUE, a, b, op)
             started == [[m EXCEPT !.op_a_r = a, !.op_r = op]
                            EXCEPT !.busy = TRUE, !.done = FALSE, !.iter_cnt = 0]
  <1>1. UnitPhases(next)
    BY UnitPhasesNext
  <1>2. m \in MuldivRegisters
    BY DEF UnitPhases
  <1>3. started \in MuldivRegisters
    <2>1. 0 \in 0 .. W
      BY WAssumption
    <2> QED BY <1>2, <2>1 DEF MuldivRegisters
  <1>4. started.op_a_r = a /\ started.op_r = op /\ started.iter_cnt = 0
    BY <1>2 DEF MuldivRegisters
  <1>5. next = IF op < 4 THEN MulAccept(started, a, b, op) ELSE DivAccept(started, a, b, op)
    BY DEF MuldivNext, MuldivAccept
  <1> HIDE DEF next, started
  <1>6. ASSUME op < 4
        PROVE  MuldivInv(next, op, a, b)
    <2> DEFINE na == op % 4 # 3 /\ a >= HalfMod
               nb == op % 4 = 1 /\ b >= HalfMod
    <2>1. na \in BOOLEAN /\ nb \in BOOLEAN
      OBVIOUS
    <2>2. next = [started EXCEPT !.state = "MUL_RUN", !.mul_a_sign = na, !.mul_b_sign = nb,
                                 !.mul_mcand = Magnitude(nb, b), !.mul_acc = Magnitude(na, a)]
      BY <1>5, <1>6 DEF MulAccept
    <2> HIDE DEF na, nb
    <2>3. /\ next.state = "MUL_RUN" /\ next.mul_a_sign = na /\ next.mul_b_sign = nb
          /\ next.mul_mcand = Magnitude(nb, b) /\ next.mul_acc = Magnitude(na, a)
          /\ next.op_a_r = a /\ next.op_r = op /\ next.iter_cnt = 0
      BY <1>3, <1>4, <2>2 DEF MuldivRegisters
    <2>4. Multiplies(next, op, a, b)
      BY <2>3 DEF Multiplies, na, nb
    <2>5. Magnitude(na, a) \in Word /\ Magnitude(nb, b) \in Nat
      BY <2>1, MagnitudeType, SmallWords
    <2>6. ProductUpTo(next.mul_acc, next.mul_mcand, Magnitude(next.mul_a_sign, a),
                      Pow2[next.iter_cnt])
      BY <2>3, <2>5, FirstStep
    <2>7. WorkDone(next, op, a, b)
      BY <1>6, <2>4, <2>6 DEF WorkDone
    <2> QED BY <1>1, <1>6, <2>3, <2>7 DEF MuldivInv
  <1>7. ASSUME op >= 4
        PROVE  MuldivInv(next, op, a, b)
    <2> DEFINE na == op % 2 = 0 /\ a >= HalfMod
               nb == op % 2 = 0 /\ b >= HalfMod
               over == a = MinInt /\ nb /\ b = AllOnes
               zero == b = 0
    <2>1. na \in BOOLEAN /\ nb \in BOOLEAN
      OBVIOUS
    <2>2. next = [started EXCEPT !.state = "DIV_RUN", !.div_a_sign = na, !.div_b_sign = nb,
                                 !.div_by_zero = zero, !.div_divisor = Magnitude(nb, b),
                                 !.is_div_overflow = over, !.div_rem = Magnitude(na, a)]
      BY <1>5, <1>7 DEF DivAccept
    <2> HIDE DEF na, nb, over, zero
    <2>3. /\ next.state = "DIV_RUN" /\ next.div_a_sign = na /\ next.div_b_sign = nb
          /\ next.div_divisor = Magnitude(nb, b) /\ next.div_rem = Magnitude(na, a)
          /\ next.div_by_zero = zero /\ next.is_div_overflow = over
          /\ next.op_a_r = a /\ next.op_r = op /\ next.iter_cnt = 0
      BY <1>3, <1>4, <2>2 DEF MuldivRegisters
    <2>4. Divides(next, op, a, b)
      BY <2>3 DEF Divides, na, nb, over, zero
    <2>5. Magnitude(na, a) \in Word /\ Magnitude(nb, b) \in Nat /\ (b # 0 => Magnitude(nb, b) > 0)
      <3>1. Magnitude(nb, b) \in Nat
        BY <2>1, MagnitudeType, SmallWords
      <3>2. b # 0 => Magnitude(nb, b) # 0
        BY <2>1, MagnitudeType
      <3> QED BY <2>1, <3>1, <3>2, MagnitudeType
    <2>6. b # 0 => QuotientUpTo(next.div_rem, next.div_divisor, Magnitude(next.div_a_sign, a),
                                Pow2[W - next.iter_cnt], Pow2[next.iter_cnt])
      <3>1. W - next.iter_cnt = W
        BY <2>3, WAssumption
      <3> QED BY <2>3, <2>5, <3>1, FirstStep
    <2>7. WorkDone(next, op, a, b)
      BY <1>7, <2>4, <2>6 DEF WorkDone
    <2> QED BY <1>1, <1>7, <2>3, <2>7 DEF MuldivInv
  <1>8. op < 4 \/ op >= 4
    OBVIOUS
  <1> QED BY <1>6, <1>7, <1>8 DEF next

(* A clock edge on which nothing is started does one more step of the work.*)
LEMMA StepWork ==
  ASSUME NEW m, NEW op \in 0 .. 7, NEW a \in Word, NEW b \in Word, MuldivInv(m, op, a, b),
         NEW start \in BOOLEAN, m.state = "IDLE" => ~start,
         NEW op_en \in BOOLEAN, NEW x \in Word, NEW y \in Word, NEW z \in 0 .. 7
  PROVE  MuldivInv(MuldivNext(m, start, op_en, x, y, z), op, a, b)
  <1> DEFINE next == MuldivNext(m, start, op_en, x, y, z)
  <1>1. UnitPhases(m) /\ UnitPhases(next)
    BY UnitPhasesNext DEF MuldivInv
  <1>2. m \in MuldivRegisters /\ m.state \in {"IDLE", "MUL_RUN", "DIV_RUN", "FINISH"}
    BY <1>1, RegisterTypes DEF UnitPhases
  <1>3. CASE m.state = "IDLE"
    <2>1. next = [m EXCEPT !.done = FALSE]
      BY <1>3 DEF MuldivNext
    <2> HIDE DEF next
    <2>2. next.state = "IDLE" /\ next.done = FALSE
      BY <1>2, <1>3, <2>1 DEF MuldivRegisters
    <2>3. MuldivInv(next, op, a, b)
      BY <1>1, <2>2 DEF MuldivInv
    <2> QED BY <2>3 DEF next
  <1>4. CASE m.state = "MUL_RUN"
    <2> DEFINE it == Iterated(m)
               mag == Magnitude(m.mul_a_sign, a)
               k == m.iter_cnt
    <2>1. op < 4 /\ k \in 0 .. W-1
      <3>1. k \in 0 .. W /\ k < W
        BY <1>1, <1>2, <1>4, RegisterTypes DEF UnitPhases
      <3> QED BY <1>4, <3>1, WAssumption DEF MuldivInv
    <2>2. Multiplies(m, op, a, b) /\ ProductUpTo(m.mul_acc, m.mul_mcand, mag, Pow2[k])
      BY <1>4, <2>1 DEF MuldivInv, WorkDone
    <2>3. next = [it EXCEPT !.mul_acc = MulStep(m.mul_acc, m.mul_mcand)]
      BY <1>4 DEF MuldivNext
    <2>4. /\ it \in MuldivRegisters /\ it.op_r = m.op_r /\ it.op_a_r = m.op_a_r
          /\ it.mul_a_sign = m.mul_a_sign /\ it.mul_b_sign = m.mul_b_sign
          /\ it.mul_mcand = m.mul_mcand /\ it.iter_cnt = k + 1
          /\ it.state # "DIV_RUN"
      <3>1. k < W
        BY <2>1, WAssumption
      <3>2. /\ it.op_r = m.op_r /\ it.op_a_r = m.op_a_r
            /\ it.mul_a_sign = m.mul_a_sign /\ it.mul_b_sign = m.mul_b_sign
            /\ it.mul_mcand = m.mul_mcand
        BY <1>2 DEF Iterated, MuldivRegisters
      <3> QED BY <1>2, <1>4, <3>1, <3>2, IteratedType, IteratedFields
    <2> HIDE DEF it, next
    <2>5. /\ next.op_r = m.op_r /\ next.op_a_r = m.op_a_r
          /\ next.mul_a_sign = m.mul_a_sign /\ next.mul_b_sign = m.mul_b_sign
          /\ next.mul_mcand = m.mul_mcand /\ next.iter_cnt = k + 1
          /\ next.state # "DIV_RUN" /\ next.mul_acc = MulStep(m.mul_acc, m.mul_mcand)
      BY <2>3, <2>4 DEF MuldivRegisters
    <2>6. Multiplies(next, op, a, b)
      BY <2>2, <2>5 DEF Multiplies
    <2>7. ProductUpTo(next.mul_acc, next.mul_mcand, mag, Pow2[k + 1])
      <3>1. PICK u \in Nat : u = Pow2[k] /\ u > 0
        BY <2>1, Pow2Type, WAssumption
      <3>2. PICK v \in Nat : v = Pow2[W - 1 - k]
        BY <2>1, Pow2Type, WAssumption
      <3>3. u * v = HalfMod
        <4>1. k \in Nat /\ W - 1 - k \in Nat /\ k + (W - 1 - k) = W - 1 /\ W - 1 <= 2*W
          BY <2>1, WAssumption
        <4> QED BY <3>1, <3>2, <4>1, Pow2Sum DEF HalfMod
      <3>4. 2 * (u * v) = WordMod
        BY <3>3, WordHalves
      <3>5. Pow2[k + 1] = 2 * u
        BY <2>1, <3>1, Pow2Step, WAssumption
      <3>6. m.mul_acc \in Nat /\ m.mul_mcand \in Nat
        BY <1>2, RegisterNaturals
      <3>7. m.mul_a_sign \in BOOLEAN
        BY <1>2 DEF MuldivRegisters
      <3>8. PICK w \in Nat : w = mag
        BY <3>7, MagnitudeType, SmallWords
      <3>9. ProductUpTo(m.mul_acc, m.mul_mcand, w, u)
        BY <2>2, <3>1, <3>8
      <3>10. ProductUpTo(MulStep(m.mul_acc, m.mul_mcand), m.mul_mcand, w, 2*u)
        BY <3>1, <3>4, <3>6, <3>9, MulStepProduct
      <3> QED BY <2>5, <3>5, <3>8, <3>10
    <2>8. WorkDone(next, op, a, b)
      BY <2>1, <2>5, <2>6, <2>7 DEF WorkDone
    <2>9. MuldivInv(next, op, a, b)
      BY <1>1, <2>1, <2>5, <2>8 DEF MuldivInv, next
    <2> QED BY <2>9 DEF next
  <1>5. CASE m.state = "DIV_RUN"
    <2> DEFINE it == Iterated(m)
               mag == Magnitude(m.div_a_sign, a)
               k == m.iter_cnt
    <2>1. op >= 4 /\ ~(op < 4) /\ k \in 0 .. W-1
      <3>1. k \in 0 .. W /\ k < W
        BY <1>1, <1>2, <1>5, RegisterTypes DEF UnitPhases
      <3>2. op >= 4
        BY <1>5 DEF MuldivInv
      <3> QED BY <3>1, <3>2, WAssumption
    <2>2. /\ Divides(m, op, a, b)
          /\ b # 0 => QuotientUpTo(m.div_rem, m.div_divisor, mag, Pow2[W - k], Pow2[k])
      BY <1>5, <2>1 DEF MuldivInv, WorkDone
    <2>3. next = [it EXCEPT !.div_rem = DivStep(m.div_rem, m.div_divisor)]
      BY <1>5 DEF MuldivNext
    <2>4. /\ it \in MuldivRegisters /\ it.op_r = m.op_r /\ it.op_a_r = m.op_a_r
          /\ it.div_a_sign = m.div_a_sign /\ it.div_b_sign = m.div_b_sign
          /\ it.div_by_zero = m.div_by_zero /\ it.is_div_overflow = m.is_div_overflow
          /\ it.div_divisor = m.div_divisor /\ it.iter_cnt = k + 1
          /\ it.state # "MUL_RUN"
      <3>1. k < W
        BY <2>1, WAssumption
      <3>2. /\ it.op_r = m.op_r /\ it.op_a_r = m.op_a_r
            /\ it.div_a_sign = m.div_a_sign /\ it.div_b_sign = m.div_b_sign
            /\ it.div_by_zero = m.div_by_zero /\ it.is_div_overflow = m.is_div_overflow
            /\ it.div_divisor = m.div_divisor
        BY <1>2 DEF Iterated, MuldivRegisters
      <3> QED BY <1>2, <1>5, <3>1, <3>2, IteratedType, IteratedFields
    <2> HIDE DEF it, next
    <2>5. /\ next.op_r = m.op_r /\ next.op_a_r = m.op_a_r
          /\ next.div_a_sign = m.div_a_sign /\ next.div_b_sign = m.div_b_sign
          /\ next.div_by_zero = m.div_by_zero /\ next.is_div_overflow = m.is_div_overflow
          /\ next.div_divisor = m.div_divisor /\ next.iter_cnt = k + 1
          /\ next.state # "MUL_RUN" /\ next.div_rem = DivStep(m.div_rem, m.div_divisor)
      BY <2>3, <2>4 DEF MuldivRegisters
    <2>6. Divides(next, op, a, b)
      BY <2>2, <2>5 DEF Divides
    <2>7. ASSUME b # 0
          PROVE  QuotientUpTo(next.div_rem, next.div_divisor, mag, Pow2[W - (k + 1)], Pow2[k + 1])
      <3>1. PICK c \in Nat : c = Pow2[k] /\ c > 0
        BY <2>1, Pow2Type, WAssumption
      <3>2. PICK e \in Nat : e = Pow2[W - (k + 1)] /\ e > 0
        BY <2>1, Pow2Type, WAssumption
      <3>3. c * e = HalfMod
        <4>1. k \in Nat /\ W - (k + 1) \in Nat /\ k + (W - (k + 1)) = W - 1 /\ W - 1 <= 2*W
          BY <2>1, WAssumption
        <4> QED BY <3>1, <3>2, <4>1, Pow2Sum DEF HalfMod
      <3>4. Pow2[k + 1] = 2 * c
        BY <2>1, <3>1, Pow2Step, WAssumption
      <3>5. Pow2[W - k] = 2 * e
        <4>1. W - (k + 1) \in 0 .. 2*W-1 /\ (W - (k + 1)) + 1 = W - k
          BY <2>1, WAssumption
        <4> QED BY <3>2, <4>1, Pow2Step
      <3>6. m.div_rem \in Nat /\ m.div_divisor \in Nat
        BY <1>2, RegisterNaturals
      <3>7. m.div_a_sign \in BOOLEAN
        BY <1>2 DEF MuldivRegisters
      <3>8. PICK w \in Word : w = mag
        BY <3>7, MagnitudeType
      <3>9. QuotientUpTo(m.div_rem, m.div_divisor, w, 2*e, c)
        BY <2>2, <2>7, <3>1, <3>5, <3>8
      <3>10. QuotientUpTo(DivStep(m.div_rem, m.div_divisor), m.div_divisor, w, e, 2*c)
        BY <3>1, <3>2, <3>3, <3>6, <3>9, DivStepQuotient
      <3> QED BY <2>5, <3>2, <3>4, <3>8, <3>10
    <2>8. WorkDone(next, op, a, b)
      BY <2>1, <2>5, <2>6, <2>7 DEF WorkDone
    <2>9. MuldivInv(next, op, a, b)
      BY <1>1, <2>1, <2>5, <2>8 DEF MuldivInv, next
    <2> QED BY <2>9 DEF next
  <1>6. CASE m.state = "FINISH"
    <2>1. next = [m EXCEPT !.busy = FALSE, !.done = TRUE, !.state = "IDLE"]
      BY <1>6 DEF MuldivNext
    <2> HIDE DEF next
    <2>2. /\ next.state = "IDLE"
          /\ next.op_r = m.op_r /\ next.op_a_r = m.op_a_r /\ next.iter_cnt = m.iter_cnt
          /\ next.mul_a_sign = m.mul_a_sign /\ next.mul_b_sign = m.mul_b_sign
          /\ next.mul_mcand = m.mul_mcand /\ next.mul_acc = m.mul_acc
      BY <1>2, <2>1 DEF MuldivRegisters
    <2>3. /\ next.div_a_sign = m.div_a_sign /\ next.div_b_sign = m.div_b_sign
          /\ next.div_by_zero = m.div_by_zero /\ next.is_div_overflow = m.is_div_overflow
          /\ next.div_divisor = m.div_divisor /\ next.div_rem = m.div_rem
      BY <1>2, <2>1 DEF MuldivRegisters
    <2>4. WorkDone(m, op, a, b)
      BY <1>6 DEF MuldivInv
    <2>5. WorkDone(next, op, a, b)
      BY <2>2, <2>3, <2>4 DEF WorkDone, Multiplies, Divides
    <2>6. MuldivInv(next, op, a, b)
      BY <1>1, <2>2, <2>5 DEF MuldivInv, next
    <2> QED BY <2>6 DEF next
  <1> QED BY <1>2, <1>3, <1>4, <1>5, <1>6

(* After the last step the work is the result.                             *)
LEMMA WorkDelivers ==
  ASSUME NEW m, NEW op \in 0 .. 7, NEW a \in Word, NEW b \in Word,
         MuldivInv(m, op, a, b), m.done
  PROVE  MuldivBus(m) = MuldivResult(op, a, b)
  <1>1. m \in MuldivRegisters /\ m.iter_cnt = W /\ WorkDone(m, op, a, b)
    BY DEF MuldivInv, UnitPhases
  <1>2. Pow2[W] = WordMod /\ Pow2[W - W] = 1
    <2>1. W - W = 0
      BY WAssumption
    <2> QED BY <2>1, Pow2Step DEF WordMod
  <1>3. m.mul_a_sign \in BOOLEAN /\ m.div_a_sign \in BOOLEAN
    BY <1>1 DEF MuldivRegisters
  <1>4. CASE op < 4
    <2>1. PICK x \in Word : x = Magnitude(m.mul_a_sign, a)
      BY <1>3, MagnitudeType
    <2>2. PICK acc \in Nat, d \in Nat : acc = m.mul_acc /\ d = m.mul_mcand
      BY <1>1, RegisterNaturals
    <2>3. ProductUpTo(acc, d, x, WordMod) /\ Multiplies(m, op, a, b)
      BY <1>1, <1>2, <1>4, <2>1, <2>2 DEF WorkDone
    <2>4. x % WordMod = x /\ x \div WordMod = 0
      <3>1. x \in 0 .. WordMod-1
        BY DEF Word
      <3> QED BY <3>1, WordHalves
    <2>5. acc * WordMod = (d * x) * WordMod
      <3>1. acc * WordMod = d * x * WordMod + 0 * WordMod
        BY <2>3, <2>4 DEF ProductUpTo
      <3> QED BY <3>1, WordHalves, SmallWords
    <2>6. acc = d * x
      <3>1. d * x \in Int /\ WordMod > 0
        BY SmallWords, WordHalves
      <3> QED BY <2>5, <3>1, WordHalves, CancelFactor
    <2>7. op \in 0 .. 3
      BY <1>4
    <2> QED BY <2>1, <2>2, <2>3, <2>6, <2>7, MultiplyResult
  <1>5. CASE op >= 4
    <2>1. PICK x \in Word : x = Magnitude(m.div_a_sign, a)
      BY <1>3, MagnitudeType
    <2>2. op \in 4 .. 7 /\ ~(op < 4)
      BY <1>5
    <2>3. Divides(m, op, a, b)
      BY <1>1, <2>2 DEF WorkDone
    <2>4. PICK r \in 0 .. DoubleMod-1 : r = m.div_rem
      BY <1>1, RegisterTypes
    <2>5. ASSUME b # 0
          PROVE  Divided(r, m.div_divisor, x)
      <3>1. QuotientUpTo(r, m.div_divisor, x, 1, WordMod)
        BY <1>1, <1>2, <2>1, <2>2, <2>4, <2>5 DEF WorkDone
      <3>2. x \div 1 = x
        BY SmallWords
      <3>3. (r % WordMod) % WordMod = r % WordMod
        <4>1. r % WordMod \in 0 .. WordMod-1
          BY <2>4, JoinRegister, DoubleWord
        <4> QED BY <4>1, WordHalves
      <3> QED BY <3>1, <3>2, <3>3 DEF QuotientUpTo, Divided
    <2> QED BY <2>1, <2>2, <2>3, <2>4, <2>5, DivideResult
  <1> QED BY <1>4, <1>5
=============================================================================
