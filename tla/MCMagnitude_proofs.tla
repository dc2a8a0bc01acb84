------------------------- MODULE MCMagnitude_proofs -------------------------
(* What the run of MCMagnitude checks of the kernels on words of two bits, *)
(* for words of any width and operands of any length; and of Conversions.  *)
EXTENDS MCMagnitude, Words_proofs

(* The operands stay the normalised magnitudes they were picked as.        *)
Operands == a \in Normal(MaxLen) /\ b \in Normal(MaxLenB) /\ n \in 0 .. MaxShift

(* The magnitudes of the run are what the lemmas about the kernels ask.    *)
LEMMA NormalWords ==
  ASSUME NEW len \in Nat, NEW w \in Normal(len)
  PROVE  w \in Seq(Word) /\ Trimmed(w)
<1>1. PICK k \in 0 .. len : w \in [1 .. k -> Word]
  BY DEF Normal
<1>2. w \in Seq(Word)
  BY <1>1, SeqDef
<1>3. QED
  BY <1>2 DEF Normal, Trimmed

(* What Advance leaves of the operands.                                    *)
LEMMA OperandsInvariant == Spec => []Operands
<1>1. Init => Operands
  BY BoundsAssumption DEF Init, Operands
<1>2. Operands /\ [Advance]_<<a, b, n>> => Operands'
  BY BoundsAssumption DEF Operands, Advance
<1>3. QED
  BY <1>1, <1>2, PTL DEF Spec

(* Sums, differences and comparisons of magnitudes: no carry is lost, no   *)
(* borrow dropped that is not zero, and no leading zero word appears.      *)
LEMMA OperandsSums == Operands => SumsExact
<1> SUFFICES ASSUME Operands PROVE SumsExact
  OBVIOUS
<1>1. a \in Seq(Word) /\ Trimmed(a) /\ b \in Seq(Word) /\ Trimmed(b)
  BY BoundsAssumption, NormalWords DEF Operands
<1>2. ToNat(a) \in Nat /\ ToNat(b) \in Nat
  BY <1>1, WordsProperties, ToNatPositive
<1>3. ToNat(AddMag(a, b)) = ToNat(a) + ToNat(b)
  BY <1>1, AddMagExact
<1>4. EraseZerosSuffix(AddMag(a, b)) = AddMag(a, b)
  BY <1>1, AddMagExact, EraseProperties
<1>5. ToNat(IncMag(a)) = ToNat(a) + 1
  BY <1>1, IncMagExact
<1>6. CmpMag(a, b) = IF ToNat(a) < ToNat(b) THEN -1
                     ELSE IF ToNat(a) = ToNat(b) THEN 0 ELSE 1
  BY <1>1, CmpMagExact
<1>7. ASSUME CmpMag(a, b) = 1 PROVE ToNat(SubMag(a, b)) = ToNat(a) - ToNat(b)
  <2>1. ToNat(b) <= ToNat(a)
    BY <1>2, <1>6, <1>7
  <2>2. ~(Len(a) < Len(b))
    BY <1>1, <1>2, <2>1, ShorterLess
  <2>3. Len(b) <= Len(a)
    BY <1>1, <2>2
  <2>4. QED
    BY <1>1, <2>1, <2>3, SubMagExact
<1>8. ASSUME a # << >> PROVE ToNat(DecMag(a)) = ToNat(a) - 1
  <2>1. Len(a) > 0 /\ a[Len(a)] # 0
    BY <1>1, <1>8 DEF Trimmed
  <2>2. ToNat(a) > 0
    BY <1>1, <2>1, WordsProperties, ToNatPositive
  <2>3. QED
    BY <1>1, <2>2, DecMagExact
<1>9. QED
  BY <1>3, <1>4, <1>5, <1>6, <1>7, <1>8 DEF SumsExact

(* addMag, subMag, inc, dec and cmpMag are exact on all operands.          *)
THEOREM SumsAreExact == Spec => []SumsExact
<1>1. QED
  BY OperandsInvariant, OperandsSums, PTL

(* Shifts of magnitudes: powers of two, rounded down to the right, without *)
(* a leading zero word.                                                    *)
LEMMA OperandsShifts == Operands => ShiftExact
<1> SUFFICES ASSUME Operands, a # << >> PROVE
      /\ n > 0 => /\ ToNat(ShlMag(a, n)) = ToNat(a) * 2 ^ n
                  /\ ShlMag(a, n) = EraseZerosSuffix(ShlMag(a, n))
      /\ ToNat(ShrMag(a, n)) = ToNat(a) \div 2 ^ n
      /\ ShrMag(a, n) = EraseZerosSuffix(ShrMag(a, n))
  BY DEF ShiftExact
<1>1. a \in Seq(Word) /\ Trimmed(a)
  BY BoundsAssumption, NormalWords DEF Operands
<1>2. n \in Nat /\ PowersUpTo(n)
  BY BoundsAssumption, ShiftAssumption DEF Operands, PowersUpTo
<1>3. /\ ShlMag(a, n) \in Seq(Word) /\ Trimmed(ShlMag(a, n))
      /\ ToNat(ShlMag(a, n)) = ToNat(a) * 2 ^ n
  BY <1>1, <1>2, ShlMagExact
<1>4. /\ ShrMag(a, n) \in Seq(Word) /\ Trimmed(ShrMag(a, n))
      /\ ToNat(ShrMag(a, n)) = ToNat(a) \div 2 ^ n
  BY <1>1, <1>2, ShrMagExact
<1>5. /\ ShlMag(a, n) = EraseZerosSuffix(ShlMag(a, n))
      /\ ShrMag(a, n) = EraseZerosSuffix(ShrMag(a, n))
  BY <1>3, <1>4, EraseProperties
<1>6. QED
  BY <1>3, <1>4, <1>5

(* shlMag and shrMag are exact on all operands and shifts.                 *)
THEOREM ShiftsAreExact == Spec => []ShiftExact
<1>1. QED
  BY OperandsInvariant, OperandsShifts, PTL

(* Divisions of magnitudes: by a word, and by Algorithm D.                 *)
LEMMA OperandsDivision == Operands => DivisionExact
<1> SUFFICES ASSUME Operands PROVE DivisionExact
  OBVIOUS
<1>1. a \in Seq(Word) /\ Trimmed(a) /\ b \in Seq(Word) /\ Trimmed(b)
  BY BoundsAssumption, NormalWords DEF Operands
<1>2. ToNat(a) \in Nat /\ ToNat(b) \in Nat
  BY <1>1, WordsProperties, ToNatPositive
<1>3. ASSUME n \in Word \ {0}
      PROVE  LET d == DivideByWord(a, n)
             IN  ToNat(d.q) = ToNat(a) \div n /\ d.r = ToNat(a) % n
  <2>1. n \in Nat /\ n >= 1
    BY <1>3, BaseProperties DEF Word
  <2>2. QED
    BY <1>1, <2>1, DivideByWordExact
<1>4. ASSUME Len(b) > 1, CmpMag(a, b) = 1
      PROVE  LET s == NormShift(b)
                 v == IF s = 0 THEN b ELSE ShlMag(b, s)
                 u == IF Len(a) = Len(b) THEN Append(a, 0) ELSE a
                 k == KnuthLoop(Append(IF s = 0 THEN u ELSE ShlMag(u, s), 0), v)
             IN  /\ ToNat(k.q) = ToNat(a) \div ToNat(b)
                 /\ ToNat(EraseZerosSuffix(k.u)) \div 2 ^ s = ToNat(a) % ToNat(b)
  <2>1. Len(a) \in Nat /\ Len(b) \in Nat
    BY <1>1
  <2>2. b[Len(b)] # 0 /\ Len(b) >= 2
    <3>1. b # << >> /\ Len(b) >= 2
      BY <1>1, <1>4, <2>1
    <3>2. QED
      BY <1>1, <3>1 DEF Trimmed
  <2>3. CmpMag(a, b) = IF ToNat(a) < ToNat(b) THEN -1
                       ELSE IF ToNat(a) = ToNat(b) THEN 0 ELSE 1
    BY <1>1, CmpMagExact
  <2>4. ~(ToNat(a) < ToNat(b))
    BY <1>4, <2>3
  <2>5. ~(Len(a) < Len(b))
    BY <1>1, <2>4, ShorterLess
  <2>6. Len(b) <= Len(a)
    BY <2>1, <2>5
  <2>7. QED
    BY <1>1, <2>2, <2>6, AlgorithmDExact
<1>5. QED
  BY <1>3, <1>4 DEF DivisionExact

(* Short division and Algorithm D are exact on all operands.               *)
THEOREM DivisionIsExact == Spec => []DivisionExact
<1>1. QED
  BY OperandsInvariant, OperandsDivision, PTL

(* One trimmed magnitude above another is trimmed.                         *)
LEMMA Joined ==
  ASSUME NEW x \in Seq(Word), NEW y \in Seq(Word), Trimmed(x), Trimmed(y)
  PROVE  x \o y \in Seq(Word) /\ Trimmed(x \o y)
<1>1. x \o y \in Seq(Word) /\ Len(x) \in Nat /\ Len(y) \in Nat
  OBVIOUS
<1>2. CASE y = << >>
  <2>1. x \o y = x
    BY <1>2
  <2>2. QED
    BY <1>1, <2>1
<1>3. CASE y # << >>
  <2>1. Len(y) >= 1 /\ Len(x \o y) = Len(x) + Len(y)
    BY <1>3
  <2>2. (x \o y)[Len(x) + Len(y)] = y[Len(y)]
    BY <1>1, <2>1
  <2>3. QED
    BY <1>1, <1>3, <2>1, <2>2 DEF Trimmed
<1>4. QED
  BY <1>2, <1>3

(* Products of magnitudes: grade school, by a word, and Karatsuba's.       *)
LEMMA OperandsProducts == Operands => ProductsExact
<1> SUFFICES ASSUME Operands PROVE ProductsExact
  OBVIOUS
<1>1. a \in Seq(Word) /\ Trimmed(a) /\ b \in Seq(Word) /\ Trimmed(b)
  BY BoundsAssumption, NormalWords DEF Operands
<1>2. ToNat(GradeSchoolMul(a, b)) = ToNat(a) * ToNat(b)
  BY <1>1, GradeSchoolMulExact
<1>3. ASSUME n \in Word \ {0}
      PROVE  /\ ToNat(GradSchoolMulInplace(a, n)) = ToNat(a) * n
             /\ EraseZerosSuffix(GradSchoolMulInplace(a, n)) = GradSchoolMulInplace(a, n)
  <2> DEFINE r == GradSchoolMulInplace(a, n)
  <2>1. n \in Word /\ n # 0
    BY <1>3
  <2>2. r \in Seq(Word) /\ ToNat(r) = ToNat(a) * n /\ Trimmed(r)
    BY <1>1, <2>1, GradSchoolMulInplaceExact
  <2> HIDE DEF r
  <2>3. EraseZerosSuffix(r) = r
    BY <2>2, EraseProperties
  <2>4. QED
    BY <2>2, <2>3 DEF r
<1>4. LET x == a \o b
          y == IF Len(a) = 1 THEN b \o b \o b ELSE b \o a
          p == Product(x, y, 4)
      IN  ToNat(p) = ToNat(x) * ToNat(y) /\ p = EraseZerosSuffix(p)
  <2> DEFINE x == a \o b
             y == IF Len(a) = 1 THEN b \o b \o b ELSE b \o a
             four == 4
             p == Product(x, y, four)
  <2>1. x \in Seq(Word) /\ Trimmed(x)
    BY <1>1, Joined
  <2>2. y \in Seq(Word) /\ Trimmed(y)
    <3> DEFINE z == b \o b
    <3>1. z \in Seq(Word) /\ Trimmed(z)
      BY <1>1, Joined
    <3> HIDE DEF z
    <3>2. z \o b \in Seq(Word) /\ Trimmed(z \o b)
      BY <1>1, <3>1, Joined
    <3>3. b \o a \in Seq(Word) /\ Trimmed(b \o a)
      BY <1>1, Joined
    <3>4. QED
      BY <3>2, <3>3 DEF z
  <2>3. four \in Nat /\ four >= 4
    OBVIOUS
  <2> HIDE DEF x, y, four
  <2>4. IsProduct(p, x, y)
    BY <2>1, <2>2, <2>3, ProductExact
  <2> HIDE DEF p
  <2>5. p \in Seq(Word) /\ Trimmed(p) /\ ToNat(p) = ToNat(x) * ToNat(y)
    BY <2>4 DEF IsProduct
  <2>6. p = EraseZerosSuffix(p)
    BY <2>5, EraseProperties
  <2>7. QED
    BY <2>5, <2>6 DEF p, x, y, four
<1>5. QED
  BY <1>2, <1>3, <1>4 DEF ProductsExact

(* All multiplications are exact on all operands.                          *)
THEOREM ProductsAreExact == Spec => []ProductsExact
<1>1. QED
  BY OperandsInvariant, OperandsProducts, PTL

-----------------------------------------------------------------------------
(* x is a BigInteger of value v: zero is the empty magnitude, and there    *)
(* is no leading zero word.                                                *)
Denotes(x, v) ==
  /\ x.sign \in {-1, 0, 1}
  /\ x.mag \in Seq(Word) /\ Trimmed(x.mag)
  /\ x.sign = 0 <=> x.mag = << >>
  /\ v = x.sign * ToNat(x.mag)

(* The magnitude of a BigInteger that is not zero is positive.             *)
LEMMA DenotesProperties ==
  ASSUME NEW x, NEW v, Denotes(x, v)
  PROVE  /\ v \in Int /\ ToNat(x.mag) \in Nat
         /\ x.sign = 0 => v = 0
         /\ x.sign = 1 => v = ToNat(x.mag) /\ v > 0
         /\ x.sign = -1 => v = - ToNat(x.mag) /\ v < 0
<1> DEFINE m == x.mag
           t == ToNat(m)
<1>1. m \in Seq(Nat) /\ Len(m) \in Nat /\ t \in Nat
  BY WordsProperties, ToNatPositive DEF Denotes
<1>2. m # << >> => Len(m) > 0 /\ m[Len(m)] # 0
  BY <1>1 DEF Denotes, Trimmed
<1>3. m # << >> => t > 0
  BY <1>1, <1>2, ToNatPositive
<1>4. x.sign \in {-1, 0, 1} /\ (x.sign = 0 <=> m = << >>) /\ v = x.sign * t
  BY DEF Denotes
<1> HIDE DEF m, t
<1>5. /\ v \in Int /\ t \in Nat
      /\ x.sign = 0 => v = 0
      /\ x.sign = 1 => v = t /\ v > 0
      /\ x.sign = -1 => v = - t /\ v < 0
  BY <1>1, <1>3, <1>4
<1>6. QED
  BY <1>5 DEF t, m

(* cmp orders BigIntegers as the numbers they denote.                      *)
LEMMA CmpExact ==
  ASSUME NEW l, NEW r, NEW v, NEW w, Denotes(l, v), Denotes(r, w)
  PROVE  Cmp(l, r) = IF v < w THEN -1 ELSE IF v = w THEN 0 ELSE 1
<1> DEFINE p == ToNat(l.mag)
           q == ToNat(r.mag)
           c == CmpMag(l.mag, r.mag)
<1>1. c = IF p < q THEN -1 ELSE IF p = q THEN 0 ELSE 1
  BY CmpMagExact DEF Denotes
<1>2. /\ v \in Int /\ p \in Nat
      /\ l.sign = 0 => v = 0
      /\ l.sign = 1 => v = p /\ v > 0
      /\ l.sign = -1 => v = - p /\ v < 0
  BY DenotesProperties
<1>3. /\ w \in Int /\ q \in Nat
      /\ r.sign = 0 => w = 0
      /\ r.sign = 1 => w = q /\ w > 0
      /\ r.sign = -1 => w = - q /\ w < 0
  BY DenotesProperties
<1>4. l.sign \in {-1, 0, 1} /\ r.sign \in {-1, 0, 1}
  BY DEF Denotes
<1>5. Cmp(l, r) = IF l.sign # r.sign THEN (IF l.sign < r.sign THEN -1 ELSE 1) ELSE l.sign * c
  BY DEF Cmp
<1> HIDE DEF p, q, c
<1>6. CASE l.sign = 0
  BY <1>1, <1>2, <1>3, <1>4, <1>5, <1>6
<1>7. CASE l.sign = 1
  BY <1>1, <1>2, <1>3, <1>4, <1>5, <1>7
<1>8. CASE l.sign = -1
  BY <1>1, <1>2, <1>3, <1>4, <1>5, <1>8
<1>9. QED
  BY <1>4, <1>6, <1>7, <1>8

(* A positive or negative BigInteger, from its parts.                      *)
LEMMA DenotesNonZero ==
  ASSUME NEW x, NEW v, NEW m \in Seq(Word), NEW s \in {-1, 1}, x.sign = s, x.mag = m,
         NEW len \in Nat, len > 0, Len(m) = len, m[len] # 0, v = s * ToNat(m)
  PROVE  Denotes(x, v)
<1>1. m # << >> /\ Trimmed(m)
  BY DEF Trimmed
<1>2. x.sign \in {-1, 0, 1} /\ x.sign # 0
  OBVIOUS
<1>3. v = x.sign * ToNat(x.mag)
  OBVIOUS
<1>4. QED
  BY <1>1, <1>2, <1>3 DEF Denotes

(* An int64_t becomes the BigInteger of its value, except for 2^32 - 1 and *)
(* its negative, whose second word is zero.                                *)
LEMMA OfI64Exact ==
  ASSUME NEW i \in Int, - (Base * Base) < i, i < Base * Base, i # WordMax, i # - WordMax
  PROVE  Denotes(OfI64(i), i)
<1> DEFINE B == Base
           t == IF i < 0 THEN - i ELSE i
           len == IF i = 0 THEN 0 ELSE IF t < B - 1 THEN 1 ELSE 2
           s == IF i < 0 THEN -1 ELSE IF i = 0 THEN 0 ELSE 1
           lo == t % B
           hi == t \div B
           m == SubSeq(<<lo, hi>>, 1, len)
<1>1. B \in Nat /\ B >= 2 /\ Word = 0 .. B - 1 /\ WordMax = B - 1
  BY BaseProperties DEF Word
<1>2. OfI64(i).sign = s /\ OfI64(i).mag = m
  BY <1>1 DEF OfI64
<1>3. t \in Nat /\ t < B * B /\ t # B - 1
  <2>1. - (B * B) < i /\ i < B * B /\ i # B - 1 /\ i # - (B - 1) /\ B * B \in Nat
    BY <1>1
  <2> DEFINE BB == B * B
  <2> HIDE DEF BB, B
  <2>2. QED
    BY <1>1, <2>1 DEF BB
<1> HIDE DEF B
<1>4. lo \in 0 .. B - 1 /\ hi \in Int /\ t = hi * B + lo
  <2> HIDE DEF t
  <2>1. QED
    BY <1>1, <1>3
<1>5. hi \in 0 .. B - 1
  <2> HIDE DEF lo, hi, t
  <2>1. hi >= 0
    <3>1. SUFFICES ASSUME hi <= -1 PROVE FALSE
      BY <1>4
    <3>2. hi * B <= (-1) * B
      BY <1>1, <1>4, <3>1
    <3>3. QED
      BY <1>1, <1>3, <1>4, <3>2
  <2>2. hi <= B - 1
    <3>1. SUFFICES ASSUME hi >= B PROVE FALSE
      BY <1>1, <1>4
    <3>2. hi * B >= B * B
      BY <1>1, <1>4, <3>1
    <3>3. QED
      BY <1>1, <1>3, <1>4, <3>2
  <2>3. QED
    BY <1>1, <1>4, <2>1, <2>2
<1>6. <<lo, hi>> \in Seq(Word)
  BY <1>1, <1>4, <1>5
<1>7. CASE i = 0
  <2>1. m = << >> /\ s = 0
    BY <1>7, <1>6
  <2> HIDE DEF m, s
  <2>2. i = s * ToNat(m)
    <3>1. ToNat(m) = 0
      BY <2>1, ToNatEmpty
    <3>2. QED
      BY <1>7, <2>1, <3>1
  <2>3. QED
    BY <1>2, <2>1, <2>2 DEF Denotes, Trimmed
<1>8. CASE i # 0 /\ t < B - 1
  <2>1. t \in 0 .. B - 1 /\ t # 0
    BY <1>1, <1>3, <1>8
  <2>2. lo = t
    <3> HIDE DEF t
    <3>1. QED
      BY <1>1, <2>1
  <2>3. m = <<t>>
    <3>1. len = 1 /\ lo \in Word /\ hi \in Word
      BY <1>1, <1>4, <1>5, <1>8
    <3> HIDE DEF len, lo, hi, t
    <3>2. SubSeq(<<lo, hi>>, 1, 1) = <<lo>>
      BY <3>1, StartsOfTwo
    <3>3. QED
      BY <2>2, <3>1, <3>2
  <2>4. m \in Seq(Word) /\ m \in Seq(Int) /\ Len(m) = 1 /\ m[1] = t
    BY <1>1, <2>1, <2>3
  <2>5. ToNat(m) = t
    BY <2>4, ToNatSingle
  <2>6. i = s * t /\ s \in {-1, 1}
    BY <1>8
  <2> HIDE DEF m, s, t
  <2>7. i = s * ToNat(m) /\ m[1] # 0 /\ 1 \in Nat /\ 1 > 0
    BY <2>1, <2>4, <2>5, <2>6
  <2>8. QED
    BY ONLY <1>2, <2>4, <2>6, <2>7, DenotesNonZero
<1>9. CASE i # 0 /\ ~(t < B - 1)
  <2>1. m = <<lo, hi>>
    <3>1. len = 2 /\ lo \in Word /\ hi \in Word
      BY <1>1, <1>4, <1>5, <1>9
    <3> HIDE DEF len, lo, hi, t
    <3>2. SubSeq(<<lo, hi>>, 1, 2) = <<lo, hi>>
      BY <3>1, StartsOfTwo
    <3>3. QED
      BY <3>1, <3>2
  <2>2. m \in Seq(Word) /\ m \in Seq(Int) /\ Len(m) = 2 /\ m[1] = lo /\ m[2] = hi
    <3>1. m \in Seq(Word) /\ Len(m) = 2 /\ m[1] = lo /\ m[2] = hi
      <4> HIDE DEF m, lo, hi
      <4>1. QED
        BY <1>6, <2>1
    <3> HIDE DEF m
    <3>2. QED
      BY <3>1, WordsProperties
  <2>3. ToNat(m) = m[2] * B + m[1]
    BY <2>2, ToNatTwo DEF B
  <2>4. ToNat(m) = t
    BY <1>4, <2>2, <2>3
  <2>5. hi # 0
    <3>1. t >= B
      BY <1>1, <1>3, <1>9
    <3> HIDE DEF t, lo, hi
    <3>2. QED
      BY <1>1, <1>4, <3>1
  <2>6. i = s * t /\ s \in {-1, 1}
    BY <1>9
  <2> HIDE DEF m, s, t
  <2>7. i = s * ToNat(m) /\ m[2] # 0 /\ 2 \in Nat /\ 2 > 0
    BY <2>2, <2>4, <2>5, <2>6
  <2>8. QED
    BY ONLY <1>2, <2>2, <2>6, <2>7, DenotesNonZero
<1>10. QED
  BY <1>7, <1>8, <1>9

(* The range of int64_t.                                                   *)
LEMMA Int64Range ==
  \E H \in Nat : /\ Base * Base = 2 * H /\ H > Base /\ MaxI64 = H - 1 /\ MinI64 = - H
                 /\ MaxU64 = 2 * H - 1
<1>1. PICK half \in Nat : Base = 2 * half /\ half >= 2
  BY HalfBase
<1> DEFINE H == half * (2 * half)
<1>2. Base * Base = 2 * H /\ H \in Nat
  BY <1>1
<1>3. H > Base
  <2>1. 2 * half > 0 /\ half * (2 * half) >= 2 * (2 * half)
    BY <1>1
  <2>2. QED
    BY <1>1, <2>1
<1> HIDE DEF H
<1>4. (Base * Base) \div 2 = H
  BY <1>2
<1>5. QED
  BY <1>2, <1>3, <1>4 DEF MaxI64, MinI64, MaxU64

(* The low words of the two's complement are the number modulo 2^64.       *)
LEMMA ToU64Exact ==
  ASSUME NEW x, NEW v, Denotes(x, v)
  PROVE  ToU64(x) = v % (Base * Base)
<1> DEFINE w == x.mag
           len == Len(w)
           B == Base
           d1 == Digit(w, 1)
           d2 == Digit(w, 2)
           u0 == U32(x, 0)
           u1 == U32(x, 1)
           t == ToNat(w)
<1>1. /\ w \in Seq(Word) /\ Trimmed(w) /\ len \in Nat /\ DOMAIN w = 1 .. len
      /\ x.sign \in {-1, 0, 1} /\ (x.sign = 0 <=> w = << >>) /\ v = x.sign * t
  BY DEF Denotes
<1>2. B \in Nat /\ B >= 2 /\ Word = 0 .. B - 1 /\ WordMax = B - 1
  BY BaseProperties DEF Word
<1>3. d1 = (IF len >= 1 THEN w[1] ELSE 0) /\ d2 = IF len >= 2 THEN w[2] ELSE 0
  <2>1. DOMAIN w = 1 .. len /\ len \in Nat
    BY <1>1
  <2> HIDE DEF len
  <2>2. (1 \in DOMAIN w <=> len >= 1) /\ (2 \in DOMAIN w <=> len >= 2)
    BY <2>1
  <2>3. QED
    BY <2>2 DEF Digit
<1>4. d1 \in 0 .. B - 1 /\ d2 \in 0 .. B - 1
  <2>1. \A i \in 1 .. len : w[i] \in 0 .. B - 1
    BY <1>1, <1>2
  <2>2. QED
    BY <1>1, <1>2, <2>1 DEF Digit
<1>5. PICK q \in Int : t = q * (B * B) + (d2 * B + d1)
  BY <1>1, LowWords
<1>6. /\ u0 = IF len = 0 THEN (IF x.sign = -1 THEN B - 1 ELSE 0)
              ELSE IF x.sign = 1 THEN w[1] ELSE NotPlusOne(w, FirstNonZero(w))[1]
      /\ u1 = IF len <= 1 THEN (IF x.sign = -1 THEN B - 1 ELSE 0)
              ELSE IF x.sign = 1 THEN w[2] ELSE NotPlusOne(w, FirstNonZero(w))[2]
  <2>1. len \in Nat /\ WordMax = B - 1
    BY <1>1, <1>2
  <2> HIDE DEF len
  <2>2. (0 >= len <=> len = 0) /\ (1 >= len <=> len <= 1) /\ 0 + 1 = 1 /\ 1 + 1 = 2
    BY <2>1
  <2>3. QED
    BY <2>1, <2>2 DEF U32, len
<1>7. u0 \in 0 .. B - 1 /\ u1 \in 0 .. B - 1 /\ \E e \in Int : v = e * (B * B) + (u0 + B * u1)
  <2>1. CASE x.sign = 0
    <3>1. len = 0 /\ t = 0
      BY <1>1, <2>1, ToNatEmpty
    <3>2. u0 = 0 /\ u1 = 0 /\ v = 0
      BY <1>1, <1>6, <2>1, <3>1
    <3> HIDE DEF u0, u1, t, B
    <3>3. v = 0 * (B * B) + (u0 + B * u1)
      BY <1>2, <3>2
    <3>4. QED
      BY <1>2, <3>2, <3>3
  <2>2. CASE x.sign = 1
    <3>1. len >= 1 /\ v = t
      <4>1. t \in Nat
        BY <1>1, WordsProperties, ToNatPositive
      <4> HIDE DEF t
      <4>2. QED
        BY <1>1, <2>2, <4>1
    <3>2. u0 = d1 /\ u1 = d2
      BY <1>1, <1>6, <2>2, <3>1 DEF Digit
    <3> HIDE DEF u0, u1, t, d1, d2, B
    <3>3. v = q * (B * B) + (u0 + B * u1)
      BY <1>2, <1>4, <1>5, <3>1, <3>2
    <3>4. QED
      BY <1>4, <3>2, <3>3
  <2>3. CASE x.sign = -1
    <3> DEFINE f == FirstNonZero(w)
               c == NotPlusOne(w, f)
    <3>1. len >= 1 /\ w # << >>
      BY <1>1, <2>3
    <3>2. FirstAt(w, f)
      BY <1>1, <3>1, FirstNonZeroProperties
    <3>3. f \in 0 .. len - 1 /\ w[f + 1] # 0 /\ \A i \in 1 .. f : w[i] = 0
      BY <3>2 DEF FirstAt
    <3>4. \A i \in 1 .. len : c[i] = IF i <= f THEN 0 ELSE IF i = f + 1 THEN B - w[i] ELSE B - 1 - w[i]
      <4> HIDE DEF f
      <4>1. QED
        BY <1>1, <3>2, ComplementProperties
    <3>5. u0 = c[1] /\ u1 = IF len = 1 THEN B - 1 ELSE c[2]
      <4>1. len \in Nat /\ len >= 1 /\ x.sign = -1
        BY <1>1, <2>3, <3>1
      <4> HIDE DEF u0, u1, len, w, B
      <4>2. QED
        BY <1>6, <4>1 DEF c, f
    <3>6. v = - t /\ t \in Nat
      <4>1. t \in Nat
        BY <1>1, WordsProperties, ToNatPositive
      <4> HIDE DEF t
      <4>2. QED
        BY <1>1, <2>3, <4>1
    <3>7. d1 = w[1] /\ d2 = IF len = 1 THEN 0 ELSE w[2]
      <4>1. len \in Nat
        BY <1>1
      <4> HIDE DEF len, d1, d2
      <4>2. QED
        BY <1>3, <3>1, <4>1
    <3> HIDE DEF u0, u1, t, d1, d2, B, c, f, len, w
    <3>8. CASE f = 0
      <4>1. u0 = B - d1 /\ d1 # 0 /\ u1 = (B - 1) - d2
        BY <1>1, <1>2, <1>4, <3>1, <3>3, <3>4, <3>5, <3>7, <3>8
      <4>2. - (q * (B * B) + (d2 * B + d1))
              = (- q - 1) * (B * B) + ((B - d1) + B * ((B - 1) - d2))
        BY <1>2, <1>4
      <4>3. v = (- q - 1) * (B * B) + (u0 + B * u1)
        BY <1>5, <3>6, <4>1, <4>2
      <4>4. - q - 1 \in Int
        OBVIOUS
      <4>5. u0 \in 0 .. B - 1 /\ u1 \in 0 .. B - 1
        BY <1>2, <1>4, <4>1
      <4>6. QED
        BY <4>3, <4>4, <4>5
    <3>9. CASE f = 1
      <4>1. len >= 2 /\ u0 = 0 /\ d1 = 0
        BY <1>1, <3>1, <3>3, <3>4, <3>5, <3>7, <3>9
      <4>2. u1 = B - d2 /\ d2 # 0
        BY <1>1, <1>2, <1>4, <3>1, <3>3, <3>4, <3>5, <3>7, <3>9, <4>1
      <4>3. - (q * (B * B) + (d2 * B + 0)) = (- q - 1) * (B * B) + (0 + B * (B - d2))
        BY <1>2, <1>4
      <4>4. v = (- q - 1) * (B * B) + (u0 + B * u1)
        BY <1>5, <3>6, <4>1, <4>2, <4>3
      <4>5. - q - 1 \in Int
        OBVIOUS
      <4>6. u0 \in 0 .. B - 1 /\ u1 \in 0 .. B - 1
        BY <1>2, <1>4, <4>1, <4>2
      <4>7. QED
        BY <4>4, <4>5, <4>6
    <3>10. CASE f >= 2
      <4>1. len >= 3 /\ 1 \in 1 .. f /\ 2 \in 1 .. f /\ 1 \in 1 .. len /\ 2 \in 1 .. len
        BY <1>1, <3>3, <3>10
      <4>2. u0 = 0 /\ d1 = 0 /\ u1 = 0 /\ d2 = 0
        BY <1>1, <3>3, <3>4, <3>5, <3>7, <4>1
      <4>3. - (q * (B * B) + (0 * B + 0)) = (- q) * (B * B) + (0 + B * 0)
        BY <1>2
      <4>4. v = (- q) * (B * B) + (u0 + B * u1)
        BY <1>5, <3>6, <4>2, <4>3
      <4>5. - q \in Int
        OBVIOUS
      <4>6. u0 \in 0 .. B - 1 /\ u1 \in 0 .. B - 1
        BY <1>2, <4>2
      <4>7. QED
        BY <4>4, <4>5, <4>6
    <3>11. f = 0 \/ f = 1 \/ f >= 2
      BY <1>1, <3>3
    <3>12. QED
      BY <3>8, <3>9, <3>10, <3>11
  <2>4. QED
    BY <1>1, <2>1, <2>2, <2>3
<1>8. PICK e \in Int : v = e * (B * B) + (u0 + B * u1)
  BY <1>7
<1>9. u0 \in Word /\ u1 \in Word
  BY <1>2, <1>7
<1> HIDE DEF u0, u1
<1>10. (e * (Base * Base) + (u0 + Base * u1)) % (Base * Base) = u0 + Base * u1
  BY <1>9, LowPart
<1>11. ToU64(x) = u0 + Base * u1
  BY DEF ToU64, u0, u1
<1>12. QED
  BY <1>8, <1>10, <1>11

(* A signed 64-bit number comes back from its two's complement.            *)
LEMMA SignedExact ==
  ASSUME NEW v \in MinI64 .. MaxI64
  PROVE  Signed(v % (Base * Base)) = v
<1> DEFINE BB == Base * Base
<1>1. PICK H \in Nat : BB = 2 * H /\ H > Base /\ MaxI64 = H - 1 /\ MinI64 = - H
  BY Int64Range
<1>2. H > 0 /\ v \in Int /\ - H <= v /\ v <= H - 1 /\ BB \in Nat /\ BB >= 1
  BY <1>1, BaseProperties
<1>3. Signed(v % BB) = IF v % BB > H - 1 THEN (v % BB) - BB ELSE v % BB
  BY <1>1 DEF Signed
<1> HIDE DEF BB
<1>4. CASE v >= 0
  <2>1. v = 0 * BB + v /\ 0 <= v /\ v < BB /\ 0 \in Int
    BY <1>1, <1>2, <1>4
  <2>2. (0 * BB + v) % BB = v
    BY ONLY <1>2, <2>1, DivisionUnique
  <2>3. v % BB = v
    BY <2>1, <2>2
  <2>4. QED
    BY <1>2, <1>3, <2>3 DEF BB
<1>5. CASE v < 0
  <2> DEFINE r == v + BB
  <2>1. v = (-1) * BB + r /\ r \in Int /\ 0 <= r /\ r < BB /\ -1 \in Int
    BY <1>1, <1>2, <1>5
  <2> HIDE DEF r
  <2>2. ((-1) * BB + r) % BB = r
    BY ONLY <1>2, <2>1, DivisionUnique
  <2>3. v % BB = r
    BY <2>1, <2>2
  <2>4. r > H - 1 /\ r - BB = v
    BY <1>1, <1>2, <1>5 DEF r
  <2>5. QED
    BY <1>3, <2>3, <2>4 DEF BB
<1>6. QED
  BY <1>2, <1>4, <1>5

(* getU64Max is the greatest unsigned 64-bit number.                       *)
LEMMA U64MaxExact == Denotes(U64Max, MaxU64)
<1> DEFINE B == Base
           m == OfI64(MaxI64).mag
           d == ShlMag(m, 1)
           e == [d EXCEPT ![1] = WordOp("or", @, 1)]
<1>1. PICK H \in Nat : B * B = 2 * H /\ H > B /\ MaxI64 = H - 1 /\ MaxU64 = 2 * H - 1
  BY Int64Range
<1>2. PICK half \in Nat : B = 2 * half /\ half >= 2
  BY HalfBase
<1>3. B \in Nat /\ B >= 2 /\ Word = 0 .. B - 1 /\ WordMax = B - 1
  BY BaseProperties DEF Word
<1>4. m \in Seq(Word) /\ Trimmed(m) /\ m # << >> /\ ToNat(m) = H - 1
  <2> DEFINE i == MaxI64
  <2>1. /\ i \in Int /\ - (Base * Base) < i /\ i < Base * Base /\ i # WordMax /\ i # - WordMax
        /\ i > 0
    <3> DEFINE BB == B * B
    <3>1. BB = 2 * H /\ BB \in Nat
      BY <1>1
    <3> HIDE DEF BB, B
    <3>2. i \in Int /\ - BB < i /\ i < BB /\ i # B - 1 /\ i # - (B - 1) /\ i > 0
      BY <1>1, <1>3, <3>1
    <3>3. QED
      BY <1>3, <3>2 DEF BB, B
  <2> HIDE DEF i
  <2>2. Denotes(OfI64(i), i)
    BY <2>1, OfI64Exact
  <2> DEFINE x == OfI64(i)
  <2> HIDE DEF x
  <2>3. x.sign \in {-1, 0, 1} /\ x.mag \in Seq(Word) /\ Trimmed(x.mag) /\ (x.sign = 0 <=> x.mag = << >>)
    BY <2>2 DEF Denotes, x
  <2>4. x.sign = 1
    BY <2>1, <2>2, <2>3, DenotesProperties DEF x
  <2>5. ToNat(x.mag) = i
    BY <2>2, <2>4, DenotesProperties DEF x
  <2>6. x.mag # << >>
    BY <2>3, <2>4
  <2>7. QED
    BY <1>1, <2>3, <2>5, <2>6 DEF x, i
<1> HIDE DEF m
<1>5. d \in Seq(Word) /\ ToNat(d) = (H - 1) * 2 /\ Trimmed(d)
  <2> DEFINE one == 1
  <2>1. 1 \in 1 .. WordBits /\ 1 - 1 = 0
    BY WordBitsAssumption
  <2>2. 2 ^ 1 = 2 /\ 2 ^ 0 = 1
    BY <2>1, PowerAssumption DEF PowersUpTo
  <2>3. one \in Nat /\ PowersUpTo(one) /\ 2 ^ one = 2
    BY <2>2 DEF PowersUpTo
  <2> HIDE DEF one
  <2>4. /\ ShlMag(m, one) \in Seq(Word)
        /\ ToNat(ShlMag(m, one)) = ToNat(m) * 2 ^ one
        /\ m # << >> /\ Trimmed(m) => Trimmed(ShlMag(m, one))
    BY <1>4, <2>3, ShlMagExact
  <2>5. QED
    BY <1>4, <2>3, <2>4 DEF one
<1> HIDE DEF d
<1>6. Len(d) = 2
  <2> DEFINE t == <<0, 1>>
             w == <<B - 1, B - 1>>
  <2>1. t \in Seq(Word) /\ w \in Seq(Word) /\ t \in Seq(Int) /\ w \in Seq(Int)
        /\ Len(t) = 2 /\ Len(w) = 2 /\ t[2] = 1
    BY <1>3
  <2>2. Trimmed(t) /\ t[1] = 0 /\ t[2] = 1 /\ w[1] = B - 1 /\ w[2] = B - 1
    BY <2>1 DEF Trimmed
  <2>3. ToNat(t) = t[2] * Base + t[1] /\ ToNat(w) = w[2] * Base + w[1]
    <3> HIDE DEF t, w
    <3>1. QED
      BY <2>1, ToNatTwo
  <2>4. ToNat(t) = 1 * B + 0 /\ ToNat(w) = (B - 1) * B + (B - 1)
    BY <2>2, <2>3
  <2>5. (B - 1) * B + (B - 1) = B * B - 1 /\ 1 * B + 0 = B
    BY <1>3
  <2> HIDE DEF t, w, B
  <2>6. ToNat(t) = B /\ ToNat(w) = 2 * H - 1
    BY <1>1, <2>4, <2>5
  <2>7. Len(d) \in Nat
    BY <1>5
  <2>8. ~(Len(d) < Len(t))
    <3>1. ASSUME Len(d) < Len(t) PROVE ToNat(d) < ToNat(t)
      BY <1>5, <2>1, <2>2, <3>1, ShorterLess
    <3>2. (H - 1) * 2 >= B
      BY <1>1, <1>3
    <3>3. QED
      BY <1>1, <1>3, <1>5, <2>6, <3>1, <3>2
  <2>9. ~(Len(w) < Len(d))
    <3>1. ASSUME Len(w) < Len(d) PROVE ToNat(w) < ToNat(d)
      BY <1>5, <2>1, <3>1, ShorterLess
    <3>2. QED
      BY <1>1, <1>5, <2>6, <3>1
  <2> DEFINE k == Len(d)
  <2>10. k \in Nat /\ ~(k < 2) /\ ~(2 < k)
    BY <2>1, <2>7, <2>8, <2>9
  <2> HIDE DEF k
  <2>11. k = 2
    BY <2>10
  <2>12. QED
    BY <2>11 DEF k
<1>7. d[1] \in 0 .. B - 1 /\ d[2] \in 0 .. B - 1 /\ d[2] # 0
  <2>1. d # << >> /\ 1 \in 1 .. Len(d) /\ 2 \in 1 .. Len(d)
    BY <1>5, <1>6
  <2>2. d[1] \in Word /\ d[2] \in Word
    BY <1>5, <2>1
  <2>3. d[2] # 0
    BY <1>6, <1>5, <2>1 DEF Trimmed
  <2>4. QED
    BY <1>3, <2>2, <2>3
<1>8. d[2] * B + d[1] = 2 * H - 2
  <2>1. d \in Seq(Int)
    BY <1>5, WordsProperties
  <2>2. ToNat(d) = d[2] * Base + d[1]
    BY <1>6, <2>1, ToNatTwo
  <2>3. QED
    BY <1>1, <1>5, <2>2
<1>9. d[1] % 2 = 0
  <2> DEFINE p == d[1]
             q == d[2]
  <2>1. p \in Int /\ q \in Int /\ q * (2 * half) + p = 2 * H - 2
    BY <1>2, <1>3, <1>7, <1>8
  <2> HIDE DEF p, q
  <2> DEFINE y == q * half
  <2>2. y \in Int /\ q * (2 * half) = 2 * y
    BY <1>2, <2>1
  <2> HIDE DEF y
  <2>3. p = 2 * (H - 1 - y)
    BY <2>1, <2>2, <1>1
  <2>4. p % 2 = 0
    BY <2>2, <2>3, <1>1
  <2>5. QED
    BY <2>4 DEF p
<1>10. WordOp("or", d[1], 1) = d[1] + 1
  BY <1>3, <1>7, <1>9, OrOne
<1>11. e \in Seq(Int) /\ Len(e) = 2 /\ e[1] = d[1] + 1 /\ e[2] = d[2] /\ DOMAIN e = 1 .. 2
  <2>1. DOMAIN d = 1 .. 2 /\ d \in Seq(Word)
    BY <1>5, <1>6
  <2>2. e = [d EXCEPT ![1] = d[1] + 1]
    BY <1>10, <2>1
  <2>3. e = [i \in 1 .. 2 |-> IF i = 1 THEN d[1] + 1 ELSE d[2]]
    <3> HIDE DEF e
    <3>1. DOMAIN e = 1 .. 2 /\ e[1] = d[1] + 1 /\ e[2] = d[2]
      BY <2>1, <2>2
    <3>2. e = [i \in 1 .. 2 |-> e[i]]
      BY <2>1, <2>2
    <3>3. QED
      BY <3>1, <3>2
  <2>4. d[1] + 1 \in Int /\ d[2] \in Int
    BY <1>3, <1>7
  <2> DEFINE p == d[1] + 1
             q == d[2]
             g == [i \in 1 .. 2 |-> IF i = 1 THEN p ELSE q]
  <2>5. p \in Int /\ q \in Int /\ e = g
    BY <2>3, <2>4
  <2> HIDE DEF p, q, e
  <2>6. g \in Seq(Int) /\ Len(g) = 2 /\ g[1] = p /\ g[2] = q /\ DOMAIN g = 1 .. 2
    BY <2>5
  <2> HIDE DEF g
  <2>7. QED
    BY <2>5, <2>6 DEF p, q
<1> HIDE DEF e
<1>12. d[1] + 1 \in 0 .. B - 1
  <2>1. d[1] # B - 1
    BY <1>2, <1>3, <1>7, <1>9
  <2>2. QED
    BY <1>3, <1>7, <2>1
<1>13. e \in Seq(Word)
  <2>1. \A i \in 1 .. 2 : e[i] \in Word
    BY <1>3, <1>7, <1>11, <1>12
  <2>2. e \in [1 .. 2 -> Word]
    <3>1. e = [i \in 1 .. 2 |-> e[i]]
      BY <1>11
    <3>2. QED
      BY <2>1, <3>1
  <2>3. 2 \in Nat
    OBVIOUS
  <2>4. QED
    BY <2>2, <2>3, SeqDef
<1>14. ToNat(e) = 2 * H - 1
  <2>1. ToNat(e) = e[2] * Base + e[1]
    BY <1>11, ToNatTwo
  <2> DEFINE y == d[2] * B
  <2>2. ToNat(e) = y + (d[1] + 1) /\ y + d[1] = 2 * H - 2 /\ d[1] \in Int /\ y \in Int
    BY <1>3, <1>7, <1>8, <1>11, <2>1
  <2> HIDE DEF y
  <2>3. QED
    BY <1>1, <2>2
<1> DEFINE x == U64Max
<1>15. x.sign = 1 /\ x.mag = e
  BY DEF U64Max, e, d, m
<1>16. e[2] # 0 /\ MaxU64 = 1 * ToNat(e) /\ 1 \in {-1, 1} /\ 2 \in Nat /\ 2 > 0
  BY <1>1, <1>7, <1>11, <1>14
<1> HIDE DEF x
<1>17. Denotes(x, MaxU64)
  BY ONLY <1>11, <1>13, <1>15, <1>16, DenotesNonZero
<1>18. QED
  BY <1>17 DEF x

-----------------------------------------------------------------------------
(* The object of the run with magnitude a is a BigInteger.                 *)
LEMMA ObjectDenotes ==
  ASSUME Operands, NEW sign \in {-1, 1}
  PROVE  Denotes(Object(sign), sign * ToNat(a))
<1>1. a \in Seq(Word) /\ Trimmed(a)
  BY BoundsAssumption, NormalWords DEF Operands
<1>2. Object(sign).mag = a /\ Object(sign).sign = IF a = << >> THEN 0 ELSE sign
  BY DEF Object
<1>3. sign * ToNat(a) = Object(sign).sign * ToNat(Object(sign).mag)
  <2>1. CASE a = << >>
    <3> DEFINE t == ToNat(a)
               s == Object(sign).sign
    <3>1. t = 0 /\ s = 0
      BY <1>2, <2>1, ToNatEmpty
    <3> HIDE DEF t, s
    <3>2. sign * t = s * t
      BY <3>1
    <3>3. QED
      BY <1>2, <3>2 DEF t, s
  <2>2. CASE a # << >>
    BY <1>2, <2>2
  <2>3. QED
    BY <2>1, <2>2
<1>4. QED
  BY <1>1, <1>2, <1>3 DEF Denotes

(* The comparison of a BigInteger with an int64_t.                         *)
LEMMA CmpI64Exact ==
  ASSUME NEW x, NEW v, Denotes(x, v), NEW i \in Int, - (Base * Base) < i, i < Base * Base,
         i # WordMax, i # - WordMax
  PROVE  CmpI64(x, i) = IF v < i THEN -1 ELSE IF v = i THEN 0 ELSE 1
<1>1. Denotes(OfI64(i), i)
  BY OfI64Exact
<1> DEFINE r == OfI64(i)
<1> HIDE DEF r
<1>2. Cmp(x, r) = IF v < i THEN -1 ELSE IF v = i THEN 0 ELSE 1
  BY <1>1, CmpExact DEF r
<1>3. QED
  BY <1>2 DEF CmpI64, r

(* getInt64, getUInt64 and the C function for unsigned numbers.            *)
LEMMA GetExact ==
  ASSUME NEW x, NEW v, Denotes(x, v)
  PROVE  /\ GetInt64(x) = IF v \in MinI64 .. MaxI64 THEN Success(v) ELSE Failure(MaxI64)
         /\ GetUInt64(x) = IF v \in 0 .. MaxU64 THEN Success(v) ELSE Failure(MaxU64)
         /\ ~CGetUInt64(x).ok
<1> DEFINE BB == Base * Base
<1>1. PICK H \in Nat : BB = 2 * H /\ H > Base /\ MaxI64 = H - 1 /\ MinI64 = - H /\ MaxU64 = 2 * H - 1
  BY Int64Range
<1>2. Base \in Nat /\ Base >= 2 /\ WordMax = Base - 1 /\ v \in Int /\ BB \in Nat
  BY BaseProperties, DenotesProperties
<1>3. PICK half \in Nat : Base = 2 * half /\ half >= 2
  BY HalfBase
<1>4. \A i \in Int : i \in {MaxI64, MinI64, -1, 0} =>
        CmpI64(x, i) = IF v < i THEN -1 ELSE IF v = i THEN 0 ELSE 1
  <2>1. ASSUME NEW i \in Int, i \in {MaxI64, MinI64, -1, 0}
        PROVE  - BB < i /\ i < BB /\ i # WordMax /\ i # - WordMax
    <3> HIDE DEF BB
    <3>1. QED
      BY <1>1, <1>2, <1>3, <2>1
  <2>2. QED
    BY <2>1, CmpI64Exact
<1>5. MaxI64 \in Int /\ MinI64 \in Int /\ MaxU64 \in Int
  BY <1>1
<1>6. ToU64(x) = v % BB
  BY ToU64Exact
<1>7. GetInt64(x) = IF v \in MinI64 .. MaxI64 THEN Success(v) ELSE Failure(MaxI64)
  <2>1. CmpI64(x, MaxI64) > 0 \/ CmpI64(x, MinI64) < 0 <=> ~(v \in MinI64 .. MaxI64)
    <3>1. /\ CmpI64(x, MaxI64) = IF v < MaxI64 THEN -1 ELSE IF v = MaxI64 THEN 0 ELSE 1
          /\ CmpI64(x, MinI64) = IF v < MinI64 THEN -1 ELSE IF v = MinI64 THEN 0 ELSE 1
      BY <1>4, <1>5
    <3>2. QED
      BY <1>2, <1>5, <3>1
  <2>2. v \in MinI64 .. MaxI64 => Signed(ToU64(x)) = v
    BY <1>6, SignedExact
  <2>3. QED
    BY <2>1, <2>2 DEF GetInt64
<1>8. GetUInt64(x) = IF v \in 0 .. MaxU64 THEN Success(v) ELSE Failure(MaxU64)
  <2>1. Cmp(x, U64Max) = IF v < MaxU64 THEN -1 ELSE IF v = MaxU64 THEN 0 ELSE 1
    <3> DEFINE r == U64Max
    <3>1. Denotes(r, MaxU64)
      BY U64MaxExact
    <3> HIDE DEF r
    <3>2. Cmp(x, r) = IF v < MaxU64 THEN -1 ELSE IF v = MaxU64 THEN 0 ELSE 1
      BY <3>1, CmpExact
    <3>3. QED
      BY <3>2 DEF r
  <2>2. x.sign = -1 <=> v < 0
    <3>1. x.sign \in {-1, 0, 1}
      BY DEF Denotes
    <3>2. /\ x.sign = 0 => v = 0
          /\ x.sign = 1 => v > 0
          /\ x.sign = -1 => v < 0
      BY DenotesProperties
    <3>3. QED
      BY <1>2, <3>1, <3>2
  <2>3. x.sign = -1 \/ Cmp(x, U64Max) > 0 <=> ~(v \in 0 .. MaxU64)
    BY <1>2, <1>5, <2>1, <2>2
  <2>4. v \in 0 .. MaxU64 => ToU64(x) = v
    <3>1. SUFFICES ASSUME v \in 0 .. MaxU64 PROVE v % BB = v
      BY <1>6
    <3> HIDE DEF BB
    <3>2. 0 <= v /\ v < BB /\ BB >= 1 /\ 0 \in Int /\ v = 0 * BB + v
      BY <1>1, <1>2, <3>1
    <3>3. (0 * BB + v) % BB = v
      BY ONLY <1>2, <3>2, DivisionUnique
    <3>4. QED
      BY <3>2, <3>3
  <2>5. QED
    BY <2>3, <2>4 DEF GetUInt64
<1>9. ~CGetUInt64(x).ok
  <2>1. Signed(MaxU64) = -1
    <3> HIDE DEF BB
    <3>1. Signed(MaxU64) = IF MaxU64 > MaxI64 THEN MaxU64 - BB ELSE MaxU64
      BY DEF Signed, BB
    <3>2. QED
      BY <1>1, <1>2, <3>1
  <2>2. /\ CmpI64(x, -1) = IF v < -1 THEN -1 ELSE IF v = -1 THEN 0 ELSE 1
        /\ CmpI64(x, 0) = IF v < 0 THEN -1 ELSE IF v = 0 THEN 0 ELSE 1
    BY <1>4
  <2>3. CmpI64(x, Signed(MaxU64)) > 0 \/ CmpI64(x, 0) < 0
    BY <1>2, <2>1, <2>2
  <2>4. QED
    BY <2>3 DEF CGetUInt64, Failure
<1>10. QED
  BY <1>7, <1>8, <1>9

(* What goes out to machine integers, for every magnitude and both signs.  *)
LEMMA OperandsConversions == Operands => ConversionExact
<1> SUFFICES ASSUME Operands, NEW sign \in {-1, 1}
    PROVE LET x == Object(sign)
              v == sign * ToNat(a)
          IN  /\ GetInt64(x) = IF v \in MinI64 .. MaxI64 THEN Success(v) ELSE Failure(MaxI64)
              /\ GetUInt64(x) = IF v \in 0 .. MaxU64 THEN Success(v) ELSE Failure(MaxU64)
              /\ ToU64(x) = v % (Base * Base)
              /\ ~CGetUInt64(x).ok
              /\ a # << >> => LET c == NotPlusOne(a, FirstNonZero(a))
                              IN  NotPlusOne(c, FirstNonZero(c)) = a
  BY DEF ConversionExact
<1> DEFINE x == Object(sign)
           v == sign * ToNat(a)
<1>1. Denotes(x, v)
  BY ObjectDenotes
<1>2. a \in Seq(Word) /\ Trimmed(a)
  BY BoundsAssumption, NormalWords DEF Operands
<1>3. ASSUME a # << >>
      PROVE  LET c == NotPlusOne(a, FirstNonZero(a))
             IN  NotPlusOne(c, FirstNonZero(c)) = a
  <2> DEFINE f == FirstNonZero(a)
             c == NotPlusOne(a, f)
  <2>1. FirstAt(a, f)
    BY <1>2, <1>3, FirstNonZeroProperties
  <2>2. c \in Seq(Word) /\ FirstAt(c, f) /\ NotPlusOne(c, f) = a
    <3> HIDE DEF f
    <3>1. QED
      BY <1>2, <2>1, ComplementProperties
  <2> HIDE DEF c, f
  <2>3. FirstNonZero(c) = f
    BY <2>2, FirstNonZeroIs
  <2>4. QED
    BY <2>2, <2>3 DEF c, f
<1> HIDE DEF x, v
<1>4. /\ GetInt64(x) = IF v \in MinI64 .. MaxI64 THEN Success(v) ELSE Failure(MaxI64)
      /\ GetUInt64(x) = IF v \in 0 .. MaxU64 THEN Success(v) ELSE Failure(MaxU64)
      /\ ~CGetUInt64(x).ok
  BY <1>1, GetExact
<1>5. ToU64(x) = v % (Base * Base)
  BY <1>1, ToU64Exact
<1>6. QED
  BY <1>3, <1>4, <1>5 DEF x, v

(* getInt64, getUInt64 and the conversions without a check are exact on    *)
(* all operands, and the complement is its own inverse.                    *)
THEOREM ConversionsAreExact == Spec => []ConversionExact
<1>1. QED
  BY OperandsInvariant, OperandsConversions, PTL

(* What comes in: the comparisons with an int64_t on either side.          *)
LEMMA OperandsComparisons == Operands => ComparesWithI64
<1> SUFFICES ASSUME Operands, ToNat(b) <= MaxI64 + 1, NEW sign \in {-1, 1}, ToNat(b) # WordMax
    PROVE LET x == Object(sign)
              v == sign * ToNat(a)
              i == IF ToNat(b) > MaxI64 \/ n % 2 = 1 THEN - ToNat(b) ELSE ToNat(b)
          IN  /\ CmpI64(x, i) < 0 <=> v < i
              /\ I64Equal(i, x) <=> i = v
              /\ I64Less(i, x) <=> i < v
              /\ I64LessOrEqual(i, x) <=> i <= v
              /\ I64MoreOrEqual(i, x) <=> i >= v
              /\ I64More(i, x) = (i > v) <=> i = v
  BY DEF ComparesWithI64
<1> DEFINE x == Object(sign)
           v == sign * ToNat(a)
           t == ToNat(b)
           BB == Base * Base
           i == IF t > MaxI64 \/ n % 2 = 1 THEN - t ELSE t
<1>1. Denotes(x, v)
  BY ObjectDenotes
<1>2. PICK H \in Nat : BB = 2 * H /\ H > Base /\ MaxI64 = H - 1
  BY Int64Range
<1>3. Base \in Nat /\ Base >= 2 /\ WordMax = Base - 1 /\ BB \in Nat
  BY BaseProperties
<1>4. t \in Nat
  BY BoundsAssumption, NormalWords, WordsProperties, ToNatPositive DEF Operands
<1>5. i \in Int /\ - BB < i /\ i < BB /\ i # WordMax /\ i # - WordMax
  <2>1. t <= H /\ t # Base - 1
    BY <1>2, <1>3
  <2>2. i = t \/ i = - t
    OBVIOUS
  <2> HIDE DEF t, i, BB
  <2>3. QED
    BY <1>2, <1>3, <1>4, <2>1, <2>2
<1> HIDE DEF x, v, i
<1>6. v \in Int
  BY <1>1, DenotesProperties
<1>7. CmpI64(x, i) = IF v < i THEN -1 ELSE IF v = i THEN 0 ELSE 1
  BY <1>1, <1>5, CmpI64Exact
<1>8. /\ CmpI64(x, i) < 0 <=> v < i
      /\ CmpI64(x, i) = 0 <=> i = v
      /\ CmpI64(x, i) > 0 <=> i < v
      /\ CmpI64(x, i) >= 0 <=> i <= v
      /\ CmpI64(x, i) <= 0 <=> i >= v
      /\ (CmpI64(x, i) > 0) = (i > v) <=> i = v
  BY <1>5, <1>6, <1>7
<1>9. QED
  BY <1>8 DEF I64Equal, I64Less, I64LessOrEqual, I64MoreOrEqual, I64More, x, v, i

(* Comparisons with every int64_t but 2^32 - 1 and its negative follow the *)
(* numbers, on all operands, except that the mirrored > answers <.         *)
THEOREM ComparisonsAreExact == Spec => []ComparesWithI64
<1>1. QED
  BY OperandsInvariant, OperandsComparisons, PTL

(* The equation of to_chars(), the digits of a number, highest first.      *)
CharsEquation(f, radix) ==
  f = [x \in Nat |-> IF x < radix THEN <<x>> ELSE Append(f[x \div radix], x % radix)]

(* It has a solution.                                                      *)
LEMMA CharsSolvable ==
  ASSUME NEW radix \in Nat, radix >= 2
  PROVE  \E f : CharsEquation(f, radix)
<1> DEFINE base == [x \in Nat |-> <<x>>]
           next == [x \in Nat |-> x \div radix]
           step == [p \in Nat \X Seq(Nat) |-> Append(p[2], p[1] % radix)]
<1>1. base \in [Nat -> Seq(Nat)]
  OBVIOUS
<1>2. next \in [Nat -> Nat] /\ \A x \in Nat : x >= radix => next[x] < x
  <2>1. ASSUME NEW x \in Nat PROVE x \div radix \in Nat /\ (x >= radix => x \div radix < x)
    <3> DEFINE q == x \div radix
               r == x % radix
    <3>1. q \in Int /\ r \in Int /\ 0 <= r /\ r < radix /\ x = radix * q + r
      OBVIOUS
    <3> HIDE DEF q, r
    <3>2. q >= 0
      BY <3>1
    <3>3. x >= radix => q < x
      BY <3>1, <3>2
    <3>4. QED
      BY <3>1, <3>2, <3>3 DEF q
  <2>2. QED
    BY <2>1
<1>3. step \in [Nat \X Seq(Nat) -> Seq(Nat)]
  <2>1. ASSUME NEW x \in Nat, NEW s \in Seq(Nat) PROVE Append(s, x % radix) \in Seq(Nat)
    <3>1. x % radix \in Nat
      OBVIOUS
    <3>2. QED
      BY <3>1
  <2>2. QED
    BY <2>1
<1>4. ASSUME NEW x \in Nat
      PROVE  base[x] = <<x>> /\ next[x] = x \div radix
  OBVIOUS
<1>5. ASSUME NEW x \in Nat, NEW s \in Seq(Nat)
      PROVE  step[<<x, s>>] = Append(s, x % radix)
  OBVIOUS
<1> HIDE DEF base, next, step
<1>6. PICK f \in [Nat -> Seq(Nat)] : Descends(f, Nat, radix, base, next, step)
  BY <1>1, <1>2, <1>3, Descent
<1>7. ASSUME NEW x \in Nat
      PROVE  f[x] = IF x < radix THEN <<x>> ELSE Append(f[x \div radix], x % radix)
  <2>1. next[x] \in Nat /\ f[next[x]] \in Seq(Nat)
    BY <1>2, <1>6
  <2>2. QED
    BY <1>4, <1>5, <1>6, <2>1 DEF Descends
<1>8. CharsEquation(f, radix)
  BY <1>7 DEF CharsEquation
<1>9. QED
  BY <1>8

(* to_chars() is the one solution, in Fraction as in Text.                 *)
LEMMA ToCharsUnfolds ==
  ASSUME NEW radix \in Nat, radix >= 2, NEW v \in Nat
  PROVE  /\ v < radix => Txt!ToChars(v, radix) = <<v>>
         /\ v >= radix => Txt!ToChars(v, radix) =
                            Append(Txt!ToChars(v \div radix, radix), v % radix)
         /\ Fr!Txt!ToChars(v, radix) = Txt!ToChars(v, radix)
<1> DEFINE d == CHOOSE f : CharsEquation(f, radix)
<1>1. \A x : Txt!ToChars(x, radix) = d[x] /\ Fr!Txt!ToChars(x, radix) = d[x]
  BY DEF Txt!ToChars, Fr!Txt!ToChars, CharsEquation
<1>2. CharsEquation(d, radix)
  BY CharsSolvable
<1> HIDE DEF d
<1>3. d[v] = IF v < radix THEN <<v>> ELSE Append(d[v \div radix], v % radix)
  BY <1>2 DEF CharsEquation
<1>4. Txt!ToChars(v, radix) = d[v] /\ Fr!Txt!ToChars(v, radix) = d[v]
  BY <1>1
<1>5. Txt!ToChars(v \div radix, radix) = d[v \div radix]
  BY <1>1
<1>6. v < radix => d[v] = <<v>>
  BY <1>3
<1>7. v >= radix => d[v] = Append(d[v \div radix], v % radix)
  BY <1>3
<1>8. QED
  BY <1>4, <1>5, <1>6, <1>7, Zenon

-----------------------------------------------------------------------------
(* Divisibility and the greatest common divisor.                           *)
DividesInt(d, x) == \E k \in Int : x = d * k

(* g is the greatest common divisor: its divisors are the common ones.     *)
IsGcd(g, x, y) == /\ g \in Nat
                  /\ \A d \in Nat : DividesInt(d, g) <=> DividesInt(d, x) /\ DividesInt(d, y)

(* Multiples and sums of what d divides.                                   *)
LEMMA DividesSum ==
  ASSUME NEW d \in Int, NEW x \in Int, NEW y \in Int, NEW c \in Int,
         DividesInt(d, x), DividesInt(d, y)
  PROVE  DividesInt(d, x * c + y)
<1>1. PICK k \in Int : x = d * k
  BY DEF DividesInt
<1>2. PICK j \in Int : y = d * j
  BY DEF DividesInt
<1>3. x * c = d * (k * c)
  BY <1>1
<1>4. k * c \in Int
  OBVIOUS
<1> DEFINE m == k * c
<1> HIDE DEF m
<1>5. x * c + y = d * (m + j)
  BY <1>2, <1>3, <1>4, Distribute DEF m
<1>6. m + j \in Int
  BY <1>4 DEF m
<1>7. QED
  BY <1>5, <1>6 DEF DividesInt

(* A step of Euclid's algorithm leaves the common divisors.                *)
LEMMA DividesRemainder ==
  ASSUME NEW d \in Nat, NEW x \in Nat, x > 0, NEW y \in Nat, DividesInt(d, x)
  PROVE  DividesInt(d, y) <=> DividesInt(d, y % x)
<1> DEFINE q == y \div x
           r == y % x
<1>1. q \in Int /\ r \in Int /\ y = x * q + r
  OBVIOUS
<1> HIDE DEF q, r
<1>2. ASSUME DividesInt(d, r) PROVE DividesInt(d, y)
  <2>1. d \in Int /\ x \in Int
    OBVIOUS
  <2>2. DividesInt(d, x * q + r)
    BY <1>1, <1>2, <2>1, DividesSum
  <2>3. QED
    BY <1>1, <2>2
<1>3. ASSUME DividesInt(d, y) PROVE DividesInt(d, r)
  <2>1. - q \in Int /\ r = x * (- q) + y
    <3>1. x * (- q) = - (x * q)
      BY <1>1
    <3> DEFINE p == x * q
               m == x * (- q)
    <3>2. p \in Int
      BY <1>1
    <3>3. m = - p /\ y = p + r
      BY <1>1, <3>1
    <3> HIDE DEF p, m
    <3>4. r = m + y
      BY <1>1, <3>2, <3>3
    <3>5. QED
      BY <1>1, <3>4 DEF m
  <2>2. d \in Int /\ x \in Int /\ y \in Int
    OBVIOUS
  <2>3. DividesInt(d, x * (- q) + y)
    BY <1>3, <2>1, <2>2, DividesSum
  <2>4. QED
    BY <2>1, <2>3
<1>4. QED
  BY <1>2, <1>3 DEF r

(* A divisor of a positive number is not greater.                          *)
LEMMA DividesLess ==
  ASSUME NEW d \in Nat, NEW x \in Nat, x > 0, DividesInt(d, x)
  PROVE  d <= x /\ d > 0
<1>1. PICK k \in Int : x = d * k
  BY DEF DividesInt
<1>2. d > 0 /\ k > 0
  BY <1>1
<1>3. d * k >= d
  BY <1>2
<1>4. QED
  BY <1>1, <1>2, <1>3

(* Only zero is divided by zero, and everything divides it.                *)
LEMMA DividesZero ==
  ASSUME NEW d \in Nat
  PROVE  DividesInt(d, 0) /\ DividesInt(d, d) /\ (DividesInt(0, d) => d = 0)
<1>1. 0 = d * 0 /\ d = d * 1
  OBVIOUS
<1>2. DividesInt(0, d) => d = 0
  BY DEF DividesInt
<1>3. QED
  BY <1>1, <1>2 DEF DividesInt

(* The first case of the algorithm, and its step.                          *)
LEMMA GcdSteps ==
  ASSUME NEW g, NEW x \in Nat, NEW y \in Nat
  PROVE  /\ x = 0 => (IsGcd(g, x, y) <=> g = y)
         /\ x # 0 => (IsGcd(g, x, y) <=> IsGcd(g, y % x, x))
<1>1. ASSUME x = 0 PROVE IsGcd(g, x, y) <=> g = y
  <2>1. \A d \in Nat : DividesInt(d, x)
    BY <1>1, DividesZero
  <2>2. g = y => IsGcd(g, x, y)
    BY <2>1 DEF IsGcd
  <2>3. ASSUME IsGcd(g, x, y) PROVE g = y
    <3>1. g \in Nat /\ DividesInt(g, g) /\ DividesInt(y, y)
      BY <2>3, DividesZero DEF IsGcd
    <3>2. DividesInt(g, y) /\ DividesInt(y, g)
      BY <2>1, <2>3, <3>1 DEF IsGcd
    <3>3. CASE y = 0
      BY <3>1, <3>2, <3>3, DividesZero
    <3>4. CASE g = 0
      BY <3>1, <3>2, <3>4, DividesZero
    <3>5. CASE y > 0 /\ g > 0
      <4>1. g <= y /\ y <= g
        BY <3>1, <3>2, <3>5, DividesLess
      <4>2. QED
        BY <3>1, <4>1
    <3>6. QED
      BY <3>1, <3>3, <3>4, <3>5
  <2>4. QED
    BY <2>2, <2>3
<1>2. ASSUME x # 0 PROVE IsGcd(g, x, y) <=> IsGcd(g, y % x, x)
  <2>1. \A d \in Nat : DividesInt(d, x) /\ DividesInt(d, y) <=>
                       DividesInt(d, y % x) /\ DividesInt(d, x)
    BY <1>2, DividesRemainder
  <2>2. QED
    BY <2>1 DEF IsGcd
<1>3. QED
  BY <1>1, <1>2

(* Every two numbers have a greatest common divisor.                       *)
LEMMA GcdExists ==
  ASSUME NEW m \in Nat, NEW y \in Nat
  PROVE  \E g : IsGcd(g, m, y)
<1> DEFINE T == {i \in 0 .. m : \A x \in 0 .. i : \A z \in Nat : \E g : IsGcd(g, x, z)}
<1>1. 0 \in T
  <2>1. \A z \in Nat : IsGcd(z, 0, z)
    BY GcdSteps
  <2>2. \A x \in 0 .. 0 : x = 0
    OBVIOUS
  <2>3. QED
    BY <2>1, <2>2
<1>2. ASSUME NEW i \in 0 .. m - 1, i \in T PROVE i + 1 \in T
  <2>1. i + 1 \in 0 .. m /\ i + 1 \in Nat /\ i + 1 # 0
    OBVIOUS
  <2>2. ASSUME NEW z \in Nat PROVE \E g : IsGcd(g, i + 1, z)
    <3>1. z % (i + 1) \in 0 .. i /\ z % (i + 1) \in Nat
      BY <2>1
    <3>2. PICK g : IsGcd(g, z % (i + 1), i + 1)
      BY <1>2, <2>1, <3>1
    <3>3. IsGcd(g, i + 1, z)
      BY <2>1, <3>2, GcdSteps
    <3>4. QED
      BY <3>3
  <2>3. \A x \in 0 .. i + 1 : x \in 0 .. i \/ x = i + 1
    OBVIOUS
  <2>4. QED
    BY <1>2, <2>1, <2>2, <2>3
<1> HIDE DEF T
<1>3. \A i \in 0 .. m : i \in T
  BY <1>1, <1>2, UpTo
<1>4. m \in T /\ m \in 0 .. m
  BY <1>3
<1>5. QED
  BY <1>4 DEF T

(* The equation of gcd(), the smaller operand first.                       *)
Euclid(f) == f = [p \in Nat \X Nat |-> IF p[1] = 0 THEN p[2] ELSE f[<<p[2] % p[1], p[1]>>]]

(* The greatest common divisor itself solves it.                           *)
LEMMA EuclidSolvable == \E f : Euclid(f)
<1> DEFINE G(x, y) == {g \in Nat : IsGcd(g, x, y)}
           f == [p \in Nat \X Nat |-> CHOOSE g \in G(p[1], p[2]) : TRUE]
<1>1. ASSUME NEW y \in Nat PROVE f[<<0, y>>] = y
  <2>1. G(0, y) = {y}
    BY GcdSteps
  <2> HIDE DEF G
  <2>2. (CHOOSE g \in {y} : TRUE) = y
    OBVIOUS
  <2>3. <<0, y>> \in Nat \X Nat
    OBVIOUS
  <2>4. f[<<0, y>>] = CHOOSE g \in G(0, y) : TRUE
    BY <2>3
  <2> HIDE DEF f
  <2>5. QED
    BY <2>1, <2>2, <2>4
<1>2. ASSUME NEW x \in Nat, NEW y \in Nat, x # 0 PROVE f[<<x, y>>] = f[<<y % x, x>>]
  <2>1. G(x, y) = G(y % x, x)
    BY <1>2, GcdSteps
  <2> HIDE DEF G
  <2>2. <<x, y>> \in Nat \X Nat /\ <<y % x, x>> \in Nat \X Nat
    BY <1>2
  <2> DEFINE z == y % x
  <2> HIDE DEF z
  <2>3. f[<<x, y>>] = CHOOSE g \in G(x, y) : TRUE
    BY <2>2
  <2>4. f[<<z, x>>] = CHOOSE g \in G(z, x) : TRUE
    BY <2>2 DEF z
  <2> HIDE DEF f
  <2>5. QED
    BY <2>1, <2>3, <2>4 DEF z
<1>3. f = [p \in Nat \X Nat |-> f[p]]
  OBVIOUS
<1> HIDE DEF f
<1>4. ASSUME NEW p \in Nat \X Nat
      PROVE  f[p] = IF p[1] = 0 THEN p[2] ELSE f[<<p[2] % p[1], p[1]>>]
  <2>1. PICK x \in Nat, y \in Nat : p = <<x, y>>
    OBVIOUS
  <2>2. QED
    BY <1>1, <1>2, <2>1
<1>5. Euclid(f)
  BY <1>3, <1>4 DEF Euclid
<1>6. QED
  BY <1>5

(* No other function does: by induction on the first operand.              *)
LEMMA EuclidExact ==
  ASSUME NEW f, Euclid(f), NEW m \in Nat, NEW y \in Nat
  PROVE  IsGcd(f[<<m, y>>], m, y)
<1> DEFINE T == {i \in 0 .. m : \A x \in 0 .. i : \A z \in Nat : IsGcd(f[<<x, z>>], x, z)}
<1>1. ASSUME NEW x \in Nat, NEW z \in Nat
      PROVE  f[<<x, z>>] = IF x = 0 THEN z ELSE f[<<z % x, x>>]
  <2>1. <<x, z>> \in Nat \X Nat
    OBVIOUS
  <2>2. QED
    BY <2>1 DEF Euclid
<1>2. 0 \in T
  <2>1. \A z \in Nat : f[<<0, z>>] = z
    BY <1>1
  <2>2. \A z \in Nat : IsGcd(z, 0, z)
    BY GcdSteps
  <2>3. \A x \in 0 .. 0 : x = 0
    OBVIOUS
  <2>4. QED
    BY <2>1, <2>2, <2>3
<1>3. ASSUME NEW i \in 0 .. m - 1, i \in T PROVE i + 1 \in T
  <2>1. i + 1 \in 0 .. m /\ i + 1 \in Nat /\ i + 1 # 0
    OBVIOUS
  <2>2. ASSUME NEW z \in Nat PROVE IsGcd(f[<<i + 1, z>>], i + 1, z)
    <3>1. z % (i + 1) \in 0 .. i
      BY <2>1
    <3>2. IsGcd(f[<<z % (i + 1), i + 1>>], z % (i + 1), i + 1)
      BY <1>3, <2>1, <3>1
    <3>3. f[<<i + 1, z>>] = f[<<z % (i + 1), i + 1>>]
      BY <1>1, <2>1
    <3>4. QED
      BY <2>1, <3>2, <3>3, GcdSteps
  <2>3. \A x \in 0 .. i + 1 : x \in 0 .. i \/ x = i + 1
    OBVIOUS
  <2>4. QED
    BY <1>3, <2>1, <2>2, <2>3
<1> HIDE DEF T
<1>4. \A i \in 0 .. m : i \in T
  BY <1>2, <1>3, UpTo
<1>5. m \in T /\ m \in 0 .. m
  BY <1>4
<1>6. QED
  BY <1>5 DEF T

(* gcd() of the smaller and the greater operand.                           *)
LEMMA GcdExact ==
  ASSUME NEW x \in Nat, NEW y \in Nat
  PROVE  IsGcd(Fr!Gcd(x, y), x, y)
<1> DEFINE e == CHOOSE f : Euclid(f)
<1>1. Fr!Gcd(x, y) = e[<<Fr!Min({x, y}), Fr!Max({x, y})>>]
  BY DEF Fr!Gcd, Euclid
<1>2. Euclid(e)
  BY EuclidSolvable
<1> HIDE DEF e
<1>3. Fr!Min({x, y}) = IF x < y THEN x ELSE y
  BY DEF Fr!Min
<1>4. Fr!Max({x, y}) = IF x < y THEN y ELSE x
  BY DEF Fr!Max
<1>5. IsGcd(e[<<x, y>>], x, y) /\ IsGcd(e[<<y, x>>], y, x)
  BY <1>2, EuclidExact
<1>6. IsGcd(e[<<y, x>>], x, y)
  BY <1>5 DEF IsGcd
<1>7. CASE x < y
  BY <1>1, <1>3, <1>4, <1>5, <1>7
<1>8. CASE ~(x < y)
  BY <1>1, <1>3, <1>4, <1>6, <1>8
<1>9. QED
  BY <1>7, <1>8

(* A quotient without a remainder, of either sign.                         *)
LEMMA QuotExact ==
  ASSUME NEW x \in Int, NEW g \in Nat, g > 0, DividesInt(g, Fr!Abs(x))
  PROVE  Fr!Quot(x, g) \in Int /\ x = g * Fr!Quot(x, g)
<1>1. PICK k \in Int : Fr!Abs(x) = g * k
  BY DEF DividesInt
<1>2. Fr!Abs(x) = (IF x < 0 THEN - x ELSE x) /\ Fr!Abs(g) = g
  BY DEF Fr!Abs
<1>3. (k * g + 0) \div g = k
  BY DivisionUnique
<1>4. g * k = k * g + 0
  OBVIOUS
<1>5. Fr!Abs(x) \div Fr!Abs(g) = k
  BY <1>1, <1>2, <1>3, <1>4
<1>6. Fr!Quot(x, g) = IF x < 0 THEN - k ELSE k
  BY <1>5 DEF Fr!Quot
<1>7. CASE x < 0
  <2>1. g * (- k) = - (g * k)
    OBVIOUS
  <2>2. QED
    BY <1>1, <1>2, <1>6, <1>7, <2>1
<1>8. CASE ~(x < 0)
  BY <1>1, <1>2, <1>6, <1>8
<1>9. QED
  BY <1>7, <1>8

(* What divides a number divides its absolute value.                       *)
LEMMA DividesAbs ==
  ASSUME NEW d \in Int, NEW x \in Int, DividesInt(d, x)
  PROVE  DividesInt(d, Fr!Abs(x)) /\ Fr!Abs(x) \in Nat /\ (Fr!Abs(x) = 0 <=> x = 0)
<1>1. PICK k \in Int : x = d * k
  BY DEF DividesInt
<1>2. - k \in Int /\ - x = d * (- k)
  BY <1>1
<1>3. QED
  BY <1>1, <1>2 DEF DividesInt, Fr!Abs

(* A reduced fraction of the integers num and den.                         *)
Lowest(f, num, den) ==
  /\ f.num \in Int /\ f.den \in Int /\ f.den # 0
  /\ Reduced(f) /\ Equals(f, num, den)

(* What fix() leaves.                                                      *)
LEMMA FracExact ==
  ASSUME NEW num \in Int, NEW den \in Int, den # 0
  PROVE  Lowest(Fr!Frac(num, den), num, den)
<1> DEFINE x == Fr!Abs(num)
           y == Fr!Abs(den)
           g == Fr!Gcd(x, y)
           fn == Fr!Quot(num, g)
           fd == Fr!Quot(den, g)
<1>1. Fr!Frac(num, den) = [num |-> fn, den |-> fd]
  BY DEF Fr!Frac, Fr!Fix
<1>2. x \in Nat /\ y \in Nat /\ y > 0
  BY DEF Fr!Abs
<1>3. IsGcd(g, x, y)
  BY <1>2, GcdExact
<1>4. g \in Nat /\ DividesInt(g, g)
  BY <1>3, DividesZero DEF IsGcd
<1>5. DividesInt(g, x) /\ DividesInt(g, y)
  BY <1>3, <1>4 DEF IsGcd
<1>6. g > 0
  BY <1>2, <1>4, <1>5, DividesLess
<1>7. fn \in Int /\ num = g * fn /\ fd \in Int /\ den = g * fd
  BY <1>4, <1>5, <1>6, QuotExact
<1> HIDE DEF g, fn, fd
<1>8. fd # 0
  BY <1>4, <1>7
<1>9. fn * den = num * fd
  <2>1. fn * (g * fd) = (g * fn) * fd
    BY <1>4, <1>7
  <2>2. QED
    BY <1>7, <2>1
<1>10. ASSUME NEW d \in 2 .. Fr!Abs(fd), fd % d = 0, fn % d = 0 PROVE FALSE
  <2>1. d \in Nat /\ d >= 2
    <3>1. Fr!Abs(fd) \in Int
      BY <1>7 DEF Fr!Abs
    <3>2. QED
      BY <3>1
  <2>2. \A z \in Int : z % d = 0 => z = d * (z \div d) /\ z \div d \in Int
    BY <2>1
  <2>3. PICK k \in Int : fd = d * k
    BY <1>7, <1>10, <2>2
  <2>4. PICK j \in Int : fn = d * j
    BY <1>7, <1>10, <2>2
  <2>5. num = (g * d) * j /\ den = (g * d) * k
    <3>1. g * (d * j) = (g * d) * j /\ g * (d * k) = (g * d) * k
      BY <1>4, <2>1
    <3>2. QED
      BY <1>7, <2>3, <2>4, <3>1
  <2>6. g * d \in Nat
    BY <1>4, <2>1
  <2> DEFINE e == g * d
  <2>7. DividesInt(e, num) /\ DividesInt(e, den)
    BY <2>5 DEF DividesInt
  <2>8. DividesInt(e, x) /\ DividesInt(e, y)
    BY <2>6, <2>7, DividesAbs
  <2>9. DividesInt(e, g)
    BY <1>3, <2>6, <2>8 DEF IsGcd
  <2>10. e <= g
    BY <1>4, <1>6, <2>6, <2>9, DividesLess
  <2>11. e > g
    BY <1>4, <1>6, <2>1
  <2>12. QED
    BY <1>4, <2>6, <2>10, <2>11
<1> DEFINE f == Fr!Frac(num, den)
<1>11. f.num = fn /\ f.den = fd
  BY <1>1
<1> HIDE DEF f
<1>12. Reduced(f)
  BY <1>8, <1>10, <1>11 DEF Reduced
<1>13. Equals(f, num, den)
  BY <1>9, <1>11 DEF Equals
<1>14. Lowest(f, num, den)
  BY <1>7, <1>8, <1>11, <1>12, <1>13 DEF Lowest
<1>15. QED
  BY <1>14 DEF f

(* The one or two digits of a number below a hundred.                      *)
LEMMA TwoDigits ==
  ASSUME NEW v \in Nat, v < 100
  PROVE  /\ Txt!ToChars(v, 10) \in Seq(Nat)
         /\ v < 10 => Txt!ToChars(v, 10) = <<v>>
         /\ v >= 10 => Len(Txt!ToChars(v, 10)) = 2
<1> DEFINE chars(x) == Txt!ToChars(x, 10)
           q == v \div 10
           r == v % 10
<1>1. \A x \in Nat : x < 10 => chars(x) = <<x>>
  BY ToCharsUnfolds
<1>2. v >= 10 => chars(v) = Append(chars(q), r)
  <2>1. 10 \in Nat /\ 10 >= 2
    OBVIOUS
  <2>2. v >= 10 => Txt!ToChars(v, 10) = Append(Txt!ToChars(v \div 10, 10), v % 10)
    BY <2>1, ToCharsUnfolds, Zenon
  <2>3. QED
    BY <2>2
<1>3. q \in Nat /\ r \in Nat /\ q < 10
  OBVIOUS
<1> HIDE DEF chars, q, r
<1>4. chars(q) = <<q>>
  BY <1>1, <1>3
<1>5. <<q>> \in Seq(Nat) /\ Len(<<q>>) = 1 /\ <<v>> \in Seq(Nat)
  BY <1>3
<1>6. Append(<<q>>, r) \in Seq(Nat) /\ Len(Append(<<q>>, r)) = 2
  BY <1>3, <1>5
<1>7. CASE v < 10
  <2>1. chars(v) = <<v>> /\ ~(v >= 10)
    BY <1>1, <1>7
  <2>2. QED
    BY <1>5, <2>1 DEF chars
<1>8. CASE v >= 10
  <2>1. chars(v) = Append(<<q>>, r) /\ ~(v < 10)
    BY <1>2, <1>4, <1>8
  <2>2. chars(v) \in Seq(Nat) /\ Len(chars(v)) = 2
    BY <1>6, <2>1
  <2>3. QED
    BY <2>1, <2>2 DEF chars
<1>9. QED
  BY <1>7, <1>8

(* toDecimal's two digits, and what they should be.                        *)
LEMMA TwoDecimals ==
  ASSUME NEW f, f.num \in Int, f.den \in Int, f.den > 0
  PROVE  LET rest == ((Fr!Abs(f.num) % f.den) * 100) \div f.den
         IN  Fr!ToDecimal(f, 2).decimals = Txt!Padded(Txt!ToChars(rest, 10), 2) <=> rest >= 10
<1> DEFINE x == Fr!Abs(f.num)
           r == x % f.den
           rest == (r * 100) \div f.den
           chars == Txt!ToChars(rest, 10)
<1>1. x \in Nat /\ Fr!Abs(f.den) = f.den
  BY DEF Fr!Abs
<1>2. r \in Nat /\ r < f.den
  BY <1>1
<1>3. 10 ^ 2 = 100
  OBVIOUS
<1>4. rest \in Nat /\ rest < 100
  <2> DEFINE m == r * 100
             d == f.den
             q == m \div d
  <2>1. m \in Nat /\ d \in Nat /\ d > 0
    BY <1>2
  <2>2. m < 100 * d
    BY <1>2
  <2> HIDE DEF m, d
  <2>3. q \in Int /\ d * q <= m /\ q >= 0
    BY <2>1
  <2> HIDE DEF q
  <2>4. q < 100
    BY <2>1, <2>2, <2>3
  <2>5. rest = q
    BY DEF q, m, d
  <2>6. QED
    BY <2>3, <2>4, <2>5
<1> HIDE DEF x
<1>5. Fr!Quot(r * 100, f.den) = rest
  <2>1. r * 100 >= 0 /\ r * 100 \in Int
    BY <1>2
  <2>2. ~(r * 100 < 0) /\ ~(f.den < 0)
    BY <2>1
  <2>3. Fr!Abs(r * 100) = r * 100
    BY <2>2 DEF Fr!Abs
  <2> DEFINE m == r * 100
  <2> HIDE DEF m
  <2>4. Fr!Quot(m, f.den) = m \div f.den
    BY <1>1, <2>2, <2>3 DEF Fr!Quot, m
  <2>5. QED
    BY <2>4 DEF m
<1> HIDE DEF r, rest
<1>6. Fr!Txt!ToChars(rest, 10) = chars /\ Fr!Abs(rest) = rest
  BY <1>4, ToCharsUnfolds DEF Fr!Abs
<1>7. /\ chars \in Seq(Nat) /\ Len(chars) \in {1, 2}
      /\ rest < 10 => chars = <<rest>> /\ Len(chars) = 1
      /\ rest >= 10 => Len(chars) = 2
  <2>1. /\ chars \in Seq(Nat)
        /\ rest < 10 => chars = <<rest>>
        /\ rest >= 10 => Len(chars) = 2
    BY <1>4, TwoDigits
  <2>2. rest < 10 => Len(chars) = 1
    BY <2>1
  <2> HIDE DEF chars
  <2>3. QED
    BY <1>4, <2>1, <2>2
<1> DEFINE len == Len(chars)
           fill == Fr!Max({0, 2 - len - 1})
<1>8. Fr!ToDecimal(f, 2).decimals = chars \o Fr!Txt!Zeros(fill)
  <2>1. ~(rest < 0) /\ << >> \o chars = chars
    BY <1>4, <1>7
  <2>2. Fr!Quot((Fr!Abs(f.num) % Fr!Abs(f.den)) * 10 ^ 2, f.den) = rest
    BY <1>1, <1>3, <1>5 DEF r, x
  <2> HIDE DEF chars
  <2>3. QED
    BY <1>6, <2>1, <2>2 DEF Fr!ToDecimal
<1> HIDE DEF chars
<1>9. fill = 0
  <2> HIDE DEF len
  <2>1. len \in {1, 2}
    BY <1>7 DEF len
  <2>2. QED
    BY <2>1 DEF Fr!Max
<1> HIDE DEF fill
<1>10. Fr!Txt!Zeros(0) = << >> /\ chars \o << >> = chars
  BY <1>7 DEF Fr!Txt!Zeros
<1>11. Fr!ToDecimal(f, 2).decimals = chars
  BY <1>8, <1>9, <1>10
<1>12. CASE rest < 10
  <2>1. len = 1
    BY <1>7, <1>12, Zenon
  <2> HIDE DEF len
  <2>2. 2 - len = 1
    BY <2>1
  <2>3. Txt!Padded(chars, 2) = Txt!Zeros(1) \o chars
    BY <2>2 DEF Txt!Padded, len
  <2>4. Txt!Zeros(1) \in Seq(Nat) /\ Len(Txt!Zeros(1)) = 1
    BY DEF Txt!Zeros
  <2>5. Len(Txt!Padded(chars, 2)) = 2
    <3> DEFINE z == Txt!Zeros(1)
    <3>1. z \in Seq(Nat) /\ chars \in Seq(Nat) /\ Len(z) = 1 /\ Len(chars) = 1
      BY <1>7, <2>4, <2>1 DEF len
    <3> HIDE DEF z
    <3>2. Len(z \o chars) = Len(z) + Len(chars)
      BY <3>1, ConcatProperties
    <3>3. Len(z \o chars) = 1 + 1
      BY <3>1, <3>2
    <3>4. 1 + 1 = 2
      OBVIOUS
    <3>5. QED
      BY <2>3, <3>3, <3>4 DEF z
  <2>6. Txt!Padded(chars, 2) # chars
    BY <1>7, <1>12, <2>5
  <2>7. QED
    BY <1>4, <1>11, <1>12, <2>6 DEF chars, rest, r, x
<1>13. CASE rest >= 10
  <2>1. len = 2
    BY <1>7, <1>13, Zenon
  <2> HIDE DEF len
  <2>2. 2 - len = 0
    BY <2>1
  <2>3. Txt!Padded(chars, 2) = Txt!Zeros(0) \o chars
    BY <2>2 DEF Txt!Padded, len
  <2>4. Txt!Zeros(0) = << >> /\ << >> \o chars = chars
    BY <1>7 DEF Txt!Zeros
  <2>5. QED
    BY <1>11, <1>13, <2>3, <2>4 DEF chars, rest, r, x
<1>14. QED
  BY <1>4, <1>12, <1>13 DEF rest, r, x

(* o is t over r, where t is l times r.                                    *)
TimesAndOver(l, r, t, o) ==
  /\ {l.num, l.den, r.num, r.den, t.num, t.den, o.num, o.den} \subseteq Int
  /\ r.num # 0 /\ t.den # 0
  /\ t.num * (l.den * r.den) = (l.num * r.num) * t.den
  /\ o.num * (t.den * r.num) = (t.num * r.den) * o.den

(* A quotient of a product by a factor is the other factor.                *)
LEMMA CrossMultiplied ==
  ASSUME NEW l, NEW r, NEW t, NEW o, TimesAndOver(l, r, t, o)
  PROVE  o.num * l.den = l.num * o.den
<1> DEFINE ln == l.num
           ld == l.den
           rn == r.num
           rd == r.den
           tn == t.num
           td == t.den
           on == o.num
           od == o.den
<1>1. /\ ln \in Int /\ ld \in Int /\ rn \in Int /\ rd \in Int /\ rn # 0
      /\ tn \in Int /\ td \in Int /\ td # 0 /\ on \in Int /\ od \in Int
  BY DEF TimesAndOver
<1>2. tn * (ld * rd) = (ln * rn) * td /\ on * (td * rn) = (tn * rd) * od
  BY DEF TimesAndOver
<1>3. SUFFICES on * ld = ln * od
  OBVIOUS
<1> HIDE DEF ln, ld, rn, rd, tn, td, on, od
<1> DEFINE k == td * rn
<1>4. k \in Int /\ k # 0
  BY <1>1
<1>5. (on * ld) * k = (on * k) * ld
  BY <1>1
<1>6. ((tn * rd) * od) * ld = (tn * (ld * rd)) * od
  BY <1>1
<1>7. ((ln * rn) * td) * od = (ln * od) * k
  BY <1>1
<1>8. (on * ld) * k = (ln * od) * k
  BY <1>5, <1>6, <1>7, <1>2
<1> HIDE DEF k
<1> DEFINE u == on * ld
           v == ln * od
<1>9. u \in Int /\ v \in Int
  BY <1>1
<1>10. u * k = v * k
  BY <1>8
<1> HIDE DEF u, v
<1>11. u = v
  BY <1>4, <1>9, <1>10
<1>12. QED
  BY <1>11 DEF u, v

(* Fractions: reduced and exact, whatever the operands.                    *)
LEMMA OperandsFractions == Operands => FractionExact
<1> SUFFICES ASSUME Operands, b # << >> PROVE
      LET l == Left
          r == Right
      IN  /\ \A f \in {l, Fr!SetNum(l, n), Fr!Plus(l, r), Fr!Minus(l, r), Fr!Times(l, r),
                        Fr!Over(l, r).frac, Fr!SetDen(l, n).frac} : Reduced(f)
          /\ Equals(l, ToNat(a) - 6, ToNat(b))
          /\ Equals(Fr!Plus(l, r), l.num * r.den + r.num * l.den, l.den * r.den)
          /\ Equals(Fr!Minus(l, r), l.num * r.den - r.num * l.den, l.den * r.den)
          /\ Equals(Fr!Times(l, r), l.num * r.num, l.den * r.den)
          /\ r.num # 0 => Equals(Fr!Over(Fr!Times(l, r), r).frac, l.num, l.den)
          /\ LET rest == ((Fr!Abs(l.num) % l.den) * 100) \div l.den
             IN  n = 0 /\ l.den > 0 =>
                   (Fr!ToDecimal(l, 2).decimals = Txt!Padded(Txt!ToChars(rest, 10), 2)
                      <=> rest >= 10)
  BY DEF FractionExact
<1> DEFINE l == Left
           r == Right
           num == ToNat(a) - 6
           den == ToNat(b)
<1>1. num \in Int /\ den \in Int /\ den # 0 /\ n \in Nat
  <2>1. a \in Seq(Word) /\ b \in Seq(Word) /\ Trimmed(b) /\ n \in Nat
    BY BoundsAssumption, NormalWords DEF Operands
  <2>2. ToNat(a) \in Nat /\ ToNat(b) \in Nat
    BY <2>1, WordsProperties, ToNatPositive
  <2>3. Len(b) > 0 /\ b[Len(b)] # 0
    BY <2>1 DEF Trimmed
  <2>4. ToNat(b) > 0
    BY <2>1, <2>3, WordsProperties, ToNatPositive
  <2>5. QED
    BY <2>1, <2>2, <2>4
<1> HIDE DEF num, den
<1>2. Lowest(l, num, den)
  <2>1. l = Fr!Frac(num, den)
    BY <1>1 DEF Left, Fr!New, Fr!Succeeds, num, den
  <2>2. QED
    BY <1>1, <2>1, FracExact
<1>3. r.num \in Int /\ r.den \in Int /\ r.den # 0
  <2> DEFINE y == IF n % 2 = 0 THEN n + 1 ELSE - n
  <2>1. y \in Int /\ y # 0 /\ n - 3 \in Int
    BY <1>1
  <2> HIDE DEF y
  <2>2. r = Fr!Frac(n - 3, y)
    BY <2>1 DEF Right, Fr!New, Fr!Succeeds, y
  <2>3. Lowest(r, n - 3, y)
    BY <2>1, <2>2, FracExact
  <2>4. QED
    BY <2>3 DEF Lowest
<1> HIDE DEF l, r
<1>4. l.num \in Int /\ l.den \in Int /\ l.den # 0 /\ Reduced(l) /\ Equals(l, num, den)
  BY <1>2 DEF Lowest
<1>5. l.den * r.den \in Int /\ l.den * r.den # 0 /\ l.num * r.num \in Int
      /\ l.num * r.den \in Int /\ r.num * l.den \in Int
  BY <1>3, <1>4
<1> DEFINE sum == l.num * r.den + r.num * l.den
           diff == l.num * r.den - r.num * l.den
           prod == l.num * r.num
           dens == l.den * r.den
<1>6. sum \in Int /\ diff \in Int /\ prod \in Int /\ dens \in Int /\ dens # 0
  BY <1>5
<1>7. /\ Fr!Plus(l, r) = Fr!Frac(sum, dens) /\ Fr!Minus(l, r) = Fr!Frac(diff, dens)
      /\ Fr!Times(l, r) = Fr!Frac(prod, dens)
  BY DEF Fr!Plus, Fr!Minus, Fr!Times
<1> HIDE DEF sum, diff, prod, dens
<1>8. /\ Lowest(Fr!Plus(l, r), sum, dens) /\ Lowest(Fr!Minus(l, r), diff, dens)
      /\ Lowest(Fr!Times(l, r), prod, dens)
  BY <1>6, <1>7, FracExact
<1>9. Reduced(Fr!SetNum(l, n))
  <2>1. Lowest(Fr!Frac(n, l.den), n, l.den)
    BY <1>1, <1>4, FracExact
  <2>2. QED
    BY <2>1 DEF Fr!SetNum, Lowest
<1>10. Reduced(Fr!SetDen(l, n).frac)
  <2>1. CASE n = 0
    BY <1>4, <2>1 DEF Fr!SetDen, Fr!Fails
  <2>2. CASE n # 0
    <3>1. Lowest(Fr!Frac(l.num, n), l.num, n)
      BY <1>1, <1>4, <2>2, FracExact
    <3>2. QED
      BY <2>2, <3>1 DEF Fr!SetDen, Fr!Succeeds, Lowest
  <2>3. QED
    BY <2>1, <2>2
<1>11. ASSUME NEW f, f.num \in Int, f.den \in Int, f.den # 0, r.num # 0
       PROVE  Lowest(Fr!Over(f, r).frac, f.num * r.den, f.den * r.num)
  <2> DEFINE x == f.num * r.den
             y == f.den * r.num
  <2>1. x \in Int /\ y \in Int /\ y # 0
    BY <1>3, <1>11
  <2>2. Fr!Over(f, r).frac = Fr!Frac(x, y)
    BY <1>11 DEF Fr!Over, Fr!Succeeds
  <2> HIDE DEF x, y
  <2>3. Lowest(Fr!Over(f, r).frac, x, y)
    BY <2>1, <2>2, FracExact
  <2>4. QED
    BY <2>3 DEF x, y
<1>12. Reduced(Fr!Over(l, r).frac)
  <2>1. CASE r.num = 0
    <3>1. Fr!Over(l, r).frac = Fr!Default
      BY <2>1 DEF Fr!Over, Fr!Fails
    <3>2. Fr!Default.den = 1 /\ Fr!Abs(1) = 1
      BY DEF Fr!Default, Fr!Abs
    <3>3. QED
      BY <3>1, <3>2 DEF Reduced
  <2>2. CASE r.num # 0
    BY <1>4, <1>11, <2>2 DEF Lowest
  <2>3. QED
    BY <2>1, <2>2
<1>13. ASSUME r.num # 0 PROVE Equals(Fr!Over(Fr!Times(l, r), r).frac, l.num, l.den)
  <2> DEFINE t == Fr!Times(l, r)
             o == Fr!Over(t, r).frac
  <2>1. t.num \in Int /\ t.den \in Int /\ t.den # 0 /\ t.num * dens = prod * t.den
    BY <1>8 DEF Lowest, Equals
  <2> HIDE DEF t
  <2>2. /\ o.num \in Int /\ o.den \in Int
        /\ o.num * (t.den * r.num) = (t.num * r.den) * o.den
    BY <1>11, <1>13, <2>1 DEF Lowest, Equals
  <2> HIDE DEF o
  <2>3. o.num * l.den = l.num * o.den
    <3>1. t.num * (l.den * r.den) = (l.num * r.num) * t.den
      BY <2>1 DEF prod, dens
    <3>2. /\ l.num \in Int /\ l.den \in Int /\ r.num \in Int /\ r.den \in Int
          /\ t.num \in Int /\ t.den \in Int /\ o.num \in Int /\ o.den \in Int
          /\ r.num # 0 /\ t.den # 0
      BY <1>3, <1>4, <1>13, <2>1, <2>2
    <3>3. o.num * (t.den * r.num) = (t.num * r.den) * o.den
      BY <2>2
    <3>4. TimesAndOver(l, r, t, o)
      BY <3>1, <3>2, <3>3 DEF TimesAndOver
    <3>5. QED
      BY <3>4, CrossMultiplied
  <2>4. QED
    BY <2>3 DEF Equals, o, t
<1>14. \A f \in {l, Fr!SetNum(l, n), Fr!Plus(l, r), Fr!Minus(l, r), Fr!Times(l, r),
                  Fr!Over(l, r).frac, Fr!SetDen(l, n).frac} : Reduced(f)
  <2>1. Reduced(Fr!Plus(l, r)) /\ Reduced(Fr!Minus(l, r)) /\ Reduced(Fr!Times(l, r))
    BY <1>8 DEF Lowest
  <2>2. QED
    BY <1>4, <1>9, <1>10, <1>12, <2>1
<1>15. /\ Equals(Fr!Plus(l, r), sum, dens) /\ Equals(Fr!Minus(l, r), diff, dens)
       /\ Equals(Fr!Times(l, r), prod, dens)
  BY <1>8 DEF Lowest
<1>16. l.den > 0 =>
         LET rest == ((Fr!Abs(l.num) % l.den) * 100) \div l.den
         IN  Fr!ToDecimal(l, 2).decimals = Txt!Padded(Txt!ToChars(rest, 10), 2) <=> rest >= 10
  BY <1>4, TwoDecimals
<1>17. QED
  BY <1>4, <1>13, <1>14, <1>15, <1>16 DEF sum, diff, prod, dens, num, den, l, r

(* Every operation of Fraction yields a reduced fraction of the right      *)
(* value, on all operands of either sign; toDecimal is right exactly if    *)
(* its first digit is not zero.                                            *)
THEOREM FractionsAreExact == Spec => []FractionExact
<1>1. QED
  BY OperandsInvariant, OperandsFractions, PTL


-----------------------------------------------------------------------------
(* h is the Horner scheme of the digits s: h[i] is the number of the first *)
(* i of them.                                                              *)
SchemeOf(s, r, h) ==
  /\ h \in [0 .. Len(s) -> Nat] /\ h[0] = 0
  /\ \A i \in 1 .. Len(s) : h[i] = h[i - 1] * r + s[i]
  /\ Txt!NumberOf(s, r) = h[Len(s)]

(* NumberOf is the last value of such a function.                          *)
LEMMA NumberUnfolds ==
  ASSUME NEW r \in Nat, NEW s \in Seq(Nat)
  PROVE  \E h : SchemeOf(s, r, h)
<1> DEFINE len == Len(s)
           step == [p \in Nat \X (1 .. len) |-> p[1] * r + s[p[2]]]
           Eqn(f) == f = [i \in 0 .. len |-> IF i = 0 THEN 0 ELSE f[i - 1] * r + s[i]]
           h == CHOOSE f : Eqn(f)
<1>1. len \in Nat /\ \A i \in 1 .. len : s[i] \in Nat
  OBVIOUS
<1> HIDE DEF len
<1>2. step \in [Nat \X (1 .. len) -> Nat]
  <2>1. ASSUME NEW x \in Nat, NEW i \in 1 .. len PROVE x * r + s[i] \in Nat
    <3>1. s[i] \in Nat /\ x * r \in Nat
      BY <1>1
    <3>2. QED
      BY <3>1
  <2>2. QED
    BY <2>1
<1>3. \E f : Eqn(f)
  <2>1. PICK f \in [0 .. len -> Nat] : Unfolds(f, len, 0, step)
    <3> DEFINE S == Nat
    <3>1. 0 \in S /\ step \in [S \X (1 .. len) -> S] /\ len \in Nat
      BY <1>1, <1>2
    <3> HIDE DEF step, S
    <3>2. \E f \in [0 .. len -> S] : Unfolds(f, len, 0, step)
      BY <3>1, Recursion
    <3>3. QED
      BY <3>2 DEF S
  <2>2. ASSUME NEW i \in 1 .. len PROVE f[i] = f[i - 1] * r + s[i]
    <3>1. f[i] = step[<<f[i - 1], i>>]
      <4> HIDE DEF step
      <4>1. QED
        BY <2>1 DEF Unfolds
    <3>2. f[i - 1] \in Nat
      BY <1>1
    <3>3. QED
      BY <3>1, <3>2
  <2>3. Eqn(f)
    BY <2>1, <2>2 DEF Unfolds
  <2> HIDE DEF Eqn
  <2>4. QED
    BY <2>3
<1>4. Eqn(h)
  <2> HIDE DEF Eqn
  <2>1. QED
    BY <1>3
<1>5. Txt!NumberOf(s, r) = h[len]
  BY DEF Txt!NumberOf, len
<1> HIDE DEF h
<1>6. \A i \in 0 .. len : h[i] = IF i = 0 THEN 0 ELSE h[i - 1] * r + s[i]
  BY <1>4
<1>7. h = [i \in 0 .. len |-> h[i]]
  BY <1>4, <1>6
<1>8. h[0] = 0 /\ \A i \in 1 .. len : h[i] = h[i - 1] * r + s[i]
  BY <1>1, <1>6
<1>9. \A i \in 0 .. len : h[i] \in Nat
  <2> DEFINE T == {i \in 0 .. len : h[i] \in Nat}
  <2>1. 0 \in T
    BY <1>1, <1>8
  <2>2. ASSUME NEW i \in 0 .. len - 1, i \in T PROVE i + 1 \in T
    <3>1. h[i + 1] = h[(i + 1) - 1] * r + s[i + 1] /\ (i + 1) - 1 = i
      BY <1>1, <1>8
    <3>2. s[i + 1] \in Nat /\ h[i] \in Nat /\ h[i] * r \in Nat
      BY <1>1, <2>2
    <3> DEFINE x == h[i] * r
    <3> HIDE DEF x
    <3>3. x + s[i + 1] \in Nat
      BY <3>2 DEF x
    <3>4. QED
      BY <1>1, <3>1, <3>3 DEF x
  <2> HIDE DEF T
  <2>3. \A i \in 0 .. len : i \in T
    BY <1>1, <2>1, <2>2, UpTo
  <2>4. QED
    BY <2>3 DEF T
<1>10. h \in [0 .. len -> Nat]
  BY <1>7, <1>9
<1>11. SchemeOf(s, r, h)
  BY <1>5, <1>8, <1>10 DEF SchemeOf, len
<1>12. QED
  BY <1>11

(* p are the powers of r.                                                  *)
PowersOf(p, r) ==
  p \in [Nat -> Nat] /\ p[0] = 1 /\ \A i \in Nat : p[i + 1] = p[i] * r

(* They exist.                                                             *)
LEMMA PowersExist ==
  ASSUME NEW r \in Nat
  PROVE  \E p : PowersOf(p, r)
<1> DEFINE base == [x \in Nat |-> 1]
           next == [x \in Nat |-> IF x = 0 THEN 0 ELSE x - 1]
           step == [q \in Nat \X Nat |-> q[2] * r]
<1>1. /\ base \in [Nat -> Nat] /\ base[0] = 1
      /\ next \in [Nat -> Nat] /\ \A x \in Nat : next[x + 1] = x
      /\ \A x \in Nat : x >= 1 => next[x] < x
  OBVIOUS
<1>2. step \in [Nat \X Nat -> Nat] /\ \A x, y \in Nat : step[<<x, y>>] = y * r
  <2>1. \A y \in Nat : y * r \in Nat
    OBVIOUS
  <2>2. QED
    BY <2>1
<1> HIDE DEF base, next, step
<1>3. PICK p \in [Nat -> Nat] : Descends(p, Nat, 1, base, next, step)
  BY <1>1, <1>2, Descent
<1>4. p[0] = 1
  <2>1. 0 \in Nat /\ 0 < 1
    OBVIOUS
  <2>2. p[0] = base[0]
    BY <1>3, <2>1 DEF Descends
  <2>3. QED
    BY <1>1, <2>2
<1>5. ASSUME NEW i \in Nat PROVE p[i + 1] = p[i] * r
  <2>1. i + 1 \in Nat /\ ~(i + 1 < 1) /\ p[i] \in Nat
    BY <1>3
  <2>2. p[i + 1] = step[<<i + 1, p[next[i + 1]]>>]
    BY <1>3, <2>1 DEF Descends
  <2>3. QED
    BY <1>1, <1>2, <2>1, <2>2
<1>6. PowersOf(p, r)
  BY <1>3, <1>4, <1>5 DEF PowersOf
<1>7. QED
  BY <1>6

(* One round of the scheme, over what is known of the round before.        *)
LEMMA HornerStep ==
  ASSUME NEW x \in Nat, NEW y \in Nat, NEW z \in Nat, NEW w \in Nat, NEW r \in Nat
  PROVE  (x * y + z) * r + w = x * (y * r) + (z * r + w)
<1>1. (x * y + z) * r = (x * y) * r + z * r
  OBVIOUS
<1>2. (x * y) * r = x * (y * r)
  OBVIOUS
<1>3. QED
  BY <1>1, <1>2

(* t are the digits of s behind the j-th, some or all.                     *)
PartOf(s, j, t) ==
  /\ s \in Seq(Nat) /\ t \in Seq(Nat) /\ j \in Nat /\ j + Len(t) <= Len(s)
  /\ \A i \in 1 .. Len(t) : t[i] = s[j + i]

(* A part of a numeral, and what is before it, times a power.              *)
LEMMA SchemeSplits ==
  ASSUME NEW r \in Nat, NEW s, NEW h, SchemeOf(s, r, h), NEW p, PowersOf(p, r),
         NEW j, NEW t, PartOf(s, j, t)
  PROVE  h[j + Len(t)] = h[j] * p[Len(t)] + Txt!NumberOf(t, r)
<1> DEFINE m == Len(t)
           len == Len(s)
<1>1. /\ len \in Nat /\ j \in Nat /\ m \in Nat /\ j + m <= len /\ j \in 0 .. len
      /\ \A i \in 1 .. len : s[i] \in Nat
  BY DEF PartOf
<1>2. t \in Seq(Nat) /\ \A i \in 1 .. m : t[i] = s[j + i]
  BY DEF PartOf
<1>3. PICK g : SchemeOf(t, r, g)
  BY <1>2, NumberUnfolds
<1>4. /\ g \in [0 .. m -> Nat] /\ g[0] = 0
      /\ \A i \in 1 .. m : g[i] = g[i - 1] * r + s[j + i]
      /\ Txt!NumberOf(t, r) = g[m]
  BY <1>2, <1>3 DEF SchemeOf
<1>5. /\ h \in [0 .. len -> Nat]
      /\ \A i \in 1 .. len : h[i] = h[i - 1] * r + s[i]
  BY DEF SchemeOf
<1>6. p \in [Nat -> Nat] /\ p[0] = 1 /\ \A i \in Nat : p[i + 1] = p[i] * r
  BY DEF PowersOf
<1> HIDE DEF len, m
<1> DEFINE T == {i \in 0 .. m : h[j + i] = h[j] * p[i] + g[i]}
<1>7. 0 \in T
  <2>1. j + 0 = j /\ j \in 0 .. len
    BY <1>1
  <2>2. h[j] \in Nat /\ h[j] * 1 = h[j]
    BY <1>5, <2>1
  <2>3. h[j] + 0 = h[j]
    BY <2>2
  <2>4. h[j + 0] = h[j] * p[0] + g[0]
    BY <1>4, <1>6, <2>1, <2>2, <2>3, Zenon
  <2>5. 0 \in 0 .. m
    BY <1>1
  <2>6. QED
    BY <2>4, <2>5
<1>8. ASSUME NEW i \in 0 .. m - 1, i \in T PROVE i + 1 \in T
  <2>1. j + i + 1 \in 1 .. len /\ i + 1 \in 1 .. len /\ i + 1 \in 1 .. m
        /\ (j + i + 1) - 1 = j + i /\ (i + 1) - 1 = i /\ j + i \in 0 .. len /\ i \in 0 .. len /\ j \in 0 .. len
        /\ i \in 0 .. m /\ i \in Nat
    BY <1>1
  <2>2. h[j + i + 1] = h[j + i] * r + s[j + i + 1]
    BY <1>5, <2>1
  <2>3. g[i + 1] = g[i] * r + s[j + i + 1]
    BY <1>1, <1>4, <2>1
  <2>4. p[i + 1] = p[i] * r
    BY <1>6, <2>1
  <2>5. h[j + i] = h[j] * p[i] + g[i]
    BY <1>8
  <2>6. h[j] \in Nat /\ h[j + i] \in Nat
    BY <1>5, <2>1
  <2>7. p[i] \in Nat /\ g[i] \in Nat
    BY <1>4, <1>6, <2>1
  <2>8. s[j + i + 1] \in Nat
    BY <1>1, <2>1
  <2>9. (h[j] * p[i] + g[i]) * r + s[j + i + 1] = h[j] * (p[i] * r) + (g[i] * r + s[j + i + 1])
    <3> DEFINE x == h[j]
               y == p[i]
               z == g[i]
               w == s[j + i + 1]
    <3>1. x \in Nat /\ y \in Nat /\ z \in Nat /\ w \in Nat
      BY <2>6, <2>7, <2>8
    <3> HIDE DEF x, y, z, w
    <3>2. (x * y + z) * r + w = x * (y * r) + (z * r + w)
      BY <3>1, HornerStep
    <3>3. QED
      BY <3>2 DEF x, y, z, w
  <2>10. h[j + i + 1] = h[j] * p[i + 1] + g[i + 1]
    BY <2>2, <2>3, <2>4, <2>5, <2>9, Zenon
  <2>11. j + i + 1 = j + (i + 1)
    BY <1>1
  <2>12. QED
    BY <2>1, <2>10, <2>11
<1> HIDE DEF T
<1>9. \A i \in 0 .. m : i \in T
  BY <1>1, <1>7, <1>8, UpTo
<1>10. m \in T
  BY <1>1, <1>9
<1>11. h[j + m] = h[j] * p[m] + g[m]
  BY <1>1, <1>10 DEF T
<1>12. QED
  BY <1>4, <1>11 DEF m

(* Numbers are natural, and nothing is zero.                               *)
LEMMA NumberNat ==
  ASSUME NEW r \in Nat, NEW s \in Seq(Nat)
  PROVE  Txt!NumberOf(s, r) \in Nat /\ (s = << >> => Txt!NumberOf(s, r) = 0)
<1>1. PICK h : SchemeOf(s, r, h)
  BY NumberUnfolds
<1>2. Len(s) \in Nat /\ (s = << >> => Len(s) = 0)
  OBVIOUS
<1>3. QED
  BY <1>1, <1>2 DEF SchemeOf

(* The number of two numerals written one after the other.                 *)
LEMMA NumberConcat ==
  ASSUME NEW r \in Nat, NEW s \in Seq(Nat), NEW t \in Seq(Nat), NEW p, PowersOf(p, r)
  PROVE  Txt!NumberOf(s \o t, r) = Txt!NumberOf(s, r) * p[Len(t)] + Txt!NumberOf(t, r)
<1> DEFINE u == s \o t
           k == Len(s)
           m == Len(t)
<1>1. /\ u \in Seq(Nat) /\ Len(u) = k + m /\ k \in Nat /\ m \in Nat
      /\ \A i \in 1 .. k : u[i] = s[i]
      /\ \A i \in 1 .. m : u[k + i] = t[i]
  OBVIOUS
<1>2. PartOf(u, 0, s) /\ PartOf(u, k, t)
  <2>1. 0 + k <= Len(u) /\ k + m <= Len(u) /\ \A i \in 1 .. k : 0 + i = i
    BY <1>1
  <2> HIDE DEF u
  <2>2. QED
    BY <1>1, <2>1 DEF PartOf
<1> HIDE DEF u
<1>3. PICK h : SchemeOf(u, r, h)
  BY <1>1, NumberUnfolds
<1>4. h[0 + k] = h[0] * p[k] + Txt!NumberOf(s, r)
  BY <1>2, <1>3, SchemeSplits
<1>5. h[k + m] = h[k] * p[m] + Txt!NumberOf(t, r)
  BY <1>2, <1>3, SchemeSplits
<1>6. h[0] = 0 /\ Txt!NumberOf(u, r) = h[k + m] /\ 0 + k = k
  BY <1>1, <1>3 DEF SchemeOf
<1> DEFINE x == Txt!NumberOf(s, r)
           y == p[k]
<1>7. x \in Nat /\ y \in Nat
  BY <1>1, NumberNat DEF PowersOf
<1>8. h[k] = 0 * y + x
  BY <1>4, <1>6, Zenon
<1> HIDE DEF x, y
<1>9. 0 * y + x = x
  BY <1>7
<1>10. h[k] = x
  BY <1>8, <1>9
<1>11. QED
  BY <1>5, <1>6, <1>10, Zenon DEF u, m, x

(* Leading zeros add nothing.                                              *)
LEMMA NumberZeros ==
  ASSUME NEW r \in Nat, NEW s \in Seq(Nat), NEW f \in 0 .. Len(s),
         \A i \in 1 .. f : s[i] = 0
  PROVE  Txt!NumberOf(s, r) = Txt!NumberOf(SubSeq(s, f + 1, Len(s)), r)
<1> DEFINE k == Len(s)
<1>1. k \in Nat /\ f \in Nat /\ f <= k
  OBVIOUS
<1>2. PICK h : SchemeOf(s, r, h)
  BY NumberUnfolds
<1>3. PICK p : PowersOf(p, r)
  BY PowersExist
<1> DEFINE t == SubSeq(s, f + 1, Len(s))
<1>4. t \in Seq(Nat) /\ Len(t) = k - f /\ \A i \in 1 .. k - f : t[i] = s[f + i]
  OBVIOUS
<1> HIDE DEF t
<1>5. PartOf(s, f, t) /\ f + Len(t) = k
  BY <1>1, <1>4 DEF PartOf
<1>6. h[f + Len(t)] = h[f] * p[Len(t)] + Txt!NumberOf(t, r)
  BY <1>2, <1>3, <1>5, SchemeSplits
<1>7. /\ h \in [0 .. k -> Nat] /\ h[0] = 0
      /\ \A i \in 1 .. k : h[i] = h[i - 1] * r + s[i]
      /\ Txt!NumberOf(s, r) = h[k]
  BY <1>2 DEF SchemeOf
<1> DEFINE T == {i \in 0 .. f : h[i] = 0}
<1> HIDE DEF k
<1>8. 0 \in T
  BY <1>1, <1>7
<1>9. ASSUME NEW i \in 0 .. f - 1, i \in T PROVE i + 1 \in T
  <2>1. i + 1 \in 1 .. f /\ i + 1 \in 1 .. k /\ (i + 1) - 1 = i /\ i + 1 \in 0 .. f
    BY <1>1
  <2>2. h[i + 1] = h[i] * r + s[i + 1] /\ s[i + 1] = 0 /\ h[i] = 0
    BY <1>7, <1>9, <2>1
  <2>3. 0 * r + 0 = 0
    OBVIOUS
  <2>4. h[i + 1] = 0
    BY <2>2, <2>3
  <2>5. QED
    BY <2>1, <2>4
<1> HIDE DEF T
<1>10. \A i \in 0 .. f : i \in T
  BY <1>1, <1>8, <1>9, UpTo
<1>11. h[f] = 0
  BY <1>1, <1>10 DEF T
<1> DEFINE x == Txt!NumberOf(t, r)
           y == p[Len(t)]
<1>12. x \in Nat /\ y \in Nat
  BY <1>3, <1>4, NumberNat DEF PowersOf
<1>13. h[k] = 0 * y + x
  BY <1>11, <1>5, <1>6, Zenon
<1> HIDE DEF x, y
<1>14. 0 * y + x = x
  BY <1>12
<1>15. h[k] = x
  BY <1>13, <1>14
<1>16. QED
  BY <1>7, <1>15 DEF x, t

(* The number of one digit.                                                *)
LEMMA NumberSingle ==
  ASSUME NEW r \in Nat, NEW x \in Nat
  PROVE  Txt!NumberOf(<<x>>, r) = x
<1> DEFINE s == <<x>>
<1>1. s \in Seq(Nat) /\ Len(s) = 1 /\ s[1] = x
  OBVIOUS
<1> HIDE DEF s
<1>2. PICK h : SchemeOf(s, r, h)
  BY <1>1, NumberUnfolds
<1>3. h[0] = 0 /\ h[1] = h[1 - 1] * r + x /\ Txt!NumberOf(s, r) = h[1]
  BY <1>1, <1>2 DEF SchemeOf
<1>4. 0 * r + x = x
  OBVIOUS
<1>5. QED
  BY <1>3, <1>4 DEF s

-----------------------------------------------------------------------------
(* The greatest of a set, by what it is.                                   *)
LEMMA TextMaxIs ==
  ASSUME NEW S, S \subseteq Int, NEW m \in S, \A y \in S : y <= m
  PROVE  Txt!Max(S) = m
<1> DEFINE P(x) == x \in S /\ \A y \in S : x >= y
<1>1. Txt!Max(S) = CHOOSE x : P(x)
  BY DEF Txt!Max
<1>2. P(m)
  OBVIOUS
<1>3. \A x : P(x) => x = m
  OBVIOUS
<1> HIDE DEF P
<1>4. QED
  BY <1>1, <1>2, <1>3

(* The radices of the tables are powers: c digits count to R.              *)
CountsTo(radix, c, R) ==
  c \in Nat /\ c >= 1 /\ R \in Nat /\ \A p : PowersOf(p, radix) => p[c] = R

(* The powers the tables list.                                             *)
LEMMA ListedPowers ==
  ASSUME NEW p, NEW r \in 2 .. 4, PowersOf(p, r)
  PROVE  /\ r = 2 => p[3] = 8 /\ p[8] = 256
         /\ r = 3 => p[2] = 9 /\ p[5] = 243
         /\ r = 4 => p[1] = 4 /\ p[4] = 256
<1>1. p[0] = 1 /\ \A i \in Nat : p[i + 1] = p[i] * r
  BY DEF PowersOf
<1>2. p[1] = p[0] * r /\ p[2] = p[1] * r /\ p[3] = p[2] * r /\ p[4] = p[3] * r
  <2>1. p[0 + 1] = p[0] * r /\ p[1 + 1] = p[1] * r /\ p[2 + 1] = p[2] * r /\ p[3 + 1] = p[3] * r
    BY <1>1
  <2>2. QED
    BY <2>1
<1>3. p[5] = p[4] * r /\ p[6] = p[5] * r /\ p[7] = p[6] * r /\ p[8] = p[7] * r
  <2>1. p[4 + 1] = p[4] * r /\ p[5 + 1] = p[5] * r /\ p[6 + 1] = p[6] * r /\ p[7 + 1] = p[7] * r
    BY <1>1
  <2>2. QED
    BY <2>1
<1>4. CASE r = 2
  BY <1>1, <1>2, <1>3, <1>4
<1>5. CASE r = 3
  BY <1>1, <1>2, <1>3, <1>5
<1>6. CASE r = 4
  BY <1>1, <1>2, <1>3, <1>6
<1>7. QED
  BY <1>4, <1>5, <1>6

(* What the table of 32-bit blocks holds, here for words of five bits.     *)
LEMMA TableU32 ==
  ASSUME NEW radix \in 2 .. 4
  PROVE  CountsTo(radix, Txt!GetDigitCountPerU32(radix), Txt!GetU32BlockRadix(radix))
<1> DEFINE pow(r, k) == r ^ k
           S(r) == {k \in 1 .. 5 : pow(r, k) < pow(2, 5 - 1)}
           count == Txt!GetDigitCountPerU32(radix)
           value == Txt!GetU32BlockRadix(radix)
<1>1. count = Txt!Max(S(radix)) /\ value = pow(radix, count)
  BY DEF Txt!GetDigitCountPerU32, Txt!DigitsIn, Txt!GetU32BlockRadix
<1>2. pow(2, 1) = 2 /\ pow(2, 2) = 4 /\ pow(2, 3) = 8 /\ pow(2, 4) = 16 /\ pow(2, 5) = 32
  OBVIOUS
<1>3. pow(3, 1) = 3 /\ pow(3, 2) = 9 /\ pow(3, 3) = 27 /\ pow(3, 4) = 81 /\ pow(3, 5) = 243
  OBVIOUS
<1>4. pow(4, 1) = 4 /\ pow(4, 2) = 16 /\ pow(4, 3) = 64 /\ pow(4, 4) = 256 /\ pow(4, 5) = 1024
  OBVIOUS
<1> HIDE DEF pow, count, value
<1>5. \A k \in 1 .. 5 : k = 1 \/ k = 2 \/ k = 3 \/ k = 4 \/ k = 5
  OBVIOUS
<1>6. pow(2, 5 - 1) = 16
  BY <1>2
<1>7. S(2) = 1 .. 3
  <2>1. \A k \in 1 .. 5 : pow(2, k) < 16 <=> k <= 3
    BY <1>2, <1>5
  <2>2. QED
    BY <1>6, <2>1
<1>8. S(3) = 1 .. 2
  <2>1. \A k \in 1 .. 5 : pow(3, k) < 16 <=> k <= 2
    BY <1>3, <1>5
  <2>2. QED
    BY <1>6, <2>1
<1>9. S(4) = 1 .. 1
  <2>1. \A k \in 1 .. 5 : pow(4, k) < 16 <=> k <= 1
    BY <1>4, <1>5
  <2>2. QED
    BY <1>6, <2>1
<1> HIDE DEF S
<1>10. ASSUME NEW m \in Nat, m >= 1 PROVE Txt!Max(1 .. m) = m
  <2>1. 1 .. m \subseteq Int /\ m \in 1 .. m /\ \A y \in 1 .. m : y <= m
    BY <1>10
  <2>2. QED
    BY <2>1, TextMaxIs
<1>11. CASE radix = 2
  <2>1. Txt!Max(1 .. 3) = 3
    <3>1. 3 \in Nat /\ 3 >= 1
      OBVIOUS
    <3>2. QED
      BY <1>10, <3>1, Zenon
  <2>2. count = 3
    BY <1>1, <1>7, <1>11, <2>1, Zenon
  <2>3. value = 8
    BY <1>1, <1>2, <1>11, <2>2, Zenon
  <2>4. \A p : PowersOf(p, radix) => p[3] = 8
    BY <1>11, ListedPowers
  <2>5. QED
    BY <2>2, <2>3, <2>4 DEF CountsTo, count, value
<1>12. CASE radix = 3
  <2>1. Txt!Max(1 .. 2) = 2
    <3>1. 2 \in Nat /\ 2 >= 1
      OBVIOUS
    <3>2. QED
      BY <1>10, <3>1, Zenon
  <2>2. count = 2
    BY <1>1, <1>8, <1>12, <2>1, Zenon
  <2>3. value = 9
    BY <1>1, <1>3, <1>12, <2>2, Zenon
  <2>4. \A p : PowersOf(p, radix) => p[2] = 9
    BY <1>12, ListedPowers
  <2>5. QED
    BY <2>2, <2>3, <2>4 DEF CountsTo, count, value
<1>13. CASE radix = 4
  <2>1. Txt!Max(1 .. 1) = 1
    <3>1. 1 \in Nat /\ 1 >= 1
      OBVIOUS
    <3>2. QED
      BY <1>10, <3>1, Zenon
  <2>2. count = 1
    BY <1>1, <1>9, <1>13, <2>1, Zenon
  <2>3. value = 4
    BY <1>1, <1>4, <1>13, <2>2, Zenon
  <2>4. \A p : PowersOf(p, radix) => p[1] = 4
    BY <1>13, ListedPowers
  <2>5. QED
    BY <2>2, <2>3, <2>4 DEF CountsTo, count, value
<1>14. QED
  BY <1>11, <1>12, <1>13

(* And the one of 64-bit blocks.                                           *)
LEMMA TableU64 ==
  ASSUME NEW radix \in 2 .. 4
  PROVE  CountsTo(radix, Txt!GetDigitCountPerU64(radix), Txt!GetU64BlockRadix(radix))
<1> DEFINE pow(r, k) == r ^ k
           S(r) == {k \in 1 .. 10 : pow(r, k) < pow(2, 10 - 1)}
           count == Txt!GetDigitCountPerU64(radix)
           value == Txt!GetU64BlockRadix(radix)
<1>1. count = Txt!Max(S(radix)) /\ value = pow(radix, count)
  <2>1. 2 * 5 = 10
    OBVIOUS
  <2>2. QED
    BY <2>1 DEF Txt!GetDigitCountPerU64, Txt!DigitsIn, Txt!GetU64BlockRadix
<1>2. /\ pow(2, 1) = 2 /\ pow(2, 2) = 4 /\ pow(2, 3) = 8 /\ pow(2, 4) = 16 /\ pow(2, 5) = 32
      /\ pow(2, 6) = 64 /\ pow(2, 7) = 128 /\ pow(2, 8) = 256 /\ pow(2, 9) = 512 /\ pow(2, 10) = 1024
  OBVIOUS
<1>3. /\ pow(3, 1) = 3 /\ pow(3, 2) = 9 /\ pow(3, 3) = 27 /\ pow(3, 4) = 81 /\ pow(3, 5) = 243
      /\ pow(3, 6) = 729 /\ pow(3, 7) = 2187 /\ pow(3, 8) = 6561 /\ pow(3, 9) = 19683 /\ pow(3, 10) = 59049
  OBVIOUS
<1>4. /\ pow(4, 1) = 4 /\ pow(4, 2) = 16 /\ pow(4, 3) = 64 /\ pow(4, 4) = 256 /\ pow(4, 5) = 1024
      /\ pow(4, 6) = 4096 /\ pow(4, 7) = 16384 /\ pow(4, 8) = 65536 /\ pow(4, 9) = 262144 /\ pow(4, 10) = 1048576
  OBVIOUS
<1> HIDE DEF pow, count, value
<1>5. \A k \in 1 .. 10 : \/ k = 1 \/ k = 2 \/ k = 3 \/ k = 4 \/ k = 5
                         \/ k = 6 \/ k = 7 \/ k = 8 \/ k = 9 \/ k = 10
  OBVIOUS
<1>6. pow(2, 10 - 1) = 512
  BY <1>2
<1>7. S(2) = 1 .. 8
  <2>1. \A k \in 1 .. 10 : pow(2, k) < 512 <=> k <= 8
    BY <1>2, <1>5
  <2>2. QED
    BY <1>6, <2>1
<1>8. S(3) = 1 .. 5
  <2>1. \A k \in 1 .. 10 : pow(3, k) < 512 <=> k <= 5
    BY <1>3, <1>5
  <2>2. QED
    BY <1>6, <2>1
<1>9. S(4) = 1 .. 4
  <2>1. \A k \in 1 .. 10 : pow(4, k) < 512 <=> k <= 4
    BY <1>4, <1>5
  <2>2. QED
    BY <1>6, <2>1
<1> HIDE DEF S
<1>10. ASSUME NEW m \in Nat, m >= 1 PROVE Txt!Max(1 .. m) = m
  <2>1. 1 .. m \subseteq Int /\ m \in 1 .. m /\ \A y \in 1 .. m : y <= m
    BY <1>10
  <2>2. QED
    BY <2>1, TextMaxIs
<1>11. CASE radix = 2
  <2>1. Txt!Max(1 .. 8) = 8
    <3>1. 8 \in Nat /\ 8 >= 1
      OBVIOUS
    <3>2. QED
      BY <1>10, <3>1, Zenon
  <2>2. count = 8
    BY <1>1, <1>7, <1>11, <2>1, Zenon
  <2>3. value = 256
    BY <1>1, <1>2, <1>11, <2>2
  <2>4. \A p : PowersOf(p, radix) => p[8] = 256
    BY <1>11, ListedPowers
  <2>5. QED
    BY <2>2, <2>3, <2>4 DEF CountsTo, count, value
<1>12. CASE radix = 3
  <2>1. Txt!Max(1 .. 5) = 5
    <3>1. 5 \in Nat /\ 5 >= 1
      OBVIOUS
    <3>2. QED
      BY <1>10, <3>1, Zenon
  <2>2. count = 5
    BY <1>1, <1>8, <1>12, <2>1, Zenon
  <2>3. value = 243
    BY <1>1, <1>3, <1>12, <2>2
  <2>4. \A p : PowersOf(p, radix) => p[5] = 243
    BY <1>12, ListedPowers
  <2>5. QED
    BY <2>2, <2>3, <2>4 DEF CountsTo, count, value
<1>13. CASE radix = 4
  <2>1. Txt!Max(1 .. 4) = 4
    <3>1. 4 \in Nat /\ 4 >= 1
      OBVIOUS
    <3>2. QED
      BY <1>10, <3>1, Zenon
  <2>2. count = 4
    BY <1>1, <1>9, <1>13, <2>1, Zenon
  <2>3. value = 256
    BY <1>1, <1>4, <1>13, <2>2
  <2>4. \A p : PowersOf(p, radix) => p[4] = 256
    BY <1>13, ListedPowers
  <2>5. QED
    BY <2>2, <2>3, <2>4 DEF CountsTo, count, value
<1>14. QED
  BY <1>11, <1>12, <1>13

-----------------------------------------------------------------------------
(* from_chars converts the whole of a string of digits, and of no other.   *)
LEMMA DigitPrefixWhole ==
  ASSUME NEW radix \in Nat, NEW s \in Seq(Nat)
  PROVE  Txt!DigitPrefix(s, radix) = s <=> \A i \in 1 .. Len(s) : s[i] \in 0 .. radix - 1
<1> DEFINE S == {k \in 0 .. Len(s) : \A i \in 1 .. k : s[i] \in 0 .. radix - 1}
           len == Len(s)
           m == Txt!Max(S)
<1>1. len \in Nat /\ S \subseteq 0 .. len /\ 0 \in S
  OBVIOUS
<1>2. m \in S /\ \A y \in S : y <= m
  <2>1. Max(S) \in S /\ \A y \in S : y <= Max(S)
    <3> HIDE DEF S, len
    <3>1. S # {}
      BY <1>1
    <3>2. QED
      BY <1>1, <3>1, MaxProperties
  <2>2. m = Max(S)
    BY DEF Max, Txt!Max
  <2> HIDE DEF m, S
  <2>3. QED
    BY <2>1, <2>2
<1>3. Txt!DigitPrefix(s, radix) = SubSeq(s, 1, m)
  BY DEF Txt!DigitPrefix
<1> HIDE DEF m
<1>4. m \in 0 .. len /\ \A i \in 1 .. m : s[i] \in 0 .. radix - 1
  BY <1>2
<1>5. SubSeq(s, 1, len) = s /\ Len(SubSeq(s, 1, m)) = m
  BY <1>4
<1>6. ASSUME \A i \in 1 .. len : s[i] \in 0 .. radix - 1 PROVE SubSeq(s, 1, m) = s
  <2>1. len \in S
    BY <1>1, <1>6
  <2>2. m = len
    BY <1>1, <1>2, <1>4, <2>1
  <2>3. QED
    BY <1>5, <2>2
<1>7. ASSUME SubSeq(s, 1, m) = s PROVE m = len
  BY <1>5, <1>7
<1>8. QED
  BY <1>3, <1>4, <1>6, <1>7

(* e are the places where s is cut into blocks of c characters.            *)
CutAt(s, c, e, k) ==
  /\ k \in Nat /\ DOMAIN Txt!Blocks(s, c) = 1 .. k
  /\ e \in [0 .. k -> 0 .. Len(s)] /\ e[0] = 0 /\ e[k] = Len(s)
  /\ \A i \in 1 .. k : /\ e[i - 1] < e[i]
                       /\ i > 1 => e[i] - e[i - 1] = c
                       /\ Txt!Blocks(s, c)[i] = SubSeq(s, e[i - 1] + 1, e[i])

(* The blocks cover the string, none is empty, and all but the first are   *)
(* whole.                                                                  *)
LEMMA BlocksCover ==
  ASSUME NEW s \in Seq(Nat), NEW c \in Nat, c >= 1
  PROVE  \E e, k : CutAt(s, c, e, k)
<1> DEFINE len == Len(s)
           k == (len + c - 1) \div c
           rest(i) == (k - i) * c
           e == [i \in 0 .. k |-> IF i = 0 THEN 0 ELSE len - rest(i)]
<1>1. len \in Nat /\ Txt!Blocks(s, c) =
        [i \in 1 .. k |-> SubSeq(s, Txt!Max({0, len - (k - i + 1) * c}) + 1, len - rest(i))]
  BY DEF Txt!Blocks
<1> HIDE DEF len
<1>2. k \in Nat /\ k * c >= len /\ k * c <= len + c - 1
  <2> DEFINE x == len + c - 1
             r == x % c
  <2>1. x \in Nat
    BY <1>1
  <2> HIDE DEF x
  <2>2. x \div c \in Int /\ r \in Int /\ 0 <= r /\ r < c /\ x = c * (x \div c) + r
    BY <2>1
  <2>3. k = x \div c
    BY DEF x
  <2> HIDE DEF r, k
  <2> DEFINE m == c * k
  <2>4. x = m + r /\ m \in Int
    BY <2>2, <2>3
  <2>5. m = k * c
    BY <2>2, <2>3
  <2> HIDE DEF m
  <2>6. m >= len /\ m <= len + c - 1
    BY <1>1, <2>2, <2>4 DEF x
  <2>7. k >= 0
    BY <1>1, <2>2, <2>3, <2>5, <2>6
  <2>8. QED
    BY <2>2, <2>3, <2>5, <2>6, <2>7
<1> HIDE DEF k
<1>3. ASSUME NEW i \in 1 .. k
      PROVE  /\ rest(i) \in Nat /\ (k - i + 1) * c = rest(i) + c /\ rest(i - 1) = rest(i) + c
             /\ rest(i) < len
  <2>1. k - i \in Nat
    BY <1>2
  <2> DEFINE x == k - i
  <2>2. k - (i - 1) = x + 1 /\ k - i + 1 = x + 1 /\ k = x + i
    BY <1>2
  <2> HIDE DEF x
  <2>3. x \in Nat /\ (x + 1) * c = x * c + c /\ x * c \in Nat
    BY <2>1 DEF x
  <2>4. (x + i) * c = x * c + i * c /\ i * c >= c
    <3>1. (x + i) * c = x * c + i * c
      BY <2>3
    <3>2. i * c >= 1 * c
      OBVIOUS
    <3>3. QED
      BY <3>1, <3>2
  <2>5. x * c < len
    <3> DEFINE y == x * c
               z == i * c
    <3>1. y \in Int /\ z \in Int /\ k * c = y + z /\ z >= c
      BY <2>2, <2>3, <2>4
    <3> HIDE DEF y, z
    <3> DEFINE u == k * c
    <3>2. u = y + z /\ u <= len + c - 1
      BY <1>2, <3>1
    <3> HIDE DEF u
    <3>3. y < len
      BY <1>1, <3>1, <3>2
    <3>4. QED
      BY <3>3 DEF y
  <2>6. QED
    BY <2>2, <2>3, <2>5 DEF x
<1>4. k > 0 => rest(1) + c >= len
  <2>1. ASSUME k > 0 PROVE (k - 1) * c + c = k * c
    BY <1>2, <2>1
  <2>2. QED
    BY <1>2, <2>1
<1>5. rest(k) = 0 /\ (k = 0 => len = 0)
  BY <1>1, <1>2
<1> HIDE DEF rest
<1>6. e \in [0 .. k -> 0 .. len] /\ e[0] = 0
  <2>1. ASSUME NEW i \in 0 .. k PROVE (IF i = 0 THEN 0 ELSE len - rest(i)) \in 0 .. len
    <3>1. CASE i = 0
      BY <1>1, <3>1
    <3>2. CASE i # 0
      <4>1. i \in 1 .. k
        BY <1>2, <3>2
      <4>2. rest(i) \in Nat /\ rest(i) < len
        BY <1>3, <4>1
      <4>3. QED
        BY <1>1, <3>2, <4>2
    <3>3. QED
      BY <3>1, <3>2
  <2>2. QED
    BY <1>2, <2>1
<1>7. \A i \in 0 .. k : i >= 1 => e[i] = len - rest(i)
  BY <1>2
<1>8. e[k] = len
  BY <1>1, <1>2, <1>5, <1>6, <1>7
<1> HIDE DEF e
<1>9. ASSUME NEW i \in 1 .. k
      PROVE  /\ e[i - 1] < e[i] /\ (i > 1 => e[i] - e[i - 1] = c)
             /\ Txt!Blocks(s, c)[i] = SubSeq(s, e[i - 1] + 1, e[i])
  <2> DEFINE low == len - (rest(i) + c)
  <2>1. e[i] = len - rest(i) /\ rest(i) \in Nat /\ rest(i) < len
    BY <1>2, <1>3, <1>7
  <2>2. low \in Int
    BY <1>1, <2>1
  <2>3. Txt!Blocks(s, c)[i] = SubSeq(s, Txt!Max({0, low}) + 1, e[i])
    BY <1>1, <1>3, <2>1
  <2>4. e[i - 1] = Txt!Max({0, low}) /\ e[i - 1] < e[i] /\ (i > 1 => e[i] - e[i - 1] = c)
    <3>1. CASE i = 1
      <4>1. e[i - 1] = 0 /\ low <= 0
        BY <1>1, <1>2, <1>4, <1>6, <2>1, <3>1
      <4>2. Txt!Max({0, low}) = 0
        <5> DEFINE S == {0, low}
        <5>1. S \subseteq Int /\ 0 \in S /\ \A y \in S : y <= 0
          BY <2>2, <4>1
        <5> HIDE DEF S
        <5>2. Txt!Max(S) = 0
          BY <5>1, TextMaxIs
        <5>3. QED
          BY <5>2 DEF S
      <4>3. QED
        BY <1>1, <2>1, <3>1, <4>1, <4>2
    <3>2. CASE i > 1
      <4>1. i - 1 \in 0 .. k /\ i - 1 >= 1 /\ i - 1 \in 1 .. k
        BY <1>2, <3>2
      <4>2. e[i - 1] = low
        BY <1>3, <1>7, <4>1
      <4>3. e[i - 1] >= 0
        BY <1>6, <4>1
      <4>4. Txt!Max({0, low}) = low
        <5> DEFINE S == {0, low}
        <5>1. S \subseteq Int /\ low \in S /\ \A y \in S : y <= low
          BY <2>2, <4>2, <4>3
        <5> HIDE DEF S
        <5>2. Txt!Max(S) = low
          BY <5>1, TextMaxIs
        <5>3. QED
          BY <5>2 DEF S
      <4>5. QED
        BY <1>1, <2>1, <4>2, <4>4
    <3>3. QED
      BY <1>2, <3>1, <3>2
  <2>5. QED
    BY <2>3, <2>4
<1>10. CutAt(s, c, e, k)
  BY <1>1, <1>2, <1>6, <1>8, <1>9 DEF CutAt, len
<1>11. QED
  BY <1>10

(* A block of digits is converted without an error, to its number.         *)
LEMMA BlockConverts ==
  ASSUME NEW radix \in 2 .. 4, NEW t \in Seq(Nat), Len(t) > 0,
         \A i \in 1 .. Len(t) : t[i] \in 0 .. radix - 1
  PROVE  /\ Txt!FromChars(t, radix).ok
         /\ Txt!FromChars(t, radix).value = Txt!NumberOf(t, radix)
<1>1. Txt!DigitPrefix(t, radix) = t /\ t # << >>
  BY DigitPrefixWhole
<1>2. (t # << >>) = TRUE
  BY <1>1
<1>3. Txt!FromChars(t, radix) = [ok |-> TRUE, value |-> Txt!NumberOf(t, radix)]
  BY <1>1, <1>2, Zenon DEF Txt!FromChars
<1>4. QED
  BY <1>3

(* The blocks together have the number of the whole.                       *)
LEMMA AssembledExact ==
  ASSUME NEW radix \in 2 .. 4, NEW s \in Seq(Nat),
         \A i \in 1 .. Len(s) : s[i] \in 0 .. radix - 1
  PROVE  /\ \A i \in DOMAIN Txt!Converted(s, radix) : Txt!Converted(s, radix)[i].ok
         /\ Txt!Assembled(s, radix) = Txt!NumberOf(s, radix)
<1> DEFINE c == Txt!GetDigitCountPerU32(radix)
           R == Txt!GetU32BlockRadix(radix)
           conv == Txt!Converted(s, radix)
           w == [i \in DOMAIN conv |-> conv[i].value]
           block(i) == Txt!Blocks(s, c)[i]
           len == Len(s)
<1>1. c \in Nat /\ c >= 1 /\ R \in Nat /\ \A p : PowersOf(p, radix) => p[c] = R
  BY TableU32 DEF CountsTo
<1>2. conv = [i \in DOMAIN Txt!Blocks(s, c) |-> Txt!FromChars(block(i), radix)]
  BY DEF Txt!Converted
<1>3. Txt!Assembled(s, radix) = Txt!NumberOf(w, R)
  BY DEF Txt!Assembled
<1> HIDE DEF c, R, conv
<1>4. PICK e, k : CutAt(s, c, e, k)
  BY <1>1, BlocksCover
<1>5. /\ k \in Nat /\ DOMAIN Txt!Blocks(s, c) = 1 .. k
      /\ e \in [0 .. k -> 0 .. len] /\ e[0] = 0 /\ e[k] = len
      /\ \A i \in 1 .. k : /\ e[i - 1] < e[i]
                           /\ i > 1 => e[i] - e[i - 1] = c
                           /\ block(i) = SubSeq(s, e[i - 1] + 1, e[i])
  BY <1>4 DEF CutAt
<1> HIDE DEF block
<1>6. ASSUME NEW i \in 1 .. k
      PROVE  /\ block(i) \in Seq(Nat) /\ Len(block(i)) = e[i] - e[i - 1] /\ Len(block(i)) > 0
             /\ \A j \in 1 .. Len(block(i)) : /\ block(i)[j] = s[e[i - 1] + j]
                                              /\ block(i)[j] \in 0 .. radix - 1
             /\ PartOf(s, e[i - 1], block(i))
  <2> DEFINE from == e[i - 1]
             to == e[i]
             t == block(i)
  <2>1. from \in 0 .. len /\ to \in 0 .. len /\ from < to /\ t = SubSeq(s, from + 1, to)
    <3>1. i - 1 \in 0 .. k /\ i \in 0 .. k
      BY <1>5
    <3>2. from \in 0 .. len /\ to \in 0 .. len
      BY <1>5, <3>1
    <3>3. QED
      BY <1>5, <3>2
  <2> HIDE DEF from, to, t
  <2>2. /\ t \in Seq(Nat) /\ Len(t) = to - from
        /\ \A j \in 1 .. to - from : t[j] = s[from + j]
    BY <2>1
  <2>3. \A j \in 1 .. to - from : from + j \in 1 .. len
    BY <2>1
  <2>4. \A j \in 1 .. to - from : t[j] \in 0 .. radix - 1
    BY <2>2, <2>3
  <2>5. PartOf(s, from, t)
    BY <2>1, <2>2 DEF PartOf
  <2>6. to - from > 0
    BY <2>1
  <2>7. QED
    BY <2>2, <2>4, <2>5, <2>6 DEF from, to, t
<1>7. ASSUME NEW i \in 1 .. k
      PROVE  conv[i].ok /\ conv[i].value = Txt!NumberOf(block(i), radix)
  <2>1. conv[i] = Txt!FromChars(block(i), radix)
    BY <1>2, <1>5
  <2>2. QED
    BY <1>6, <2>1, BlockConverts
<1>8. DOMAIN conv = 1 .. k
  BY <1>2, <1>5
<1>9. /\ w \in Seq(Nat) /\ Len(w) = k
      /\ \A i \in 1 .. k : w[i] = Txt!NumberOf(block(i), radix)
  <2>1. w = [i \in 1 .. k |-> conv[i].value]
    BY <1>8
  <2>2. ASSUME NEW i \in 1 .. k PROVE conv[i].value \in Nat
    <3>1. Txt!NumberOf(block(i), radix) \in Nat
      <4>1. block(i) \in Seq(Nat) /\ radix \in Nat
        BY <1>6
      <4>2. QED
        BY <4>1, NumberNat
    <3>2. QED
      BY <1>7, <3>1
  <2>3. w \in [1 .. k -> Nat] /\ \A i \in 1 .. k : w[i] = conv[i].value
    BY <2>1, <2>2
  <2> HIDE DEF w
  <2>4. w \in Seq(Nat) /\ Len(w) = k
    <3>1. w \in Seq(Nat)
      BY <1>5, <2>3, SeqDef
    <3>2. DOMAIN w = 1 .. k
      BY <2>3
    <3>3. QED
      BY <1>5, <3>1, <3>2, LenProperties
  <2>5. QED
    BY <1>7, <2>3, <2>4
<1> HIDE DEF w
<1>10. PICK h : SchemeOf(s, radix, h)
  BY NumberUnfolds
<1>11. PICK g : SchemeOf(w, R, g)
  BY <1>1, <1>9, NumberUnfolds
<1>12. PICK p : PowersOf(p, radix)
  BY PowersExist
<1>13. h[0] = 0 /\ h[len] = Txt!NumberOf(s, radix) /\ h \in [0 .. len -> Nat]
  BY <1>10 DEF SchemeOf
<1>14. /\ g[0] = 0 /\ g[k] = Txt!NumberOf(w, R)
       /\ \A i \in 1 .. k : g[i] = g[i - 1] * R + w[i]
  BY <1>9, <1>11 DEF SchemeOf
<1> DEFINE T == {i \in 0 .. k : g[i] = h[e[i]]}
<1>15. 0 \in T
  BY <1>5, <1>13, <1>14
<1>16. ASSUME NEW i \in 0 .. k - 1, i \in T PROVE i + 1 \in T
  <2>1. i + 1 \in 1 .. k /\ (i + 1) - 1 = i /\ i + 1 \in 0 .. k /\ i \in 0 .. k
    BY <1>5
  <2> DEFINE t == block(i + 1)
             m == Len(t)
  <2>2. PartOf(s, e[i], t) /\ m = e[i + 1] - e[i] /\ e[i] + m = e[i + 1] /\ m \in Nat
    <3>1. PartOf(s, e[i], t) /\ m = e[i + 1] - e[i]
      BY <1>6, <2>1
    <3>2. e[i] \in Nat /\ e[i + 1] \in Nat /\ e[i] < e[i + 1]
      BY <1>5, <2>1
    <3> HIDE DEF m
    <3>3. QED
      BY <3>1, <3>2
  <2>3. h[e[i] + m] = h[e[i]] * p[m] + Txt!NumberOf(t, radix)
    BY <1>10, <1>12, <2>2, SchemeSplits
  <2>4. w[i + 1] = Txt!NumberOf(t, radix)
    BY <1>9, <2>1
  <2>5. g[i + 1] = g[i] * R + w[i + 1] /\ g[i] = h[e[i]]
    BY <1>14, <1>16, <2>1
  <2> HIDE DEF m
  <2>6. g[i] * p[m] = g[i] * R
    <3>1. CASE i = 0
      <4>1. g[i] = 0 /\ p[m] \in Nat
        BY <1>12, <1>14, <2>2, <3>1 DEF PowersOf
      <4>2. 0 * p[m] = 0 /\ 0 * R = 0
        BY <1>1, <4>1
      <4>3. QED
        BY <4>1, <4>2
    <3>2. CASE i > 0
      <4>1. m = c
        BY <1>5, <2>1, <2>2, <3>2
      <4>2. p[m] = R
        BY <1>1, <1>12, <4>1
      <4>3. QED
        BY <4>2
    <3>3. QED
      BY <2>1, <3>1, <3>2
  <2>7. g[i + 1] = h[e[i + 1]]
    BY <2>2, <2>3, <2>4, <2>5, <2>6, Zenon
  <2>8. QED
    BY <2>1, <2>7
<1> HIDE DEF T
<1>17. \A i \in 0 .. k : i \in T
  BY <1>5, <1>15, <1>16, UpTo
<1>18. g[k] = h[len]
  <2>1. k \in T
    BY <1>5, <1>17
  <2>2. QED
    BY <1>5, <2>1 DEF T
<1>19. \A i \in DOMAIN conv : conv[i].ok
  BY <1>7, <1>8
<1>20. Txt!Assembled(s, radix) = Txt!NumberOf(s, radix)
  BY <1>3, <1>13, <1>14, <1>18
<1>21. QED
  BY <1>19, <1>20 DEF conv

(* What is left of a string without its leading zeros.                     *)
LEMMA SignificantExact ==
  ASSUME NEW radix \in 2 .. 4, NEW s \in Seq(Nat),
         \A i \in 1 .. Len(s) : s[i] \in 0 .. radix - 1
  PROVE  LET t == Txt!Significant(s)
         IN  /\ t \in Seq(Nat) /\ \A i \in 1 .. Len(t) : t[i] \in 0 .. radix - 1
             /\ Txt!NumberOf(t, radix) = Txt!NumberOf(s, radix)
             /\ s # << >> /\ s[1] # 0 => t = s
<1> DEFINE len == Len(s)
           S == {len + 1} \cup {i \in DOMAIN s : s[i] # 0}
           f == Txt!Min(S)
           t == Txt!Significant(s)
<1>1. len \in Nat /\ DOMAIN s = 1 .. len /\ S \subseteq 0 .. len + 1 /\ len + 1 \in S
  OBVIOUS
<1>2. f \in S /\ \A y \in S : f <= y
  <2>1. Min(S) \in S /\ \A y \in S : Min(S) <= y
    <3> HIDE DEF S, len
    <3>1. S # {} /\ len + 1 \in Nat
      BY <1>1
    <3>2. QED
      BY <1>1, <3>1, MinProperties
  <2>2. f = Min(S)
    BY DEF Min, Txt!Min
  <2> HIDE DEF f, S
  <2>3. QED
    BY <2>1, <2>2
<1>3. t = SubSeq(s, f, len)
  BY DEF Txt!Significant
<1> HIDE DEF f, t
<1>4. f \in 1 .. len + 1 /\ \A i \in 1 .. f - 1 : s[i] = 0
  <2>1. f \in 1 .. len + 1
    BY <1>1, <1>2
  <2>2. ASSUME NEW i \in 1 .. f - 1 PROVE s[i] = 0
    <3>1. i \in 1 .. len /\ ~(f <= i)
      BY <1>1, <2>1
    <3>2. i \notin S
      BY <1>2, <3>1
    <3>3. QED
      BY <1>1, <3>1, <3>2
  <2>3. QED
    BY <2>1, <2>2
<1>5. t \in Seq(Nat) /\ Len(t) = len - f + 1 /\ \A i \in 1 .. len - f + 1 : t[i] = s[f + i - 1]
  BY <1>1, <1>3, <1>4
<1>6. \A i \in 1 .. Len(t) : t[i] \in 0 .. radix - 1
  <2>1. \A i \in 1 .. len - f + 1 : f + i - 1 \in 1 .. len
    BY <1>1, <1>4
  <2>2. QED
    BY <1>5, <2>1
<1>7. Txt!NumberOf(t, radix) = Txt!NumberOf(s, radix)
  <2>1. f - 1 \in 0 .. len /\ (f - 1) + 1 = f
    BY <1>1, <1>4
  <2>2. radix \in Nat
    OBVIOUS
  <2>3. Txt!NumberOf(s, radix) = Txt!NumberOf(SubSeq(s, (f - 1) + 1, Len(s)), radix)
    BY <1>4, <2>1, <2>2, NumberZeros
  <2>4. QED
    BY <1>3, <2>1, <2>3
<1>8. ASSUME s # << >>, s[1] # 0 PROVE t = s
  <2>1. 1 \in S
    BY <1>8
  <2>2. f = 1
    BY <1>1, <1>2, <1>4, <2>1
  <2>3. QED
    BY <1>3, <2>2
<1>9. QED
  BY <1>5, <1>6, <1>7, <1>8 DEF t

(* The last place of a character, none if there is none.                   *)
LEMMA LastOf ==
  ASSUME NEW s \in Seq(Int), NEW c \in Int
  PROVE  /\ Txt!FindLastOf(s, c) \in 0 .. Len(s)
         /\ \A i \in 1 .. Len(s) : s[i] = c => i <= Txt!FindLastOf(s, c)
         /\ Txt!FindLastOf(s, c) # 0 => s[Txt!FindLastOf(s, c)] = c
<1> DEFINE S == {0} \cup {i \in DOMAIN s : s[i] = c}
           len == Len(s)
           m == Txt!FindLastOf(s, c)
<1>1. len \in Nat /\ DOMAIN s = 1 .. len /\ S \subseteq 0 .. len /\ 0 \in S
  OBVIOUS
<1>2. m \in S /\ \A y \in S : y <= m
  <2>1. Max(S) \in S /\ \A y \in S : y <= Max(S)
    <3> HIDE DEF S, len
    <3>1. S # {}
      BY <1>1
    <3>2. QED
      BY <1>1, <3>1, MaxProperties
  <2>2. m = Max(S)
    BY DEF Max, Txt!Max, Txt!FindLastOf
  <2> HIDE DEF m, S
  <2>3. QED
    BY <2>1, <2>2
<1> HIDE DEF m
<1>3. QED
  BY <1>1, <1>2 DEF m

(* A numeral of no sign or one in front.                                   *)
SignedNumeral(s, sign, body) ==
  /\ sign \in {<< >>, <<Txt!Plus>>, <<Txt!Minus>>} /\ s = sign \o body
  /\ body \in Seq(Nat) /\ body # << >>

(* Its sign is valid, and behind it is the body.                           *)
LEMMA SignValid ==
  ASSUME NEW s, NEW sign, NEW body, SignedNumeral(s, sign, body)
  PROVE  /\ s # << >> /\ ~ Txt!SigInvalid(s) /\ Txt!Body(s) = body
         /\ s[1] = Txt!Minus <=> sign = <<Txt!Minus>>
<1>1. Txt!Plus = -1 /\ Txt!Minus = -2
  BY DEF Txt!Plus, Txt!Minus
<1>2. /\ body \in Seq(Nat) /\ body \in Seq(Int) /\ Len(body) \in Nat /\ Len(body) > 0
      /\ \A i \in 1 .. Len(body) : body[i] \in Nat
  BY DEF SignedNumeral
<1>3. CASE sign = << >>
  <2>1. s = body /\ s[1] \in Nat
    BY <1>2, <1>3 DEF SignedNumeral
  <2>2. ASSUME NEW c \in {Txt!Plus, Txt!Minus} PROVE Txt!FindLastOf(s, c) = 0
    <3>1. c \in Int /\ \A i \in 1 .. Len(s) : s[i] # c
      BY <1>1, <1>2, <2>1
    <3>2. Txt!FindLastOf(s, c) \in 0 .. Len(s) /\
          (Txt!FindLastOf(s, c) # 0 => s[Txt!FindLastOf(s, c)] = c)
      BY <1>2, <2>1, <3>1, LastOf
    <3>3. QED
      BY <3>1, <3>2
  <2>3. ~ Txt!SigInvalid(s)
    BY <2>2 DEF Txt!SigInvalid
  <2>4. Txt!Body(s) = body
    BY <1>1, <2>1 DEF Txt!Body
  <2>5. sign # <<Txt!Minus>>
    BY <1>3
  <2>6. QED
    BY <1>1, <1>2, <2>1, <2>3, <2>4, <2>5
<1>4. CASE sign # << >>
  <2>1. PICK x \in {Txt!Plus, Txt!Minus} : sign = <<x>>
    BY <1>4 DEF SignedNumeral
  <2>2. x \in Int
    BY <1>1
  <2>3. s = <<x>> \o body
    BY <2>1 DEF SignedNumeral
  <2>4. /\ s \in Seq(Int) /\ Len(s) = Len(body) + 1 /\ s[1] = x /\ Tail(s) = body
        /\ \A i \in 2 .. Len(s) : s[i] = body[i - 1]
    BY <1>2, <2>2, <2>3
  <2>5. ASSUME NEW c \in {Txt!Plus, Txt!Minus}
        PROVE  Txt!FindLastOf(s, c) = IF c = x THEN 1 ELSE 0
    <3> DEFINE m == Txt!FindLastOf(s, c)
    <3>1. c \in Int /\ \A i \in 2 .. Len(s) : s[i] # c
      <4>1. \A i \in 2 .. Len(s) : i - 1 \in 1 .. Len(body)
        BY <1>2, <2>4
      <4>2. \A i \in 2 .. Len(s) : s[i] \in Nat
        BY <1>2, <2>4, <4>1
      <4>3. QED
        BY <1>1, <4>2
    <3>2. /\ m \in 0 .. Len(s) /\ \A i \in 1 .. Len(s) : s[i] = c => i <= m
          /\ m # 0 => s[m] = c
      BY <2>4, <3>1, LastOf
    <3> HIDE DEF m
    <3>3. m \in {0, 1} /\ 1 \in 1 .. Len(s)
      BY <1>2, <2>4, <3>1, <3>2
    <3>4. m = IF c = x THEN 1 ELSE 0
      BY <2>4, <3>2, <3>3
    <3>5. QED
      BY <3>4 DEF m
  <2>6. ~ Txt!SigInvalid(s)
    <3>1. CASE x = Txt!Plus
      <4>1. Txt!FindLastOf(s, Txt!Plus) = 1 /\ Txt!FindLastOf(s, Txt!Minus) = 0
        BY <1>1, <2>5, <3>1
      <4>2. QED
        BY <4>1 DEF Txt!SigInvalid
    <3>2. CASE x = Txt!Minus
      <4>1. Txt!FindLastOf(s, Txt!Minus) = 1 /\ Txt!FindLastOf(s, Txt!Plus) = 0
        BY <1>1, <2>5, <3>2
      <4>2. QED
        BY <4>1 DEF Txt!SigInvalid
    <3>3. QED
      BY <3>1, <3>2
  <2>7. Txt!Body(s) = body
    BY <2>4 DEF Txt!Body
  <2>8. s[1] = Txt!Minus <=> sign = <<Txt!Minus>>
    BY <2>1, <2>4
  <2>9. s # << >>
    BY <1>2, <2>4
  <2>10. QED
    BY <2>6, <2>7, <2>8, <2>9
<1>5. QED
  BY <1>3, <1>4

(* The numeral is read as its number.                                      *)
LEMMA NumeralRead ==
  ASSUME NEW radix \in 2 .. 4, NEW s, NEW sign, NEW body, SignedNumeral(s, sign, body),
         \A i \in 1 .. Len(body) : body[i] \in 0 .. radix - 1
  PROVE  /\ sign = <<Txt!Minus>> =>
              Txt!FromString(99, s, radix).value = 0 - Txt!NumberOf(body, radix)
         /\ sign # <<Txt!Minus>> =>
              Txt!FromString(99, s, radix).value = Txt!NumberOf(body, radix)
<1> DEFINE t == Txt!Significant(body)
           value == Txt!Assembled(t, radix)
<1>1. /\ s # << >> /\ ~ Txt!SigInvalid(s) /\ Txt!Body(s) = body
      /\ s[1] = Txt!Minus <=> sign = <<Txt!Minus>>
  BY SignValid
<1>2. body \in Seq(Nat) /\ body # << >>
  BY DEF SignedNumeral
<1>3. /\ t \in Seq(Nat) /\ \A i \in 1 .. Len(t) : t[i] \in 0 .. radix - 1
      /\ Txt!NumberOf(t, radix) = Txt!NumberOf(body, radix)
  BY <1>2, SignificantExact
<1> HIDE DEF t
<1>4. /\ \A i \in DOMAIN Txt!Converted(t, radix) : Txt!Converted(t, radix)[i].ok
      /\ value = Txt!NumberOf(t, radix)
  BY <1>3, AssembledExact
<1>5. Txt!ErrorIn(s, radix) = "SUCCESS"
  <2>1. radix \in 2 .. 36
    OBVIOUS
  <2>2. ~ \E i \in DOMAIN Txt!Converted(Txt!Significant(Txt!Body(s)), radix) :
            ~ Txt!Converted(Txt!Significant(Txt!Body(s)), radix)[i].ok
    BY <1>1, <1>4, Zenon DEF t
  <2>3. QED
    BY <1>1, <1>2, <2>1, <2>2, Zenon DEF Txt!ErrorIn
<1>6. Txt!FromString(99, s, radix) =
        IF t = << >> THEN [value |-> 0, status |-> "unchanged"]
        ELSE [value |-> IF s[1] = Txt!Minus THEN - value ELSE value, status |-> "SUCCESS"]
  BY <1>1, <1>5 DEF Txt!FromString, t
<1>7. t = << >> => Txt!NumberOf(t, radix) = 0
  <2>1. radix \in Nat
    OBVIOUS
  <2>2. QED
    BY <1>3, <2>1, NumberNat
<1> HIDE DEF value
<1>8. CASE t = << >>
  <2>1. Txt!NumberOf(body, radix) = 0
    BY <1>3, <1>7, <1>8, Zenon
  <2>2. Txt!FromString(99, s, radix) = [value |-> 0, status |-> "unchanged"]
    BY <1>6, <1>8, Zenon
  <2>3. Txt!FromString(99, s, radix).value = 0
    BY <2>2
  <2>4. QED
    BY <2>1, <2>3
<1>9. CASE t # << >>
  <2>1. Txt!FromString(99, s, radix).value = IF s[1] = Txt!Minus THEN - value ELSE value
    BY <1>6, <1>9
  <2>2. value = Txt!NumberOf(body, radix) /\ radix \in Nat
    BY <1>3, <1>4
  <2>3. value \in Nat
    BY <1>2, <2>2, NumberNat
  <2>4. - value = 0 - value
    BY <2>3
  <2>5. QED
    BY <1>1, <2>1, <2>2, <2>4
<1>10. QED
  BY <1>8, <1>9

(* A string that is rejected leaves the object as it was.                  *)
LEMMA RejectedKept ==
  ASSUME NEW radix \in 2 .. 4, NEW s, NEW r, r = Txt!FromString(99, s, radix)
  PROVE  /\ r.status \notin {"SUCCESS", "unchanged"} => r.value = 99
         /\ s = << >> \/ Txt!SigInvalid(s) \/ Txt!Body(s) = << >> =>
              r.status \notin {"SUCCESS", "unchanged"}
<1> DEFINE error == Txt!ErrorIn(s, radix)
           value == Txt!Assembled(Txt!Significant(Txt!Body(s)), radix)
<1>1. r = IF error # "SUCCESS" THEN [value |-> 99, status |-> error]
          ELSE IF Txt!Significant(Txt!Body(s)) = << >> THEN [value |-> 0, status |-> "unchanged"]
          ELSE [value |-> IF s[1] = Txt!Minus THEN - value ELSE value, status |-> error]
  BY DEF Txt!FromString
<1>2. error \in {"RADIX_INVALID", "NUMBER_STRING_EMPTY", "NUMBER_STRING_SIG_INVALID",
                 "NUMBER_STRING_PARSE2NUM_ERROR", "SUCCESS"}
  BY DEF Txt!ErrorIn
<1>3. s = << >> \/ Txt!SigInvalid(s) \/ Txt!Body(s) = << >> => error # "SUCCESS"
  BY DEF Txt!ErrorIn
<1> HIDE DEF error, value
<1>4. CASE error # "SUCCESS"
  <2>1. r.value = 99 /\ r.status = error
    BY <1>1, <1>4
  <2>2. error # "unchanged"
    BY <1>2
  <2>3. QED
    BY <1>4, <2>1, <2>2
<1>5. CASE error = "SUCCESS"
  <2>1. r.status \in {"SUCCESS", "unchanged"}
    BY <1>1, <1>5
  <2>2. QED
    BY <1>3, <1>5, <2>1
<1>6. QED
  BY <1>4, <1>5

-----------------------------------------------------------------------------
(* t is the one way to write x: no leading zero, but a zero itself.        *)
Numeral(t, x, radix) ==
  /\ t \in Seq(Nat) /\ Len(t) > 0 /\ \A i \in 1 .. Len(t) : t[i] \in 0 .. radix - 1
  /\ Txt!NumberOf(t, radix) = x
  /\ x > 0 => t[1] # 0
  /\ x = 0 => t = << 0 >>

(* One more digit.                                                         *)
LEMMA NumberAppend ==
  ASSUME NEW r \in Nat, NEW s \in Seq(Nat), NEW x \in Nat
  PROVE  Txt!NumberOf(Append(s, x), r) = Txt!NumberOf(s, r) * r + x
<1>1. PICK p : PowersOf(p, r)
  BY PowersExist
<1>2. p[1] = r
  <2>1. p[0] = 1 /\ p[0 + 1] = p[0] * r
    BY <1>1 DEF PowersOf
  <2>2. QED
    BY <2>1
<1> DEFINE t == <<x>>
<1>3. t \in Seq(Nat) /\ Len(t) = 1 /\ Append(s, x) = s \o t
  OBVIOUS
<1>4. Txt!NumberOf(t, r) = x
  BY NumberSingle
<1> HIDE DEF t
<1>5. Txt!NumberOf(s \o t, r) = Txt!NumberOf(s, r) * p[Len(t)] + Txt!NumberOf(t, r)
  BY <1>1, <1>3, NumberConcat
<1>6. QED
  BY <1>2, <1>3, <1>4, <1>5, Zenon

(* Quotient and remainder of a division by a positive number.              *)
LEMMA Quotient ==
  ASSUME NEW v \in Nat, NEW d \in Nat, d >= 2
  PROVE  /\ v \div d \in Nat /\ v % d \in 0 .. d - 1 /\ v = (v \div d) * d + (v % d)
         /\ v >= d => v \div d > 0 /\ v \div d < v
<1> DEFINE q == v \div d
           r == v % d
<1>1. q \in Int /\ r \in Int /\ 0 <= r /\ r < d /\ v = d * q + r
  OBVIOUS
<1> HIDE DEF q, r
<1>2. q >= 0
  BY <1>1
<1>3. d * q = q * d
  BY <1>1
<1>4. v >= d => q > 0
  BY <1>1, <1>2
<1>5. v >= d => q < v
  BY <1>1, <1>2, <1>4
<1>6. q \in Nat /\ r \in 0 .. d - 1 /\ v = q * d + r
  BY <1>1, <1>2, <1>3
<1>7. QED
  BY <1>4, <1>5, <1>6 DEF q, r

(* to_chars writes a numeral, and no longer than it must.                  *)
LEMMA ToCharsNumeral ==
  ASSUME NEW radix \in 2 .. 4, NEW p, PowersOf(p, radix), NEW v \in Nat
  PROVE  /\ Numeral(Txt!ToChars(v, radix), v, radix)
         /\ \A k \in Nat : k >= 1 /\ v < p[k] => Len(Txt!ToChars(v, radix)) <= k
<1> DEFINE chars(x) == Txt!ToChars(x, radix)
           Short(x) == \A k \in Nat : k >= 1 /\ x < p[k] => Len(chars(x)) <= k
           T == {i \in 0 .. v : \A x \in 0 .. i : Numeral(chars(x), x, radix) /\ Short(x)}
<1>1. radix \in Nat /\ radix >= 2
  OBVIOUS
<1>2. \A x \in Nat : /\ x < radix => chars(x) = <<x>>
                     /\ x >= radix => chars(x) = Append(chars(x \div radix), x % radix)
  BY <1>1, ToCharsUnfolds
<1>3. p \in [Nat -> Nat] /\ \A i \in Nat : p[i + 1] = p[i] * radix
  BY DEF PowersOf
<1> HIDE DEF chars
<1>4. ASSUME NEW x \in Nat, x < radix PROVE Numeral(chars(x), x, radix) /\ Short(x)
  <2> DEFINE t == <<x>>
  <2>1. chars(x) = t
    BY <1>2, <1>4
  <2>2. t \in Seq(Nat) /\ Len(t) = 1 /\ t[1] = x /\ (x = 0 => t = << 0 >>)
    OBVIOUS
  <2>3. Txt!NumberOf(t, radix) = x
    BY <1>1, NumberSingle
  <2> HIDE DEF t
  <2>4. \A i \in 1 .. Len(t) : t[i] \in 0 .. radix - 1
    BY <1>1, <1>4, <2>2
  <2>5. Numeral(t, x, radix)
    BY <2>2, <2>3, <2>4 DEF Numeral
  <2>6. QED
    BY <2>1, <2>2, <2>5
<1>5. ASSUME NEW x \in Nat, x >= radix,
             Numeral(chars(x \div radix), x \div radix, radix), Short(x \div radix)
      PROVE  Numeral(chars(x), x, radix) /\ Short(x)
  <2> DEFINE q == x \div radix
             d == x % radix
             s == chars(q)
             t == Append(s, d)
  <2>1. /\ q \in Nat /\ d \in 0 .. radix - 1 /\ d \in Nat /\ x = q * radix + d
        /\ q > 0
    <3>1. q \in Nat /\ d \in 0 .. radix - 1 /\ x = q * radix + d /\ q > 0
      BY <1>1, <1>5, Quotient, Zenon
    <3>2. QED
      BY <1>1, <3>1
  <2>2. chars(x) = t /\ Numeral(s, q, radix) /\ Short(q)
    BY <1>2, <1>5
  <2> HIDE DEF q, d
  <2>3. /\ s \in Seq(Nat) /\ Len(s) > 0 /\ Len(s) \in Nat
        /\ \A i \in 1 .. Len(s) : s[i] \in 0 .. radix - 1
        /\ Txt!NumberOf(s, radix) = q /\ s[1] # 0
    BY <2>1, <2>2 DEF Numeral
  <2> HIDE DEF s
  <2>4. /\ t \in Seq(Nat) /\ Len(t) = Len(s) + 1 /\ t[Len(s) + 1] = d
        /\ \A i \in 1 .. Len(s) : t[i] = s[i]
    BY <2>1, <2>3
  <2>5. Txt!NumberOf(t, radix) = x
    <3>1. Txt!NumberOf(t, radix) = Txt!NumberOf(s, radix) * radix + d
      BY <1>1, <2>1, <2>3, NumberAppend
    <3>2. QED
      BY <2>1, <2>3, <3>1
  <2> HIDE DEF t
  <2>6. t[1] # 0
    BY <2>3, <2>4
  <2>7. ASSUME NEW i \in 1 .. Len(t) PROVE t[i] \in 0 .. radix - 1
    <3>1. i \in 1 .. Len(s) \/ i = Len(s) + 1
      BY <2>3, <2>4
    <3>2. QED
      BY <2>1, <2>3, <2>4, <3>1
  <2>8. Numeral(t, x, radix)
    BY <1>1, <1>5, <2>3, <2>4, <2>5, <2>6, <2>7 DEF Numeral
  <2>9. ASSUME NEW k \in Nat, k >= 1, x < p[k] PROVE Len(t) <= k
    <3>1. k - 1 \in Nat /\ (k - 1) + 1 = k
      BY <2>9
    <3> DEFINE y == p[k - 1]
    <3>2. y \in Nat /\ p[k] = y * radix
      <4>1. y \in Nat /\ p[(k - 1) + 1] = y * radix
        BY <1>3, <3>1
      <4>2. QED
        BY <3>1, <4>1
    <3>3. k >= 2
      <4>1. p[0] = 1
        BY DEF PowersOf
      <4>2. ASSUME k = 1 PROVE FALSE
        <5>1. p[k] = 1 * radix
          BY <3>2, <4>1, <4>2
        <5>2. x < radix
          BY <1>1, <2>9, <5>1
        <5>3. QED
          BY <1>1, <1>5, <5>2
      <4>3. QED
        BY <2>9, <4>2
    <3> HIDE DEF y
    <3>4. q < y
      <4>1. q * radix < y * radix
        <5> DEFINE u == q * radix
                   w == y * radix
        <5>1. u \in Int /\ w \in Int
          BY <1>1, <2>1, <3>2
        <5>2. x = u + d /\ x < w
          BY <2>1, <2>9, <3>2
        <5> HIDE DEF u, w
        <5>3. u < w
          BY <2>1, <5>1, <5>2
        <5>4. QED
          BY <5>3 DEF u, w
      <4>2. QED
        BY <1>1, <2>1, <3>2, <4>1
    <3>5. Len(s) <= k - 1
      BY <2>2, <3>1, <3>3, <3>4 DEF s, y
    <3>6. QED
      BY <2>3, <2>4, <3>5
  <2>10. QED
    BY <2>2, <2>8, <2>9
<1>6. 0 \in T
  BY <1>1, <1>4
<1>7. ASSUME NEW i \in 0 .. v - 1, i \in T PROVE i + 1 \in T
  <2>1. i + 1 \in 0 .. v /\ i + 1 \in Nat
    OBVIOUS
  <2>2. Numeral(chars(i + 1), i + 1, radix) /\ Short(i + 1)
    <3>1. CASE i + 1 < radix
      BY <1>4, <2>1, <3>1
    <3>2. CASE i + 1 >= radix
      <4> DEFINE q == (i + 1) \div radix
      <4>1. q \in Nat /\ q < i + 1
        BY <1>1, <2>1, <3>2, Quotient
      <4>2. q \in 0 .. i
        BY <4>1
      <4>3. Numeral(chars(q), q, radix) /\ Short(q)
        BY <1>7, <4>2
      <4>4. QED
        BY <1>5, <2>1, <3>2, <4>3
    <3>3. QED
      BY <1>1, <2>1, <3>1, <3>2
  <2>3. \A x \in 0 .. i + 1 : x \in 0 .. i \/ x = i + 1
    OBVIOUS
  <2> HIDE DEF Short
  <2>4. QED
    BY <1>7, <2>1, <2>2, <2>3
<1> HIDE DEF T
<1>8. \A i \in 0 .. v : i \in T
  BY <1>6, <1>7, UpTo
<1>9. v \in T /\ v \in 0 .. v
  BY <1>8
<1>10. QED
  BY <1>9 DEF T, chars

(* A numeral with zeros in front, as toString pads its blocks.             *)
LEMMA PaddedNumber ==
  ASSUME NEW radix \in 2 .. 4, NEW c \in Nat, NEW x \in Nat, NEW t, Numeral(t, x, radix),
         Len(t) <= c
  PROVE  LET u == Txt!Padded(t, c)
         IN  /\ u \in Seq(Nat) /\ Len(u) = c /\ \A i \in 1 .. Len(u) : u[i] \in 0 .. radix - 1
             /\ Txt!NumberOf(u, radix) = x
<1> DEFINE u == Txt!Padded(t, c)
           f == c - Len(t)
           z == Txt!Zeros(f)
<1>1. /\ t \in Seq(Nat) /\ Len(t) \in Nat /\ \A i \in 1 .. Len(t) : t[i] \in 0 .. radix - 1
      /\ Txt!NumberOf(t, radix) = x /\ radix \in Nat
  BY DEF Numeral
<1>2. u = z \o t /\ z = [i \in 1 .. f |-> 0]
  BY DEF Txt!Padded, Txt!Zeros
<1>3. f \in Nat /\ f + Len(t) = c
  BY <1>1
<1> HIDE DEF u, f, z
<1>4. z \in Seq(Nat) /\ Len(z) = f /\ \A i \in 1 .. f : z[i] = 0
  BY <1>2, <1>3
<1>5. /\ u \in Seq(Nat) /\ Len(u) = c
      /\ \A i \in 1 .. f : u[i] = 0
      /\ \A i \in 1 .. Len(t) : u[f + i] = t[i]
  BY <1>1, <1>2, <1>3, <1>4
<1>6. ASSUME NEW i \in 1 .. c PROVE u[i] \in 0 .. radix - 1
  <2>1. CASE i <= f
    BY <1>3, <1>5, <2>1
  <2>2. CASE i > f
    <3>1. i - f \in 1 .. Len(t) /\ f + (i - f) = i
      BY <1>1, <1>3, <2>2
    <3>2. QED
      BY <1>1, <1>5, <3>1
  <2>3. QED
    BY <1>3, <2>1, <2>2
<1>7. Txt!NumberOf(u, radix) = x
  <2>1. f \in 0 .. Len(u)
    BY <1>1, <1>3, <1>5
  <2>2. Txt!NumberOf(u, radix) = Txt!NumberOf(SubSeq(u, f + 1, Len(u)), radix)
    BY <1>1, <1>5, <2>1, NumberZeros
  <2>3. SubSeq(u, f + 1, Len(u)) = t
    <3> DEFINE w == SubSeq(u, f + 1, c)
               m == Len(t)
    <3>1. m \in Nat /\ c - f = m /\ f + m = c
      BY <1>1, <1>3
    <3>2. w \in Seq(Nat) /\ Len(w) = c - f /\ \A i \in 1 .. c - f : w[i] = u[f + i]
      BY <1>3, <1>5
    <3> HIDE DEF w
    <3>3. Len(w) = Len(t) /\ \A i \in 1 .. Len(t) : w[i] = t[i]
      BY <1>5, <3>1, <3>2
    <3>4. w = t
      BY <1>1, <3>2, <3>3, SMTT(40)
    <3>5. QED
      BY <1>5, <3>4 DEF w
  <2>4. QED
    BY <1>1, <2>2, <2>3
<1>8. QED
  BY <1>5, <1>6, <1>7 DEF u

(* The equation of toString's loop.                                        *)
StringEquation(f, radix) ==
  f = [x \in Nat |->
         IF x < Txt!GetU64BlockRadix(radix) THEN Txt!ToChars(x, radix)
         ELSE f[x \div Txt!GetU64BlockRadix(radix)] \o
                Txt!Padded(Txt!ToChars(x % Txt!GetU64BlockRadix(radix), radix),
                           Txt!GetDigitCountPerU64(radix))]

(* A block of digits behind the top one.                                   *)
LowBlockOf(x, radix) ==
  Txt!Padded(Txt!ToChars(x % Txt!GetU64BlockRadix(radix), radix),
             Txt!GetDigitCountPerU64(radix))

(* It has the digits of the remainder, none less than the block is long.   *)
LEMMA LowBlockExact ==
  ASSUME NEW radix \in 2 .. 4, NEW x \in Nat
  PROVE  LET R == Txt!GetU64BlockRadix(radix)
             u == LowBlockOf(x, radix)
         IN  /\ R \in Nat /\ R >= 2
             /\ u \in Seq(Nat) /\ \A i \in 1 .. Len(u) : u[i] \in 0 .. radix - 1
             /\ Txt!NumberOf(u, radix) = x % R
             /\ \A p : PowersOf(p, radix) => p[Len(u)] = R
<1> DEFINE c == Txt!GetDigitCountPerU64(radix)
           R == Txt!GetU64BlockRadix(radix)
           d == x % R
           t == Txt!ToChars(d, radix)
           u == LowBlockOf(x, radix)
<1>1. c \in Nat /\ c >= 1 /\ R \in Nat /\ \A p : PowersOf(p, radix) => p[c] = R
  BY TableU64 DEF CountsTo
<1>2. u = Txt!Padded(t, c)
  BY DEF LowBlockOf
<1> HIDE DEF c, R
<1>3. PICK p : PowersOf(p, radix)
  BY PowersExist
<1>4. R >= 2
  <2> DEFINE T == {i \in 0 .. c : p[i] >= 1 /\ (i >= 1 => p[i] >= 2)}
  <2>1. p \in [Nat -> Nat] /\ p[0] = 1 /\ \A i \in Nat : p[i + 1] = p[i] * radix
    BY <1>3 DEF PowersOf
  <2>2. 0 \in T
    BY <1>1, <2>1
  <2>3. ASSUME NEW i \in 0 .. c - 1, i \in T PROVE i + 1 \in T
    <3>1. i + 1 \in 0 .. c /\ i \in Nat /\ p[i] \in Nat /\ p[i] >= 1
      BY <1>1, <2>1, <2>3
    <3> DEFINE y == p[i]
    <3>2. p[i + 1] = y * radix
      BY <2>1, <3>1
    <3> HIDE DEF y
    <3>3. y * radix >= 2
      BY <3>1 DEF y
    <3>4. p[i + 1] >= 2
      BY <3>2, <3>3
    <3>5. QED
      BY <2>1, <3>1, <3>4
  <2> HIDE DEF T
  <2>4. \A i \in 0 .. c : i \in T
    BY <1>1, <2>2, <2>3, UpTo
  <2>5. c \in T
    BY <1>1, <2>4
  <2>6. p[c] >= 2
    BY <1>1, <2>5 DEF T
  <2>7. QED
    BY <1>1, <1>3, <2>6
<1>5. d \in 0 .. R - 1 /\ d \in Nat
  <2>1. d \in 0 .. R - 1
    BY <1>1, <1>4, Quotient
  <2>2. QED
    BY <1>1, <2>1
<1> HIDE DEF d
<1>6. Numeral(t, d, radix) /\ \A k \in Nat : k >= 1 /\ d < p[k] => Len(t) <= k
  BY <1>3, <1>5, ToCharsNumeral
<1>7. Len(t) <= c
  <2>1. p[c] = R /\ d < R
    BY <1>1, <1>3, <1>5
  <2>2. QED
    BY <1>1, <1>6, <2>1
<1> HIDE DEF t, u
<1>8. /\ u \in Seq(Nat) /\ Len(u) = c /\ \A i \in 1 .. Len(u) : u[i] \in 0 .. radix - 1
      /\ Txt!NumberOf(u, radix) = d
  BY <1>1, <1>2, <1>5, <1>6, <1>7, PaddedNumber
<1>9. QED
  BY <1>1, <1>4, <1>8 DEF R, d, u

(* The equation has a solution.                                            *)
LEMMA StringSolvable ==
  ASSUME NEW radix \in 2 .. 4
  PROVE  \E f : StringEquation(f, radix)
<1> DEFINE R == Txt!GetU64BlockRadix(radix)
           low(x) == LowBlockOf(x, radix)
           chars(x) == Txt!ToChars(x, radix)
           base == [x \in Nat |-> chars(x)]
           next == [x \in Nat |-> x \div R]
           step == [q \in Nat \X Seq(Nat) |-> q[2] \o low(q[1])]
           Eqn(f) == f = [x \in Nat |-> IF x < R THEN chars(x) ELSE f[x \div R] \o low(x)]
<1>1. R \in Nat /\ R >= 2 /\ \A x \in Nat : low(x) \in Seq(Nat)
  <2>1. 0 \in Nat
    OBVIOUS
  <2>2. R \in Nat /\ R >= 2
    BY <2>1, LowBlockExact
  <2>3. \A x \in Nat : low(x) \in Seq(Nat)
    BY LowBlockExact
  <2>4. QED
    BY <2>2, <2>3
<1>2. \A x \in Nat : chars(x) \in Seq(Nat)
  <2>1. PICK p : PowersOf(p, radix)
    BY PowersExist
  <2>2. \A x \in Nat : Numeral(chars(x), x, radix)
    BY <2>1, ToCharsNumeral
  <2>3. QED
    BY <2>2 DEF Numeral
<1>3. \A f : Eqn(f) => StringEquation(f, radix)
  BY DEF StringEquation, LowBlockOf
<1> HIDE DEF R, low, chars
<1>4. base \in [Nat -> Seq(Nat)] /\ \A x \in Nat : base[x] = chars(x)
  BY <1>2
<1>5. \A x \in Nat : x \div R \in Nat /\ (x >= R => x \div R < x)
  BY <1>1, Quotient
<1>6. /\ next \in [Nat -> Nat] /\ \A x \in Nat : next[x] = x \div R
      /\ \A x \in Nat : x >= R => next[x] < x
  BY <1>5
<1>7. /\ step \in [Nat \X Seq(Nat) -> Seq(Nat)]
      /\ \A x \in Nat : \A s \in Seq(Nat) : step[<<x, s>>] = s \o low(x)
  <2>1. \A x \in Nat : \A s \in Seq(Nat) : s \o low(x) \in Seq(Nat)
    BY <1>1
  <2>2. QED
    BY <2>1
<1> HIDE DEF base, next, step
<1>8. PICK f \in [Nat -> Seq(Nat)] : Descends(f, Nat, R, base, next, step)
  <2> DEFINE S == Seq(Nat)
  <2>1. base \in [Nat -> S] /\ step \in [Nat \X S -> S]
    BY <1>4, <1>7
  <2> HIDE DEF S
  <2>2. \E f \in [Nat -> S] : Descends(f, Nat, R, base, next, step)
    BY <1>1, <1>6, <2>1, Descent
  <2>3. QED
    BY <2>2 DEF S
<1>9. ASSUME NEW x \in Nat PROVE f[x] = IF x < R THEN chars(x) ELSE f[x \div R] \o low(x)
  <2>1. next[x] \in Nat /\ f[next[x]] \in Seq(Nat) /\ next[x] = x \div R
    BY <1>6, <1>8
  <2>2. f[x] = IF x < R THEN base[x] ELSE step[<<x, f[next[x]]>>]
    BY <1>8 DEF Descends
  <2>3. base[x] = chars(x) /\ step[<<x, f[next[x]]>>] = f[next[x]] \o low(x)
    BY <1>4, <1>7, <2>1
  <2>4. QED
    BY <2>1, <2>2, <2>3, Zenon
<1>10. f = [x \in Nat |-> f[x]]
  BY <1>8
<1>11. Eqn(f)
  BY <1>9, <1>10, Zenon
<1> HIDE DEF Eqn
<1>12. QED
  BY <1>3, <1>11

(* Block by block, toString's loop writes the numeral of its argument.     *)
LEMMA StringNumeral ==
  ASSUME NEW radix \in 2 .. 4, NEW f, StringEquation(f, radix), NEW v \in Nat
  PROVE  Numeral(f[v], v, radix)
<1> DEFINE R == Txt!GetU64BlockRadix(radix)
           T == {i \in 0 .. v : \A x \in 0 .. i : Numeral(f[x], x, radix)}
<1>1. R \in Nat /\ R >= 2
  BY LowBlockExact
<1>2. \A x \in Nat : f[x] = IF x < R THEN Txt!ToChars(x, radix)
                            ELSE f[x \div R] \o LowBlockOf(x, radix)
  BY DEF StringEquation, LowBlockOf
<1>3. PICK p : PowersOf(p, radix)
  BY PowersExist
<1>4. ASSUME NEW x \in Nat,
             \A y \in 0 .. x - 1 : Numeral(f[y], y, radix)
      PROVE  Numeral(f[x], x, radix)
  <2>1. CASE x < R
    <3>1. Numeral(Txt!ToChars(x, radix), x, radix)
      BY <1>3, ToCharsNumeral
    <3>2. f[x] = Txt!ToChars(x, radix)
      BY <1>2, <2>1
    <3>3. QED
      BY <3>1, <3>2
  <2>2. CASE x >= R
    <3> DEFINE q == x \div R
               d == x % R
               s == f[q]
               u == LowBlockOf(x, radix)
               t == s \o u
    <3>1. q \in Nat /\ d \in 0 .. R - 1 /\ x = q * R + d /\ q > 0 /\ q < x
      BY <1>1, <2>2, Quotient, Zenon
    <3>2. /\ u \in Seq(Nat) /\ \A i \in 1 .. Len(u) : u[i] \in 0 .. radix - 1
          /\ Txt!NumberOf(u, radix) = d /\ p[Len(u)] = R
      BY <1>3, LowBlockExact
    <3>3. f[x] = t
      <4>1. ~(x < R)
        BY <1>1, <2>2
      <4>2. QED
        BY <1>2, <4>1
    <3> HIDE DEF R, q, d, u
    <3>4. Numeral(s, q, radix)
      <4>1. q \in 0 .. x - 1
        BY <3>1
      <4>2. QED
        BY <1>4, <4>1
    <3>5. /\ s \in Seq(Nat) /\ Len(s) > 0 /\ Len(s) \in Nat
          /\ \A i \in 1 .. Len(s) : s[i] \in 0 .. radix - 1
          /\ Txt!NumberOf(s, radix) = q /\ s[1] # 0 /\ radix \in Nat
      BY <3>1, <3>4 DEF Numeral
    <3> HIDE DEF s
    <3>6. /\ t \in Seq(Nat) /\ Len(t) = Len(s) + Len(u) /\ Len(u) \in Nat
          /\ \A i \in 1 .. Len(s) : t[i] = s[i]
          /\ \A i \in 1 .. Len(u) : t[Len(s) + i] = u[i]
      BY <3>2, <3>5
    <3>7. Txt!NumberOf(t, radix) = x
      <4>1. Txt!NumberOf(t, radix) =
              Txt!NumberOf(s, radix) * p[Len(u)] + Txt!NumberOf(u, radix)
        BY <1>3, <3>2, <3>5, NumberConcat
      <4>2. QED
        BY <3>1, <3>2, <3>5, <4>1, Zenon
    <3> HIDE DEF t
    <3>8. ASSUME NEW i \in 1 .. Len(t) PROVE t[i] \in 0 .. radix - 1
      <4>1. CASE i <= Len(s)
        BY <3>5, <3>6, <4>1
      <4>2. CASE i > Len(s)
        <5>1. i - Len(s) \in 1 .. Len(u) /\ Len(s) + (i - Len(s)) = i
          BY <3>5, <3>6, <4>2
        <5>2. QED
          BY <3>2, <3>6, <5>1
      <4>3. QED
        BY <3>5, <3>6, <4>1, <4>2
    <3>9. t[1] # 0 /\ Len(t) > 0 /\ x > 0
      <4>1. 1 \in 1 .. Len(s) /\ Len(t) > 0
        BY <3>5, <3>6
      <4>2. x > 0
        BY <3>1
      <4>3. QED
        BY <3>5, <3>6, <4>1, <4>2
    <3>10. Numeral(t, x, radix)
      BY <3>6, <3>7, <3>8, <3>9 DEF Numeral
    <3>11. QED
      BY <3>3, <3>10
  <2>3. QED
    BY <1>1, <2>1, <2>2
<1>5. 0 \in T
  <2>1. \A x \in 0 .. 0 : x = 0
    OBVIOUS
  <2>2. \A y \in 0 .. 0 - 1 : Numeral(f[y], y, radix)
    OBVIOUS
  <2>3. Numeral(f[0], 0, radix)
    BY <1>4, <2>2
  <2>4. QED
    BY <2>1, <2>3
<1>6. ASSUME NEW i \in 0 .. v - 1, i \in T PROVE i + 1 \in T
  <2>1. i + 1 \in 0 .. v /\ i + 1 \in Nat /\ (i + 1) - 1 = i
    OBVIOUS
  <2>2. Numeral(f[i + 1], i + 1, radix)
    BY <1>4, <1>6, <2>1
  <2>3. \A x \in 0 .. i + 1 : x \in 0 .. i \/ x = i + 1
    OBVIOUS
  <2>4. QED
    BY <1>6, <2>1, <2>2, <2>3
<1> HIDE DEF T
<1>7. \A i \in 0 .. v : i \in T
  BY <1>5, <1>6, UpTo
<1>8. v \in T /\ v \in 0 .. v
  BY <1>7
<1>9. QED
  BY <1>8 DEF T

(* What toString returns, for numbers of either sign.                      *)
LEMMA StringOfExact ==
  ASSUME NEW radix \in 2 .. 4, NEW x \in Nat
  PROVE  \E t : /\ Numeral(t, x, radix)
                /\ Txt!StringOf(x, radix) = << >> \o t
                /\ x > 0 => Txt!StringOf(- x, radix) = <<Txt!Minus>> \o t
<1> DEFINE f == CHOOSE g : StringEquation(g, radix)
<1>1. StringEquation(f, radix)
  BY StringSolvable
<1>2. \A v \in Int : Txt!StringOf(v, radix) =
        (IF v < 0 THEN <<Txt!Minus>> ELSE << >>) \o f[IF v < 0 THEN - v ELSE v]
  BY DEF Txt!StringOf, StringEquation
<1> HIDE DEF f
<1>3. Numeral(f[x], x, radix)
  BY <1>1, StringNumeral
<1>4. Txt!StringOf(x, radix) = << >> \o f[x]
  <2>1. x \in Int /\ ~(x < 0)
    OBVIOUS
  <2>2. QED
    BY <1>2, <2>1, Zenon
<1>5. ASSUME x > 0 PROVE Txt!StringOf(- x, radix) = <<Txt!Minus>> \o f[x]
  <2>1. - x \in Int /\ - x < 0 /\ - (- x) = x
    BY <1>5
  <2>2. QED
    BY <1>2, <2>1, Zenon
<1>6. QED
  BY <1>3, <1>4, <1>5

(* What toString writes, fromString reads.                                 *)
LEMMA RoundTrips ==
  ASSUME NEW radix \in 2 .. 4, Number \in Nat
  PROVE  RoundTrip(radix)
<1> DEFINE x == Number
<1>1. PICK t : /\ Numeral(t, x, radix)
               /\ Txt!StringOf(x, radix) = << >> \o t
               /\ x > 0 => Txt!StringOf(- x, radix) = <<Txt!Minus>> \o t
  BY StringOfExact
<1> HIDE DEF x
<1>2. /\ t \in Seq(Nat) /\ t # << >> /\ x \in Nat
      /\ \A i \in 1 .. Len(t) : t[i] \in 0 .. radix - 1
      /\ Txt!NumberOf(t, radix) = x
      /\ x > 0 => t[1] # 0
      /\ x = 0 => t = << 0 >>
  BY <1>1 DEF Numeral, x
<1> DEFINE Fine(v, s) == /\ Txt!FromString(99, s, radix).value = v
                         /\ Txt!Significant(Txt!Body(s)) = Txt!Body(s) \/ s = << 0 >>
                         /\ \A i \in DOMAIN Txt!Body(s) : Txt!Body(s)[i] \in 0 .. radix - 1
<1>3. ASSUME NEW s, NEW sign, SignedNumeral(s, sign, t), NEW v,
             sign = <<Txt!Minus>> => v = 0 - x,
             sign # <<Txt!Minus>> => v = x,
             x > 0 \/ s = << 0 >>
      PROVE  Fine(v, s)
  <2>1. Txt!Body(s) = t
    BY <1>3, SignValid
  <2>2. Txt!FromString(99, s, radix).value = v
    <3>1. /\ sign = <<Txt!Minus>> => Txt!FromString(99, s, radix).value = 0 - x
          /\ sign # <<Txt!Minus>> => Txt!FromString(99, s, radix).value = x
      BY <1>2, <1>3, NumeralRead
    <3>2. QED
      BY <1>3, <3>1
  <2>3. x > 0 => Txt!Significant(t) = t
    BY <1>2, SignificantExact
  <2>4. DOMAIN t = 1 .. Len(t)
    BY <1>2
  <2>5. QED
    BY <1>2, <1>3, <2>1, <2>2, <2>3, <2>4
<1>4. Fine(x, Txt!StringOf(x, radix))
  <2> DEFINE s == << >> \o t
  <2>1. SignedNumeral(s, << >>, t) /\ s = t
    BY <1>2 DEF SignedNumeral
  <2>2. << >> # <<Txt!Minus>>
    OBVIOUS
  <2>3. x > 0 \/ s = << 0 >>
    BY <1>2, <2>1
  <2> HIDE DEF s, Fine
  <2>4. Fine(x, s)
    BY <1>3, <2>1, <2>2, <2>3
  <2>5. QED
    BY <1>1, <2>4 DEF s
<1>5. Fine(- x, Txt!StringOf(- x, radix))
  <2>1. CASE x > 0
    <3> DEFINE s == <<Txt!Minus>> \o t
    <3>1. SignedNumeral(s, <<Txt!Minus>>, t)
      BY <1>2 DEF SignedNumeral
    <3>2. - x = 0 - x
      BY <1>2
    <3> HIDE DEF s, Fine
    <3>3. Fine(- x, s)
      BY <1>3, <2>1, <3>1, <3>2
    <3>4. QED
      BY <1>1, <2>1, <3>3 DEF s
  <2>2. CASE x = 0
    <3>1. - x = x
      <4>1. - x = 0 - x
        BY <1>2
      <4>2. QED
        BY <2>2, <4>1
    <3> HIDE DEF Fine
    <3>2. QED
      BY <1>4, <3>1, Zenon
  <2>3. QED
    BY <1>2, <2>1, <2>2
<1>6. \A v \in {Number, - Number} : Fine(v, Txt!StringOf(v, radix))
  BY <1>4, <1>5, Zenon DEF x
<1>7. QED
  BY <1>6 DEF RoundTrip

(* Every numeral is read, and nothing else changes the object.             *)
LEMMA Readings ==
  ASSUME NEW radix \in 2 .. 4, a \in Seq(Nat), b \in Seq(Nat)
  PROVE  Reading(radix)
<1>1. ASSUME NEW body \in {b \o a, Append(b, 0)},
             NEW sign \in {<< >>, <<Txt!Plus>>, <<Txt!Minus>>, << 1, Txt!Plus >>}
      PROVE  LET r == Txt!FromString(99, sign \o body, radix)
             IN  IF Len(sign) < 2 /\ body # << >> /\ Txt!DigitPrefix(body, radix) = body
                 THEN r.value = (IF sign = <<Txt!Minus>> THEN -1 ELSE 1)
                                  * Txt!NumberOf(body, radix)
                 ELSE /\ r.status \notin {"SUCCESS", "unchanged"} => r.value = 99
                      /\ Len(sign) = 2 \/ body = << >> => r.status # "SUCCESS"
  <2> DEFINE s == sign \o body
             r == Txt!FromString(99, s, radix)
             x == Txt!NumberOf(body, radix)
  <2>1. body \in Seq(Nat) /\ radix \in Nat
    <3>1. b \o a \in Seq(Nat) /\ Append(b, 0) \in Seq(Nat)
      OBVIOUS
    <3>2. body \in Seq(Nat)
      BY <3>1, Zenon
    <3>3. radix \in Nat
      OBVIOUS
    <3>4. QED
      BY <3>2, <3>3, Zenon
  <2>2. x \in Nat
    BY <2>1, NumberNat
  <2>3. Txt!Plus \in Int /\ Txt!Minus \in Int
    BY DEF Txt!Plus, Txt!Minus
  <2>4. /\ Len(<< >>) = 0 /\ Len(<<Txt!Plus>>) = 1 /\ Len(<<Txt!Minus>>) = 1
         /\ Len(<< 1, Txt!Plus >>) = 2
    BY <2>3
  <2>5. ASSUME Len(sign) < 2, body # << >>, Txt!DigitPrefix(body, radix) = body
        PROVE  r.value = (IF sign = <<Txt!Minus>> THEN -1 ELSE 1) * x
    <3>1. \A i \in 1 .. Len(body) : body[i] \in 0 .. radix - 1
      BY <2>1, <2>5, DigitPrefixWhole
    <3>2. sign \in {<< >>, <<Txt!Plus>>, <<Txt!Minus>>}
      <4>1. ~(2 < 2)
        OBVIOUS
      <4>2. QED
        BY <2>5, <2>4, <4>1, Zenon
    <3>3. SignedNumeral(s, sign, body)
      BY <2>1, <2>5, <3>2 DEF SignedNumeral
    <3> HIDE DEF s, x
    <3>4. /\ sign = <<Txt!Minus>> => r.value = 0 - x
          /\ sign # <<Txt!Minus>> => r.value = x
      BY <3>1, <3>3, NumeralRead DEF x
    <3>5. (-1) * x = 0 - x /\ 1 * x = x
      BY <2>2
    <3> HIDE DEF r
    <3> DEFINE factor == IF sign = <<Txt!Minus>> THEN -1 ELSE 1
    <3>6. CASE sign = <<Txt!Minus>>
      <4>1. factor = -1
        BY <3>6, Zenon
      <4> HIDE DEF factor
      <4>2. r.value = factor * x
        BY <3>4, <3>5, <3>6, <4>1, Zenon
      <4>3. QED
        BY <4>2 DEF factor
    <3>7. CASE sign # <<Txt!Minus>>
      <4>1. factor = 1
        BY <3>7, Zenon
      <4> HIDE DEF factor
      <4>2. r.value = factor * x
        BY <3>4, <3>5, <3>7, <4>1, Zenon
      <4>3. QED
        BY <4>2 DEF factor
    <3>8. QED
      BY <3>6, <3>7, Zenon
  <2>6. r.status \notin {"SUCCESS", "unchanged"} => r.value = 99
    BY RejectedKept
  <2>7. ASSUME Len(sign) = 2 PROVE Txt!SigInvalid(s)
    <3>1. sign = << 1, Txt!Plus >>
      <4>1. 0 # 2 /\ 1 # 2
        OBVIOUS
      <4>2. QED
        BY <2>7, <2>4, <4>1, Zenon
    <3>2. s \in Seq(Int) /\ Len(s) >= 2 /\ s[2] = Txt!Plus /\ 2 \in 1 .. Len(s)
      BY <2>1, <2>3, <3>1
    <3> HIDE DEF s
    <3> DEFINE m == Txt!FindLastOf(s, Txt!Plus)
    <3>3. m \in 0 .. Len(s) /\ \A i \in 1 .. Len(s) : s[i] = Txt!Plus => i <= m
      BY <2>3, <3>2, LastOf
    <3> HIDE DEF m
    <3>4. m > 1
      BY <3>2, <3>3
    <3>5. QED
      BY <3>4 DEF Txt!SigInvalid, m
  <2>8. ASSUME body = << >> PROVE s = << >> \/ Txt!SigInvalid(s) \/ Txt!Body(s) = << >>
    <3>1. CASE sign = << >>
      BY <2>8, <3>1
    <3>2. CASE Len(sign) = 2
      BY <2>7, <3>2
    <3>3. CASE sign \in {<<Txt!Plus>>, <<Txt!Minus>>}
      <4>1. PICK y \in {Txt!Plus, Txt!Minus} : sign = <<y>>
        BY <3>3
      <4>2. y \in Int
        BY <2>3
      <4>3. s = <<y>>
        BY <2>8, <4>1, <4>2
      <4>4. s[1] = y /\ Tail(s) = << >>
        BY <4>2, <4>3
      <4>5. QED
        BY <4>1, <4>4 DEF Txt!Body
    <3>4. QED
      BY <3>1, <3>2, <3>3
  <2>9. Len(sign) = 2 \/ body = << >> => r.status # "SUCCESS"
    <3>1. s = << >> \/ Txt!SigInvalid(s) \/ Txt!Body(s) = << >> =>
            r.status \notin {"SUCCESS", "unchanged"}
      <4>1. r = Txt!FromString(99, s, radix)
        OBVIOUS
      <4> HIDE DEF r, s
      <4>2. QED
        BY <4>1, RejectedKept
    <3> HIDE DEF r, s
    <3>2. QED
      BY <2>7, <2>8, <3>1
  <2> HIDE DEF r, x
  <2>10. QED
    BY <2>5, <2>6, <2>9 DEF r, x
<1>2. QED
  BY <1>1 DEF Reading

(* Numerals of the words picked.                                           *)
LEMMA OperandsTexts == Operands => TextExact
<1> SUFFICES ASSUME Operands, NEW radix \in Radix PROVE RoundTrip(radix) /\ Reading(radix)
  BY DEF TextExact
<1>1. a \in Seq(Word) /\ b \in Seq(Word)
  BY BoundsAssumption, NormalWords DEF Operands
<1>2. a \in Seq(Nat) /\ b \in Seq(Nat)
  BY <1>1, WordsProperties
<1>3. b \o a \in Seq(Word)
  BY <1>1
<1>4. Number \in Nat
  BY <1>3, WordsProperties, ToNatPositive DEF Number
<1>5. radix \in 2 .. 4
  BY DEF Radix
<1>6. QED
  BY <1>2, <1>4, <1>5, RoundTrips, Readings

(* toString and fromString agree on numbers of any size and either sign,   *)
(* although they cut the numeral into blocks of different lengths from     *)
(* opposite ends; every numeral is read, and a string that is rejected     *)
(* leaves the object alone.                                                *)
THEOREM TextsAreExact == Spec => []TextExact
<1>1. QED
  BY OperandsInvariant, OperandsTexts, PTL
=============================================================================
