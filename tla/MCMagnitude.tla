---------------------------- MODULE MCMagnitude ----------------------------
(* Every kernel of Magnitude against integer arithmetic, on all pairs of   *)
(* normalised magnitudes of at most MaxLen words and all shifts up to      *)
(* MaxShift; the exchange with machine integers; the conversions of Text   *)
(* on the strings their words spell, and the operations of Fraction on the *)
(* numbers they denote.                                                    *)
EXTENDS Conversions, TLC

CONSTANTS MaxLen, MaxLenB, MaxShift
ASSUME BoundsAssumption == {MaxLen, MaxLenB, MaxShift} \subseteq Nat
ASSUME ShiftAssumption == PowersUpTo(MaxShift)

VARIABLES a, b, n

Normal(len) == {w \in UNION {[1 .. k -> Word] : k \in 0 .. len} :
                  w = << >> \/ w[Len(w)] # 0}

Init == /\ a \in Normal(MaxLen)
        /\ b \in Normal(MaxLenB)
        /\ n = 0

(* The operands stay; the third operand, a shift or a word, is advanced.   *)
Advance == n < MaxShift /\ n' = n + 1 /\ UNCHANGED <<a, b>>

(* addMag, inc: no carry is lost, and the sum of normalised magnitudes is  *)
(* normalised without an erase (addAssign does not call one).  cmpMag      *)
(* orders normalised magnitudes as numbers, and subMag, which drops its    *)
(* last borrow, is exact whenever cmpMag says a > b.                       *)
SumsExact ==
  /\ ToNat(AddMag(a, b)) = ToNat(a) + ToNat(b)
  /\ EraseZerosSuffix(AddMag(a, b)) = AddMag(a, b)
  /\ a # << >> => ToNat(IncMag(a)) = ToNat(a) + 1
  /\ CmpMag(a, b) = (IF ToNat(a) < ToNat(b) THEN -1
                     ELSE IF ToNat(a) = ToNat(b) THEN 0 ELSE 1)
  /\ CmpMag(a, b) = 1 => ToNat(SubMag(a, b)) = ToNat(a) - ToNat(b)
  /\ a # << >> => ToNat(DecMag(a)) = ToNat(a) - 1

(* Both grade-school multiplications are exact; the in-place one by a      *)
(* non-zero word needs no erase (mulAssign calls none after it).           *)
(* Karatsuba's, from four words on and down to grade school below, is      *)
(* exact and normalised for operands that share a length, differ in it, or *)
(* fit one block of the other, and for blocks that are zero.               *)
ProductsExact ==
  /\ ToNat(GradeSchoolMul(a, b)) = ToNat(a) * ToNat(b)
  /\ a # << >> /\ n \in Word \ {0} =>
       /\ ToNat(GradSchoolMulInplace(a, n)) = ToNat(a) * n
       /\ EraseZerosSuffix(GradSchoolMulInplace(a, n)) = GradSchoolMulInplace(a, n)
  /\ n = 0 => LET x == a \o b
                  y == IF Len(a) = 1 THEN b \o b \o b ELSE b \o a
                  p == Product(x, y, 4)
              IN  ToNat(p) = ToNat(x) * ToNat(y) /\ p = EraseZerosSuffix(p)

(* Shifts multiply and divide (rounding down) by a power of two and leave  *)
(* a normalised magnitude, whatever the split of n into words and bits.    *)
ShiftExact ==
  a # << >> =>
    /\ n > 0 => /\ ToNat(ShlMag(a, n)) = ToNat(a) * 2 ^ n
                /\ ShlMag(a, n) = EraseZerosSuffix(ShlMag(a, n))
    /\ ToNat(ShrMag(a, n)) = ToNat(a) \div 2 ^ n
    /\ ShrMag(a, n) = EraseZerosSuffix(ShrMag(a, n))

(* Division by a word, and Algorithm D with one correction of the estimate and as many add-backs  *)
(* as it takes: exact quotient and remainder for every normalised divisor  *)
(* of at least two words, and no digit of the quotient overflows.          *)
DivisionExact ==
  /\ n \in Word \ {0} => LET d == DivideByWord(a, n)
                         IN  /\ ToNat(d.q) = ToNat(a) \div n
                             /\ d.r = ToNat(a) % n
  /\ n = 0 /\ Len(b) > 1 /\ CmpMag(a, b) = 1 =>
    LET s == NormShift(b)
        v == IF s = 0 THEN b ELSE ShlMag(b, s)
        u == IF Len(a) = Len(b) THEN Append(a, 0) ELSE a
        k == KnuthLoop(Append(IF s = 0 THEN u ELSE ShlMag(u, s), 0), v)
    IN  /\ ToNat(k.q) = ToNat(a) \div ToNat(b)
        /\ ToNat(EraseZerosSuffix(k.u)) \div 2 ^ s = ToNat(a) % ToNat(b)

-----------------------------------------------------------------------------
Object(sign) == [sign |-> IF a = << >> THEN 0 ELSE sign, mag |-> a]

(* A number that fits comes out of getInt64 and getUInt64 as it is, one    *)
(* that does not is refused, at both ends of either range; a conversion    *)
(* without a check yields the low bits.  The C function for unsigned       *)
(* numbers yields no wrong one, but only because it refuses them all.  The *)
(* complement all this rests on is its own inverse.                        *)
ConversionExact ==
  n = 0 /\ b = << >> => \A sign \in {-1, 1} :
    LET x == Object(sign)
        v == sign * ToNat(a)
    IN  /\ GetInt64(x) = IF v \in MinI64 .. MaxI64 THEN Success(v) ELSE Failure(MaxI64)
        /\ GetUInt64(x) = IF v \in 0 .. MaxU64 THEN Success(v) ELSE Failure(MaxU64)
        /\ ToU64(x) = v % (Base * Base)
        /\ ~CGetUInt64(x).ok
        /\ a # << >> => LET c == NotPlusOne(a, FirstNonZero(a))
                        IN  NotPlusOne(c, FirstNonZero(c)) = a

(* A comparison with an int64_t, from either side, agrees with the         *)
(* numbers, except with 2^32 - 1 and its negative, which are stored with a *)
(* leading zero word, and except that i > x answers i < x.                 *)
ComparesWithI64 ==
  n < 2 /\ Len(b) < 3 /\ ToNat(b) <= MaxI64 + 1 => \A sign \in {-1, 1} :
    LET x == Object(sign)
        v == sign * ToNat(a)
        i == IF ToNat(b) > MaxI64 \/ n % 2 = 1 THEN - ToNat(b) ELSE ToNat(b)
    IN  ToNat(b) # WordMax =>
          /\ CmpI64(x, i) < 0 <=> v < i
          /\ I64Equal(i, x) <=> i = v
          /\ I64Less(i, x) <=> i < v
          /\ I64LessOrEqual(i, x) <=> i <= v
          /\ I64MoreOrEqual(i, x) <=> i >= v
          /\ I64More(i, x) = (i > v) <=> i = v

-----------------------------------------------------------------------------
Txt == INSTANCE Text WITH WordBits <- 5

Radix == 2 .. 4
Number == ToNat(b \o a)
(* What toString writes has no leading zero and only digits of its radix   *)
(* behind the sign, and fromString reads it back, although they cut the    *)
(* numeral into blocks of different lengths from opposite ends.            *)
RoundTrip(radix) ==
  \A v \in {Number, - Number} :
    LET s == Txt!StringOf(v, radix)
    IN  /\ Txt!FromString(99, s, radix).value = v
        /\ Txt!Significant(Txt!Body(s)) = Txt!Body(s) \/ s = <<0>>
        /\ \A i \in DOMAIN Txt!Body(s) : Txt!Body(s)[i] \in 0 .. radix - 1

(* A string of digits behind at most one sign is read as its number, with  *)
(* zeros in front or not.  Of the others, those with a sign further on and *)
(* those with nothing but a sign are rejected, and whichever is rejected   *)
(* leaves the object alone.                                                *)
Reading(radix) ==
  \A body \in {b \o a, Append(b, 0)},
     sign \in {<< >>, <<Txt!Plus>>, <<Txt!Minus>>, <<1, Txt!Plus>>} :
    LET r == Txt!FromString(99, sign \o body, radix)
    IN  IF Len(sign) < 2 /\ body # << >> /\ Txt!DigitPrefix(body, radix) = body
        THEN r.value = (IF sign = <<Txt!Minus>> THEN -1 ELSE 1) * Txt!NumberOf(body, radix)
        ELSE /\ r.status \notin {"SUCCESS", "unchanged"} => r.value = 99
             /\ Len(sign) = 2 \/ body = << >> => r.status # "SUCCESS"

(* toString and fromString agree, fromString reads every numeral, and it   *)
(* leaves the object alone when it rejects a string.  It does not reject   *)
(* all that is no numeral, and this does not say so: the end from_chars    *)
(* reports is ignored, and a wrong character behind the first digit of a   *)
(* block is dropped and the string accepted as another number.             *)
TextExact == n = 0 => \A radix \in Radix : RoundTrip(radix) /\ Reading(radix)

-----------------------------------------------------------------------------
Fr == INSTANCE Fraction

(* A reduced operand of either sign over a denominator of either sign.     *)
Left == Fr!New(ToNat(a) - 6, ToNat(b)).frac
Right == Fr!New(n - 3, IF n % 2 = 0 THEN n + 1 ELSE - n).frac

Reduced(f) == f.den # 0 /\ \A d \in 2 .. Fr!Abs(f.den) :
                             f.den % d = 0 => f.num % d # 0
Equals(f, num, den) == f.num * den = num * f.den

(* Every operation yields a reduced fraction, exactly: signs in numerators *)
(* and denominators, a zero numerator and equal operands included.  The    *)
(* two decimals shown of one over a positive denominator are the true ones *)
(* exactly when the first is not 0: toDecimal writes the scaled rest       *)
(* without its leading zeros, and 1/100 as 0.1.                            *)
FractionExact ==
  b # << >> /\ Len(a) < 3 /\ Len(b) < 3 =>
    LET l == Left
        r == Right
    IN  /\ \A f \in {l, Fr!SetNum(l, n), Fr!Plus(l, r), Fr!Minus(l, r), Fr!Times(l, r),
                      Fr!Over(l, r).frac, Fr!SetDen(l, n).frac} : Reduced(f)
        /\ Equals(l, ToNat(a) - 6, ToNat(b))
        /\ Equals(Fr!Plus(l, r), l.num * r.den + r.num * l.den, l.den * r.den)
        /\ Equals(Fr!Minus(l, r), l.num * r.den - r.num * l.den, l.den * r.den)
        /\ Equals(Fr!Times(l, r), l.num * r.num, l.den * r.den)
        /\ r.num # 0 => Equals(Fr!Over(Fr!Times(l, r), r).frac, l.num, l.den)
        /\ LET rest == ((Fr!Abs(l.num) % l.den) * 100) \div l.den
           IN  n = 0 /\ l.den > 0 =>
                 (Fr!ToDecimal(l, 2).decimals = Txt!Padded(Txt!ToChars(rest, 10), 2)
                    <=> rest >= 10)

Spec == Init /\ [][Advance]_<<a, b, n>>
=============================================================================
