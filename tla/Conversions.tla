---------------------------- MODULE Conversions ----------------------------
(***************************************************************************)
(* How BigInteger, and the C functions of the same purpose, exchange       *)
(* numbers with the integer types of the machine.  A number is its sign    *)
(* and its magnitude, a 64-bit integer has two words.                      *)
(***************************************************************************)
EXTENDS Magnitude

MaxI64 == (Base * Base) \div 2 - 1
MinI64 == - MaxI64 - 1
MaxU64 == Base * Base - 1

(* static_cast<std::int64_t>(u64).                                         *)
Signed(u) == IF u > MaxI64 THEN u - Base * Base ELSE u

(* BigIntegerImpl(i): two words from WordMax on, not only above it.  The   *)
(* negation of MinI64, undefined in C++, wraps around to the same bits.    *)
OfI64(i) ==
  LET abs == IF i < 0 THEN - i ELSE i
      len == IF i = 0 THEN 0 ELSE IF abs < WordMax THEN 1 ELSE 2
  IN  [sign |-> IF i < 0 THEN -1 ELSE IF i = 0 THEN 0 ELSE 1,
       mag  |-> SubSeq(<<abs % Base, abs \div Base>>, 1, len)]

Cmp(l, r) == IF l.sign # r.sign THEN (IF l.sign < r.sign THEN -1 ELSE 1)
             ELSE l.sign * CmpMag(l.mag, r.mag)
CmpI64(l, i) == Cmp(l, OfI64(i))

(* Word k of the two's complement.                                         *)
U32(x, k) ==
  IF k >= Len(x.mag) THEN (IF x.sign = -1 THEN WordMax ELSE 0)
  ELSE IF x.sign = 1 THEN x.mag[k + 1]
  ELSE NotPlusOne(x.mag, FirstNonZero(x.mag))[k + 1]

ToU64(x) == U32(x, 0) + Base * U32(x, 1)

Failure(v) == [ok |-> FALSE, value |-> v]
Success(v) == [ok |-> TRUE, value |-> v]

(* Mutant: the lower bound is not tested.                                  *)
GetInt64Unbounded(x) == IF CmpI64(x, MaxI64) > 0 THEN Failure(MaxI64) ELSE Success(Signed(ToU64(x)))

(* getInt64, and pgbn_BigInteger_GetInt64WithChecking.                     *)
GetInt64(x) == IF CmpI64(x, MaxI64) > 0 \/ CmpI64(x, MinI64) < 0
               THEN Failure(MaxI64) ELSE Success(Signed(ToU64(x)))

(* getU64Max: the greatest signed number, doubled, with its last bit set.  *)
U64Max == LET doubled == ShlMag(OfI64(MaxI64).mag, 1)
          IN  [sign |-> 1, mag |-> [doubled EXCEPT ![1] = WordOp("or", @, 1)]]

GetUInt64(x) == IF x.sign = -1 \/ Cmp(x, U64Max) > 0
                THEN Failure(MaxU64) ELSE Success(ToU64(x))

(* pgbn_BigInteger_GetUInt64WithChecking compares with int64_t: its upper  *)
(* bound arrives as -1.                                                    *)
CGetUInt64(x) == IF CmpI64(x, Signed(MaxU64)) > 0 \/ CmpI64(x, 0) < 0
                 THEN Failure(MaxU64) ELSE Success(ToU64(x))

(* Mutant: the mirrored comparison is not turned around.                   *)
I64LessUnturned(i, x) == CmpI64(x, i) < 0

(* The operators with an int64_t on the left turn the comparison around,   *)
(* all but the fifth.                                                      *)
I64Less(i, x) == CmpI64(x, i) > 0

I64Equal(i, x)        == CmpI64(x, i) = 0
I64LessOrEqual(i, x)  == CmpI64(x, i) >= 0
I64MoreOrEqual(i, x)  == CmpI64(x, i) <= 0
I64More(i, x)         == CmpI64(x, i) > 0
=============================================================================
