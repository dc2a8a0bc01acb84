-------------------------- MODULE BigIntegerImpl --------------------------
(***************************************************************************)
(* The class BigIntegerImpl of src/BigIntegerImpl.cpp: sign flag, lazily   *)
(* computed index of the first non-zero word, and a magnitude held in a    *)
(* copy-on-write Slice.  Objects live side by side and copies share their  *)
(* vectors until one of them writes.                                       *)
(*                                                                         *)
(* A member function is an operator from the store it finds to the store   *)
(* it leaves; the intermediate stores, in which locals and arguments share *)
(* vectors, are the ones the code goes through.  The actions at the end    *)
(* call one member function each (the class is single-threaded).           *)
(***************************************************************************)
EXTENDS Magnitude, Slice, SequencesExt

CONSTANTS
  Obj,        \* the caller's objects
  I64,        \* the int64_t arguments tried
  Shift,      \* the shift counts tried
  ByteBits,   \* bits of a byte, which divide WordBits
  Bin,        \* the byte strings tried as binary images
  MaxMag,     \* bound: the largest magnitude explored
  MaxVec      \* bound: words of a vector, slack included

VARIABLES
  mem, mag, num,
  call        \* history: the member function last called, with its arguments

vars == <<mem, mag, num, call>>

(* Locals of the member functions: the temporary of an int64_t overload,   *)
(* the Slice copy of addAssign/subAssign, the product of gradeSchoolMul,   *)
(* the results and operands of div, and those of knuthDivImpl.             *)
Local == {"temp", "copy", "product", "q", "r", "dividend", "divisor",
          "uDividend", "vDivisor", "qArr"}

ASSUME NameAssumption == Name = Obj \cup Local /\ Obj \cap Local = {}

(* A magnitude is a Slice of words.                                        *)
ASSUME WordsAssumption == Data = Word

(* An int64_t has two words; assign(i64) negates it, so not INT64_MIN.      *)
ASSUME I64Assumption ==
  \A i \in I64 : i \in Int /\ - (Base * Base) < 2 * i /\ 2 * i < Base * Base

ASSUME ShiftAssumption == \A n \in Shift : n \in Nat /\ PowersUpTo(n)

(* What the provers need to know of the powers of the base.                *)
ASSUME MaxVecAssumption ==
  /\ MaxVec \in Nat /\ Base ^ 0 = 1
  /\ \A n \in 1 .. MaxVec : Base ^ n = Base ^ (n - 1) * Base

ASSUME ByteBitsAssumption == ByteBits \in Nat \ {0} /\ WordBits % ByteBits = 0

Sign == {"ZERO", "POSITIVE", "NEGATIVE"}
ZeroNum == [sign |-> "ZERO", cached |-> FALSE, nz |-> 0]

SignOf(s, x) == s.num[x].sign
Signum(s, x) == CASE SignOf(s, x) = "POSITIVE" -> 1
                  [] SignOf(s, x) = "ZERO" -> 0
                  [] OTHER -> -1
Value(s, x) == Signum(s, x) * ToNat(Words(s, x))

(* The store a member function starts from: the objects, no local yet.     *)
st == [mem |-> mem,
       mag |-> [x \in Name |-> IF x \in Obj THEN mag[x] ELSE Dead],
       num |-> [x \in Name |-> IF x \in Obj THEN num[x] ELSE ZeroNum]]

-----------------------------------------------------------------------------
(* Flags and cache.                                                        *)
SetFlags(s, x, sign) == [s EXCEPT !.num[x].sign = sign]

FlagsFor(same) == IF same THEN "POSITIVE" ELSE "NEGATIVE"

(* Mutant: a write keeps the cached index.                                 *)
BeginWriteKeepingCache(s, x) == s

(* The index is not reset by the code; nothing reads it until the flag is  *)
(* set again, so that it is forgotten here.                                *)
BeginWrite(s, x) == [s EXCEPT !.num[x].cached = FALSE, !.num[x].nz = 0]

FirstNonZeroU32Index(s, x) ==
  IF s.num[x].cached THEN s.num[x].nz ELSE FirstNonZero(Words(s, x))

GetFirstNonZeroU32Index(s, x) ==
  [s EXCEPT !.num[x].cached = TRUE, !.num[x].nz = FirstNonZeroU32Index(s, x)]

BeZero(s, x) == [NewSlice(s, x) EXCEPT !.num[x] = ZeroNum]

ZeroIfEmpty(s, x) == IF Count(s, x) = 0 THEN BeZero(s, x) ELSE s

BeUnit(s, x, sign) ==
  [Append_(NewSlice(s, x), x, 1) EXCEPT
     !.num[x] = [sign |-> sign, cached |-> TRUE, nz |-> 0]]

(* Mutant: the first non-zero word is complemented, not negated.           *)
U32WithoutPlusOne(s, x, n) ==
  LET w == Words(s, x)[n + 1]
  IN  CASE SignOf(s, x) = "ZERO" -> 0
        [] SignOf(s, x) # "ZERO" /\ n >= Count(s, x) ->
             IF SignOf(s, x) = "NEGATIVE" THEN WordMax ELSE 0
        [] SignOf(s, x) = "POSITIVE" /\ n < Count(s, x) -> w
        [] OTHER -> IF n >= FirstNonZeroU32Index(s, x) THEN WordMax - w ELSE 0

(* Word n of the two's complement; asking a negative object for one of its *)
(* own words fills its cache, const or not.                                *)
U32(s, x, n) ==
  LET w == Words(s, x)[n + 1]
      f == FirstNonZeroU32Index(s, x)
  IN  CASE SignOf(s, x) = "ZERO" -> 0
        [] SignOf(s, x) # "ZERO" /\ n >= Count(s, x) ->
             IF SignOf(s, x) = "NEGATIVE" THEN WordMax ELSE 0
        [] SignOf(s, x) = "POSITIVE" /\ n < Count(s, x) -> w
        [] OTHER -> IF n > f THEN WordMax - w
                    ELSE IF n < f THEN 0 ELSE (- w) % Base

GetU32(s, x, n) == IF SignOf(s, x) = "NEGATIVE" /\ n < Count(s, x)
                   THEN GetFirstNonZeroU32Index(s, x) ELSE s

-----------------------------------------------------------------------------
(* The magnitude kernels on the Slice they are applied to.                 *)
EraseZeros(s, x) == SubSlice(s, x, 0, TopWord(Words(s, x)))

(* a.slice(0, len), the words rewritten, a last carry word appended.       *)
Store(s, x, len, r) ==
  LET t == Overwrite(SubSlice(s, x, 0, len), x, SubSeq(r, 1, len))
  IN  IF Len(r) > len THEN Append_(t, x, r[len + 1]) ELSE t

AddMagTo(s, x, y) ==
  Store(s, x, Max({Count(s, x), Count(s, y)}), AddMag(Words(s, x), Words(s, y)))

SubMagFrom(s, x, y) == Overwrite(s, x, SubMag(Words(s, x), Words(s, y)))

MulMagBy(s, x, w) ==
  Store(s, x, Count(s, x), GradSchoolMulInplace(Words(s, x), w))

IncMagOf(s, x) == Store(s, x, Count(s, x), IncMag(Words(s, x)))

DecMagOf(s, x) ==
  EraseZeros(Overwrite(s, x, Ripple(Words(s, x), -1).words), x)

ShlMagOf(s, x, n) ==
  IF n % WordBits = 0 THEN PreExtend(s, x, n \div WordBits)
  ELSE LET r == ShlMag(Words(s, x), n) IN Store(s, x, Len(r), r)

(* The dropped top word is left in the vector, above the window.           *)
ShrMagOf(s, x, n) ==
  LET words == n \div WordBits
      r     == ShrMag(Words(s, x), n)
  IN  IF words >= Count(s, x) THEN SubSlice(s, x, 0, 0)
      ELSE SubSlice(Overwrite(SubSlice(s, x, words, Count(s, x)), x, r), x, 0, Len(r))

-----------------------------------------------------------------------------
(* Assignments.                                                            *)
CopyConstruct(s, x, y) == [CopySlice(s, x, y) EXCEPT !.num[x] = s.num[y]]

Assign(s, x, y) == IF x = y THEN s ELSE CopyConstruct(s, x, y)

(* assign(BigIntegerImpl &&): the code only ever moves from a local that   *)
(* dies next, so its INVALID flags are not kept.                           *)
MoveAssign(s, x, y) == [MoveSlice(s, x, y) EXCEPT !.num[x] = s.num[y]]

Abs(i) == IF i < 0 THEN - i ELSE i

(* A magnitude takes the short form only below WordMax, not up to it.      *)
AssignI64(s, x, i) ==
  LET t   == CloneData(BeginWrite(s, x), x)
      len == IF Abs(i) < WordMax THEN 1 ELSE 2
  IN  IF i = 0 THEN SetFlags(SubSlice(t, x, 0, 0), x, "ZERO")
      ELSE SetFlags(Overwrite(SubSlice(t, x, 0, len), x,
                              SubSeq(<<Abs(i) % Base, Abs(i) \div Base>>, 1, len)),
                    x, FlagsFor(i > 0))

(* assign(bin, len, little): sign bytes are stripped from the significant  *)
(* end, the rest of a negative image is complemented and packed into words.*)
(* A rest of zeros (minus a power of two) becomes a one above its words.   *)
ByteMax == 2 ^ ByteBits - 1
BytesPerWord == WordBits \div ByteBits

ComplementBytes(bytes) ==
  LET first == Min({i \in DOMAIN bytes : bytes[i] # 0})
  IN  [i \in DOMAIN bytes |-> IF i < first THEN 0
                             ELSE IF i = first THEN ByteMax + 1 - bytes[i]
                             ELSE ByteMax - bytes[i]]

PackBytes(bytes, len) ==
  [k \in 1 .. len |-> MapThenSumSet(LAMBDA i : Digit(bytes, (k - 1) * BytesPerWord + i + 1)
                                                * 2 ^ (ByteBits * i),
                                   0 .. BytesPerWord - 1)]

AssignBin(s, x, bin, little) ==
  LET bytes  == IF little THEN bin ELSE Reverse(bin)
      neg    == bytes[Len(bytes)] > ByteMax \div 2
      signed == IF neg THEN ByteMax ELSE 0
      kept   == SubSeq(bytes, 1, Max({0} \cup {i \in DOMAIN bytes : bytes[i] # signed}))
      len    == (Len(kept) + BytesPerWord - 1) \div BytesPerWord
      t      == CloneData(BeginWrite(s, x), x)
      clear  == Overwrite(SubSlice(t, x, 0, len), x, Zeros(len))
      read   == EraseZeros(Overwrite(clear, x,
                  PackBytes(IF neg THEN ComplementBytes(kept) ELSE kept, len)), x)
  IN  CASE bin = << >> \/ (kept = << >> /\ ~neg) -> SetFlags(SubSlice(t, x, 0, 0), x, "ZERO")
        [] OTHER ->
             IF kept = << >>
             THEN SetFlags(Overwrite(SubSlice(t, x, 0, 1), x, <<1>>), x, "NEGATIVE")
             ELSE IF neg /\ \A i \in DOMAIN kept : kept[i] = 0
             THEN SetFlags(Append_(clear, x, 1), x, "NEGATIVE")
             ELSE IF Count(read, x) = 0 THEN BeZero(read, x)
             ELSE SetFlags(read, x, FlagsFor(~neg))

SwapWith(s, x, y) ==
  [SwapSlices(s, x, y) EXCEPT !.num[x] = s.num[y], !.num[y] = s.num[x]]

-----------------------------------------------------------------------------
(* Sign changes keep the cache: it is about the magnitude.                 *)
Negate(s, x) ==
  CASE SignOf(s, x) = "ZERO" -> s
    [] SignOf(s, x) = "POSITIVE" -> SetFlags(s, x, "NEGATIVE")
    [] SignOf(s, x) = "NEGATIVE" -> SetFlags(s, x, "POSITIVE")

AbsSelf(s, x) == IF SignOf(s, x) = "NEGATIVE" THEN Negate(s, x) ELSE s

(* inc and dec: step is +1 or -1.                                          *)
StepBy(s, x, step) ==
  LET t == CloneData(BeginWrite(s, x), x)
  IN  IF Signum(t, x) = 0 THEN BeUnit(t, x, FlagsFor(step = 1))
      ELSE IF Signum(t, x) = step THEN IncMagOf(t, x)
      ELSE ZeroIfEmpty(DecMagOf(t, x), x)

(* weakEquals: the same window of the same vector.                         *)
WeakEquals(s, x, y) == s.mag[x] = s.mag[y]

(* Mutant: negative objects are ordered by magnitude.                      *)
CmpIgnoringSign(s, x, y) ==
  IF Signum(s, x) # Signum(s, y) THEN (IF Signum(s, x) < Signum(s, y) THEN -1 ELSE 1)
  ELSE IF Signum(s, x) = 0 \/ WeakEquals(s, x, y) THEN 0
  ELSE CmpMag(Words(s, x), Words(s, y))

Cmp(s, x, y) ==
  LET c == CmpMag(Words(s, x), Words(s, y))
  IN  IF Signum(s, x) # Signum(s, y) THEN (IF Signum(s, x) < Signum(s, y) THEN -1 ELSE 1)
      ELSE IF Signum(s, x) = 0 \/ WeakEquals(s, x, y) \/ c = 0 THEN 0
      ELSE Signum(s, x) * c

(* Where addAssign and subAssign come together: x's magnitude becomes the  *)
(* difference, computed in place or in a private copy of y's.              *)
Difference(s, x, y) ==
  LET c    == CmpMag(Words(s, x), Words(s, y))
      mine == CloneData(s, x)
      copy == CloneData(CopySlice(s, "copy", y), "copy")
      t    == IF c > 0 THEN SubMagFrom(mine, x, y)
              ELSE CopySlice(SubMagFrom(copy, "copy", x), x, "copy")
  IN  IF c = 0 THEN BeZero(s, x)
      ELSE SetFlags(EraseZeros(t, x), x, FlagsFor(Signum(s, x) = c))

AddAssign(s, x, y) ==
  LET t == BeginWrite(s, x)
  IN  CASE SignOf(s, y) = "ZERO" -> s
        [] SignOf(s, y) # "ZERO" /\ SignOf(s, x) = "ZERO" -> Assign(s, x, y)
        [] OTHER -> IF SignOf(s, x) = SignOf(s, y) THEN AddMagTo(CloneData(t, x), x, y)
                    ELSE Difference(t, x, y)

SubAssign(s, x, y) ==
  LET t == BeginWrite(s, x)
  IN  CASE SignOf(s, y) = "ZERO" -> s
        [] SignOf(s, y) # "ZERO" /\ SignOf(s, x) = "ZERO" -> Negate(Assign(s, x, y), x)
        [] OTHER ->
             IF x = y \/ (SignOf(s, x) = SignOf(s, y) /\ WeakEquals(s, x, y))
             THEN BeZero(s, x)
             ELSE IF SignOf(s, x) # SignOf(s, y) THEN AddMagTo(CloneData(t, x), x, y)
             ELSE Difference(t, x, y)
-----------------------------------------------------------------------------
(* Multiplication below KARATSUBA_THRESHOLD words.                         *)
IsUnit(s, x, sign) == SignOf(s, x) = sign /\ Words(s, x) = <<1>>

MulAssign(s, x, y) ==
  LET t  == SetFlags(BeginWrite(s, x), x, FlagsFor(SignOf(s, x) = SignOf(s, y)))
      w  == Words(s, x)[1]
      p  == GradeSchoolMul(Words(s, x), Words(s, y))
      np == NewSlice(t, "product")
      pr == Overwrite(SubSlice(np, "product", 0, Len(p)), "product", p)
  IN  IF SignOf(s, x) = "ZERO" \/ SignOf(s, y) = "ZERO" THEN BeZero(s, x)
      ELSE CASE IsUnit(s, y, "POSITIVE") -> s
             [] IsUnit(s, y, "NEGATIVE") -> Negate(s, x)
             [] OTHER ->
                CASE IsUnit(s, x, "POSITIVE") -> Assign(s, x, y)
                  [] IsUnit(s, x, "NEGATIVE") -> Negate(Assign(s, x, y), x)
                  [] OTHER ->
                     IF Count(s, y) = 1 THEN MulMagBy(CloneData(t, x), x, Words(s, y)[1])
                     ELSE IF Count(s, x) = 1
                          THEN MulMagBy(CloneData(CopySlice(t, x, y), x), x, w)
                     ELSE EraseZeros(MoveSlice(pr, x, "product"), x)

-----------------------------------------------------------------------------
(* Division.  The divisor is not zero: DIVBY0 ends the process.            *)

(* q divided by the word w in place, the remainder assigned to r.          *)
DivideAssignAndReminderByU32(s, q, w, r) ==
  LET t    == CloneData(BeginWrite(s, q), q)
      d    == DivideByWord(Words(t, q), w)
      quot == EraseZeros(Overwrite(t, q, d.q), q)
      sgn  == FlagsFor(SignOf(s, q) = "POSITIVE")
      done == IF Count(quot, q) = 0 THEN BeZero(quot, q) ELSE SetFlags(quot, q, sgn)
      rem  == AssignI64(done, r, d.r)
  IN  CASE SignOf(s, q) = "ZERO" -> BeZero(s, r)
        [] SignOf(s, q) # "ZERO" /\ w = 1 -> SetFlags(BeZero(s, r), q, sgn)
        [] OTHER -> IF d.r = 0 THEN rem ELSE SetFlags(rem, r, sgn)

ShiftLeftAssign(s, x, n) ==
  IF SignOf(s, x) = "ZERO" \/ n = 0 THEN s
  ELSE ShlMagOf(CloneData(BeginWrite(s, x), x), x, n)

(* Mutant: only the lowest word is searched for a lost bit.                *)
LostOneInWord(s, x, n) ==
  SignOf(s, x) = "NEGATIVE" /\ Words(s, x)[1] % 2 ^ (n % WordBits) # 0

(* Rounds towards minus infinity: a negative object that loses a one bit   *)
(* is incremented in magnitude.                                            *)
LostOne(s, x, n) ==
  /\ SignOf(s, x) = "NEGATIVE"
  /\ ToNat(Words(s, x)) % 2 ^ n # 0

(* Mutant: the window is shifted without cloning its vector.               *)
ShiftRightInPlace(s, x, n) ==
  LET t    == ShrMagOf(BeginWrite(s, x), x, n)
      neg  == SignOf(s, x) = "NEGATIVE"
  IN  IF SignOf(s, x) = "ZERO" \/ n = 0 THEN s
      ELSE IF Count(t, x) = 0
      THEN (IF neg THEN BeUnit(t, x, "NEGATIVE") ELSE BeZero(t, x))
      ELSE IF LostOne(s, x, n) THEN IncMagOf(t, x) ELSE t

ShiftRightAssign(s, x, n) ==
  LET t    == ShrMagOf(CloneData(BeginWrite(s, x), x), x, n)
      lost == LostOne(s, x, n)
      neg  == SignOf(s, x) = "NEGATIVE"
  IN  CASE SignOf(s, x) = "ZERO" \/ n = 0 -> s
        [] OTHER ->
             IF n \div WordBits >= Count(s, x)
             THEN (IF neg THEN BeUnit(s, x, "NEGATIVE") ELSE BeZero(s, x))
             ELSE IF Count(t, x) = 0
             THEN (IF lost THEN BeUnit(t, x, "NEGATIVE") ELSE BeZero(t, x))
             ELSE IF lost THEN IncMagOf(t, x) ELSE t

(* The loop's results: the dividend reduced in place, the quotient in q.   *)
(* The flags of q and r are set without freeing their caches.              *)
StoreDigits(s, digits, q, r) ==
  LET t == NewSlice(Overwrite(s, "uDividend", digits.u), "qArr")
      d == Overwrite(SubSlice(t, "qArr", 0, Len(digits.q)), "qArr", digits.q)
      f == SetFlags(SetFlags(d, q, "POSITIVE"), r, "POSITIVE")
  IN  MoveSlice(EraseZeros(f, "qArr"), q, "qArr")

KnuthDigits(s, q, r) ==
  StoreDigits(s, KnuthLoop(Words(s, "uDividend"), Words(s, "vDivisor")), q, r)

(* The copies of u and v are normalised by a shift, which clones them; if  *)
(* no shift is needed they still share, and u's vector is written to.      *)
KnuthDivImpl(s, q, r, u, v) ==
  LET lsh    == NormShift(Words(s, v))
      copies == CopyConstruct(CopyConstruct(s, "uDividend", u), "vDivisor", v)
      scaled == ShiftLeftAssign(ShiftLeftAssign(copies, "uDividend", lsh), "vDivisor", lsh)
      solved == KnuthDigits(Append_(scaled, "uDividend", 0), q, r)
      rest   == ShiftRightAssign(EraseZeros(solved, "uDividend"), "uDividend", lsh)
  IN  ZeroIfEmpty(MoveSlice(rest, r, "uDividend"), r)

(* div(q, r, a, b): truncating division, the remainder takes a's sign.     *)
SetUnlessZero(s, x, sign) == IF SignOf(s, x) = "ZERO" THEN s ELSE SetFlags(s, x, sign)

(* The dividend gets a zero word if it is not longer than the divisor.     *)
AsLong(s) == IF Count(s, "dividend") = Count(s, "divisor")
             THEN Append_(s, "dividend", 0) ELSE s

Div(s, q, r, a, b) ==
  LET s1   == SetFlags(CopyConstruct(s, "dividend", a), "dividend", "POSITIVE")
      s2   == SetFlags(CopyConstruct(s1, "divisor", b), "divisor", "POSITIVE")
      same == FlagsFor(SignOf(s, a) = SignOf(s, b))
      c    == Cmp(s2, "dividend", "divisor")
      q1   == Assign(s2, q, a)
      qr   == DivideAssignAndReminderByU32(q1, q, Words(q1, b)[1], r)
      kn   == KnuthDivImpl(AsLong(CloneData(BeginWrite(s2, "dividend"), "dividend")),
                           q, r, "dividend", "divisor")
  IN  CASE SignOf(s, a) = "ZERO" -> BeZero(BeZero(s2, q), r)
        [] SignOf(s, a) # "ZERO" /\ Count(s, b) = 1 ->
             SetUnlessZero(SetUnlessZero(qr, q, same), r, SignOf(s, a))
        [] OTHER ->
             IF c = 0 THEN BeZero(BeUnit(s2, q, same), r)
             ELSE IF c < 0 THEN SetFlags(Assign(BeZero(s2, q), r, "dividend"), r, SignOf(s, a))
             ELSE SetUnlessZero(SetFlags(kn, q, same), r, SignOf(s, a))

(* Whether a division comes to an end: with a zero top word in a divisor   *)
(* of two words the normalising loop of knuthDivImpl never does.           *)
DivisorOK(s, y) == SignOf(s, y) # "ZERO" /\ Words(s, y)[Count(s, y)] # 0

DivAssign(s, x, y) ==
  MoveAssign(Div(BeZero(BeZero(s, "r"), "q"), "q", "r", x, y), x, "q")

DivideAssignAndReminder(s, x, y, r) ==
  MoveAssign(Div(BeZero(s, "q"), "q", r, x, y), x, "q")

ModAssignAndQuotient(s, x, y, q) ==
  MoveAssign(Div(BeZero(s, "r"), q, "r", x, y), x, "r")

-----------------------------------------------------------------------------
(* Bitwise operations: x takes one word more than the longer operand, is   *)
(* rewritten word by word in two's complement, and read back according to  *)
(* its top word.  A top word that is no sign extension is "Not Reached".   *)
FromTwosComplement(s, x, words) ==
  LET t    == Overwrite(s, x, words)
      top  == words[Len(words)]
      pos  == BeginWrite(EraseZeros(SetFlags(t, x, "POSITIVE"), x), x)
      neg  == GetFirstNonZeroU32Index(BeginWrite(SetFlags(t, x, "NEGATIVE"), x), x)
      mgn  == NotPlusOne(words, FirstNonZeroU32Index(neg, x))
  IN  CASE top = 0 -> IF Count(pos, x) = 0 THEN SetFlags(pos, x, "ZERO") ELSE pos
        [] top = WordMax -> EraseZeros(Overwrite(neg, x, mgn), x)
        [] OTHER -> t

(* m_mag.cloneData(); getU32(0); m_mag.slice(0, len).                      *)
Widened(s, x, len) == SubSlice(GetU32(CloneData(s, x), x, 0), x, 0, len)

BitwiseAssign(s, op, x, y) ==
  LET len == Max({Count(s, x), Count(s, y)}) + 1
      t   == GetU32(Widened(s, x, len), y, 0)
  IN  FromTwosComplement(t, x, [i \in 1 .. len |-> WordOp(op, U32(t, x, i - 1), U32(t, y, i - 1))])

U32OfI64ByIndex(i, n) == (i \div Base ^ n) % Base

BitwiseAssignI64(s, op, x, i) ==
  LET len == Max({Count(s, x), 2}) + 1
      t   == Widened(s, x, len)
  IN  FromTwosComplement(t, x, [k \in 1 .. len |->
                                  WordOp(op, U32(t, x, k - 1), U32OfI64ByIndex(i, k - 1))])

NotSelf(s, x) ==
  LET len == Count(s, x) + 1
      t   == Widened(s, x, len)
  IN  FromTwosComplement(t, x, [i \in 1 .. len |-> WordMax - U32(t, x, i - 1)])

(* Inverts the magnitude below its leading one, in place.                  *)
NotBits(s, x) ==
  LET t == CloneData(BeginWrite(s, x), x)
      w == Words(t, x)
      n == Len(w)
      ones(v) == Max({0} \cup {2 ^ k - 1 : k \in {b \in 1 .. WordBits : 2 ^ (b - 1) <= v}})
  IN  IF SignOf(s, x) = "ZERO" THEN s
      ELSE Overwrite(t, x, [i \in 1 .. n |-> IF i < n THEN WordMax - w[i] ELSE ones(w[n]) - w[n]])
-----------------------------------------------------------------------------
(* A member function returns: its locals are destroyed, and with them the  *)
(* vectors that only they pointed to.                                      *)
Leave(s) ==
  [mem |-> [p \in Addr |-> IF \E x \in Obj : s.mag[x].ptr = p THEN s.mem[p] ELSE << >>],
   mag |-> [x \in Obj |-> s.mag[x]],
   num |-> [x \in Obj |-> s.num[x]]]

(* Bounds: results of a magnitude above MaxMag, and vectors that have      *)
(* collected slack beyond MaxVec words, are not explored.                  *)
Fits(s) == \A x \in Obj : Len(Vec(s, x)) <= MaxVec /\ ToNat(Words(s, x)) <= MaxMag

Return(s, c) == LET t == Leave(s)
                IN  /\ Fits(t)
                    /\ mem' = t.mem
                    /\ mag' = t.mag
                    /\ num' = t.num
                    /\ call' = c

(* BigIntegerImpl temp(i64), which the int64_t overloads start with.       *)
TempOf(i) == AssignI64(BeZero(st, "temp"), "temp", i)

(* Default-constructed objects, each with its own empty vector.            *)
Place == CHOOSE p \in [Obj -> Addr] : \A x, y \in Obj : p[x] = p[y] => x = y

Init ==
  /\ mem = [a \in Addr |-> IF \E x \in Obj : Place[x] = a
                           THEN Zeros(2 * DefaultPreSpace) ELSE << >>]
  /\ mag = [x \in Obj |-> [ptr |-> Place[x], lo |-> DefaultPreSpace, hi |-> DefaultPreSpace]]
  /\ num = [x \in Obj |-> ZeroNum]
  /\ call = <<"none">>

-----------------------------------------------------------------------------
(* Construction, copies and reads.                                         *)
Construct(x)        == Return(BeZero(st, x), <<"zero", x>>)
AssignOther(x, y)   == x # y /\ Return(Assign(st, x, y), <<"assign", x, y>>)
AssignInt(x, i)     == Return(AssignI64(st, x, i), <<"assignI64", x, i>>)
AssignBinary(x, b, little) ==
  Return(AssignBin(st, x, b, little), <<"assignBin", x, <<b, little>>>>)
Swap(x, y)          == x # y /\ Return(SwapWith(st, x, y), <<"swap", x, y>>)
ReadU32(x)          == Return(GetU32(st, x, 0), <<"read", x>>)

(* Arithmetic.                                                             *)
NegateSelf(x)       == Return(Negate(st, x), <<"negate", x>>)
AbsoluteSelf(x)     == Return(AbsSelf(st, x), <<"abs", x>>)
Inc(x)              == Return(StepBy(st, x, 1), <<"inc", x>>)
Dec(x)              == Return(StepBy(st, x, -1), <<"dec", x>>)
Add(x, y)           == Return(AddAssign(st, x, y), <<"add", x, y>>)
Sub(x, y)           == Return(SubAssign(st, x, y), <<"sub", x, y>>)
Mul(x, y)           == Return(MulAssign(st, x, y), <<"mul", x, y>>)
AddI64(x, i)        == Return(AddAssign(TempOf(i), x, "temp"), <<"addI64", x, i>>)
SubI64(x, i)        == Return(SubAssign(TempOf(i), x, "temp"), <<"subI64", x, i>>)
MulI64(x, i)        == Return(MulAssign(TempOf(i), x, "temp"), <<"mulI64", x, i>>)
ShiftLeft(x, n)     == Return(ShiftLeftAssign(st, x, n), <<"shl", x, n>>)
ShiftRight(x, n)    == Return(ShiftRightAssign(st, x, n), <<"shr", x, n>>)

(* Division: the second result is an object that is no operand.            *)
Divide(x, y) ==
  DivisorOK(st, y) /\ Return(DivAssign(st, x, y), <<"div", x, y>>)
DivideI64(x, i) ==
  DivisorOK(TempOf(i), "temp") /\ Return(DivAssign(TempOf(i), x, "temp"), <<"divI64", x, i>>)
DivRem(x, y, r) ==
  /\ r \notin {x, y} /\ DivisorOK(st, y)
  /\ Return(DivideAssignAndReminder(st, x, y, r), <<"divrem", x, y, r>>)
ModQuot(x, y, q) ==
  /\ q \notin {x, y} /\ DivisorOK(st, y)
  /\ Return(ModAssignAndQuotient(st, x, y, q), <<"modquot", x, y, q>>)
DivRemI64(x, i, r) ==
  /\ r # x /\ DivisorOK(TempOf(i), "temp")
  /\ Return(DivideAssignAndReminder(TempOf(i), x, "temp", r), <<"divremI64", x, i, r>>)
ModQuotI64(x, i, q) ==
  /\ q # x /\ DivisorOK(TempOf(i), "temp")
  /\ Return(ModAssignAndQuotient(TempOf(i), x, "temp", q), <<"modquotI64", x, i, q>>)

(* Bits.                                                                   *)
BitOps == {"and", "or", "xor"}

Bitwise(op, x, y)    == Return(BitwiseAssign(st, op, x, y), <<op, x, y>>)
BitwiseI64(op, x, i) == Return(BitwiseAssignI64(st, op, x, i), <<op, x, i>>)
Not(x)               == Return(NotSelf(st, x), <<"not", x>>)
InvertBits(x)        == Return(NotBits(st, x), <<"notBits", x>>)

-----------------------------------------------------------------------------
(* The calls by family: a client makes those of some of them.              *)
Constructors ==
  \E x \in Obj : \/ Construct(x)
                \/ \E i \in I64 : AssignInt(x, i)
                \/ \E y \in Obj : AssignOther(x, y) \/ Swap(x, y)

Decodings == \E x \in Obj, b \in Bin, little \in BOOLEAN : AssignBinary(x, b, little)

Signs == \E x \in Obj : ReadU32(x) \/ NegateSelf(x) \/ AbsoluteSelf(x)

Sums ==
  \E x \in Obj : \/ Inc(x) \/ Dec(x)
                \/ \E y \in Obj : Add(x, y) \/ Sub(x, y)
                \/ \E i \in I64 : AddI64(x, i) \/ SubI64(x, i)

Products ==
  \E x \in Obj : \/ \E y \in Obj : Mul(x, y)
                \/ \E i \in I64 : MulI64(x, i)
                \/ \E n \in Shift : ShiftLeft(x, n) \/ ShiftRight(x, n)

Quotients ==
  \E x \in Obj : \/ \E y \in Obj : Divide(x, y)
                \/ \E i \in I64 : DivideI64(x, i)

Remainders ==
  \E x, r \in Obj : \/ \E y \in Obj : DivRem(x, y, r) \/ ModQuot(x, y, r)
                   \/ \E i \in I64 : DivRemI64(x, i, r) \/ ModQuotI64(x, i, r)

Bits ==
  \E x \in Obj : \/ Not(x)
                \/ \E op \in BitOps : \/ \E y \in Obj : Bitwise(op, x, y)
                                      \/ \E i \in I64 : BitwiseI64(op, x, i)

Inversions == \E x \in Obj : InvertBits(x)

Next == \/ Constructors \/ Decodings \/ Signs \/ Sums \/ Products \/ Quotients
        \/ Remainders \/ Bits \/ Inversions

Spec == Init /\ [][Next]_vars

(* A client that neither works on bits nor loads binary images.            *)
Arithmetic == Constructors \/ Signs \/ Sums \/ Products
Calculations == Arithmetic \/ Quotients \/ Remainders
CalculatingSpec == Init /\ [][Calculations]_vars

(* One that takes the second result of a division only in objects without  *)
(* a cached index, which div() would leave there.                          *)
Unindexed == Remainders /\ ~ num[call'[4]].cached
ReadingSpec == Init /\ [][Arithmetic \/ Quotients \/ Unindexed]_vars
-----------------------------------------------------------------------------
(* Types: flags and cache of every object, windows inside their vectors.   *)
TypeOK ==
  /\ mem \in [Addr -> Seq(Word)]
  /\ num \in [Obj -> [sign : Sign, cached : BOOLEAN, nz : Nat]]
  /\ mag \in [Obj -> [ptr : Addr, lo : Nat, hi : Nat]]
  /\ \A x \in Obj : mag[x].lo <= mag[x].hi /\ mag[x].hi <= Len(mem[mag[x].ptr])

(* Every sequence of calls, whatever the objects share, does to the        *)
(* objects' integers exactly what the calls say, and nothing to the others.*)
Integers == INSTANCE IntegerStore WITH val <- [x \in Obj |-> Value(st, x)]
ImplementsIntegers == Integers!Spec

(* Zero is the empty magnitude, and magnitudes have no leading zero word   *)
(* (BigIntegerImpl.h, m_mag): cmpMag, isOne and the choice between short   *)
(* and long division rely on it.                                           *)
Normalised ==
  \A x \in Obj : LET w == Words(st, x)
                 IN  /\ SignOf(st, x) = "ZERO" <=> w = << >>
                     /\ w # << >> => w[Len(w)] # 0

(* What getU32 reads, through a cache that copies, negations and writes    *)
(* may have left behind, is the word of the integer's two's complement.    *)
ReadsExact ==
  \A x \in Obj, n \in 0 .. MaxVec :
    U32(st, x, n) = (Value(st, x) \div Base ^ n) % Base

(* cmp, with its shortcut for equal windows, orders objects as integers.   *)
ComparesExact ==
  \A x, y \in Obj : LET d == Value(st, x) - Value(st, y)
                    IN  Cmp(st, x, y) = (IF d < 0 THEN -1 ELSE IF d = 0 THEN 0 ELSE 1)

(* The objects a call may write.                                           *)
Written(c) == IF c[1] = "swap" THEN {c[2], c[3]}
              ELSE IF Len(c) = 4 THEN {c[2], c[4]} ELSE {c[2]}

(* Copy on write: no call changes the sign or a word of an object it was   *)
(* not asked to write, even one that shared its vector with the target.    *)
CopyOnWrite ==
  [][\A x \in Obj \ Written(call') : /\ Words(st, x)' = Words(st, x)
                                     /\ SignOf(st, x)' = SignOf(st, x)]_vars
=============================================================================
