-------------------------------- MODULE Text --------------------------------
(***************************************************************************)
(* fromString and toString of src/BigIntegerImpl.cpp.  A character is its  *)
(* value as a digit, or a sign; one that is no digit in the radix at hand  *)
(* (a letter, a space, a dot) is any number from the radix up.  An integer *)
(* stands for the object: what mulAssign, addAssign and the division do to *)
(* it is the business of BigIntegerImpl.  Numerals of 2^32 bits and more,  *)
(* which fromString rejects, are left out.                                 *)
(***************************************************************************)
EXTENDS Integers, Sequences, FiniteSetsExt

CONSTANT WordBits       \* 32; at least 3, or no block of radix 3 has a digit

Plus == -1
Minus == -2

(* The tables: as many digits as are sure to fit bits - 1 bits.            *)
DigitsIn(bits, radix) == Max({k \in 1 .. bits : radix ^ k < 2 ^ (bits - 1)})
GetDigitCountPerU32(radix) == DigitsIn(WordBits, radix)
GetU32BlockRadix(radix) == radix ^ GetDigitCountPerU32(radix)
GetDigitCountPerU64(radix) == DigitsIn(2 * WordBits, radix)
GetU64BlockRadix(radix) == radix ^ GetDigitCountPerU64(radix)

NumberOf(digits, radix) ==
  LET horner[i \in 0 .. Len(digits)] ==
        IF i = 0 THEN 0 ELSE horner[i - 1] * radix + digits[i]
  IN  horner[Len(digits)]

(* std::from_chars converts the longest prefix of digits; an error only if *)
(* there is none.  Its end pointer is never looked at.                     *)
DigitPrefix(s, radix) ==
  SubSeq(s, 1, Max({k \in 0 .. Len(s) : \A i \in 1 .. k : s[i] \in 0 .. radix - 1}))
FromChars(s, radix) == [ok    |-> DigitPrefix(s, radix) # << >>,
                        value |-> NumberOf(DigitPrefix(s, radix), radix)]

(* std::to_chars: no leading zeros, at least one digit.                    *)
ToChars(v, radix) ==
  LET digits[x \in Nat] == IF x < radix THEN <<x>>
                           ELSE Append(digits[x \div radix], x % radix)
  IN  digits[v]

-----------------------------------------------------------------------------
FindLastOf(s, c) == Max({0} \cup {i \in DOMAIN s : s[i] = c})

(* A sign anywhere but in front, or one of each.                           *)
SigInvalid(s) == \/ FindLastOf(s, Minus) > 1
                 \/ FindLastOf(s, Plus) > 1
                 \/ FindLastOf(s, Minus) = 1 /\ FindLastOf(s, Plus) # 0

Body(s) == IF s[1] \in {Plus, Minus} THEN Tail(s) ELSE s

(* From the first character that is not a 0; empty for a string of zeros.  *)
Significant(s) ==
  LET first == Min({Len(s) + 1} \cup {i \in DOMAIN s : s[i] # 0})
  IN  SubSeq(s, first, Len(s))

(* Blocks of size characters; the first one takes what is left over.       *)
Blocks(s, size) ==
  LET n == (Len(s) + size - 1) \div size
  IN  [i \in 1 .. n |-> SubSeq(s, Max({0, Len(s) - (n - i + 1) * size}) + 1,
                                  Len(s) - (n - i) * size)]

Converted(s, radix) ==
  [i \in DOMAIN Blocks(s, GetDigitCountPerU32(radix)) |->
     FromChars(Blocks(s, GetDigitCountPerU32(radix))[i], radix)]

(* mulAssign and addAssign for each block.                                 *)
Assembled(s, radix) ==
  NumberOf([i \in DOMAIN Converted(s, radix) |-> Converted(s, radix)[i].value],
           GetU32BlockRadix(radix))

ErrorIn(s, radix) ==
  IF radix \notin 2 .. 36 THEN "RADIX_INVALID"
  ELSE IF s = << >> THEN "NUMBER_STRING_EMPTY"
  ELSE IF SigInvalid(s) THEN "NUMBER_STRING_SIG_INVALID"
  ELSE IF Body(s) = << >> THEN "NUMBER_STRING_EMPTY"
  ELSE IF \E i \in DOMAIN Converted(Significant(Body(s)), radix) :
             ~ Converted(Significant(Body(s)), radix)[i].ok
       THEN "NUMBER_STRING_PARSE2NUM_ERROR"
  ELSE "SUCCESS"

(* Mutant: the object is emptied before the string is checked.             *)
FromStringClearing(old, s, radix) ==
  LET value == Assembled(Significant(Body(s)), radix)
  IN  [value |-> IF ErrorIn(s, radix) # "SUCCESS" THEN 0
                 ELSE IF s[1] = Minus THEN - value ELSE value,
       status |-> ErrorIn(s, radix)]

(* The object afterwards and the status set: none for a string of zeros,   *)
(* which returns early (ok is not written either).                         *)
FromString(old, s, radix) ==
  LET error == ErrorIn(s, radix)
      value == Assembled(Significant(Body(s)), radix)
  IN  IF error # "SUCCESS" THEN [value |-> old, status |-> error]
      ELSE IF Significant(Body(s)) = << >> THEN [value |-> 0, status |-> "unchanged"]
      ELSE [value |-> IF s[1] = Minus THEN - value ELSE value, status |-> error]

-----------------------------------------------------------------------------
Zeros(count) == [i \in 1 .. count |-> 0]

Padded(digits, len) == Zeros(len - Len(digits)) \o digits

(* toString: blocks from the bottom, each but the top one padded.          *)
StringOf(v, radix) ==
  LET big == GetU64BlockRadix(radix)
      str[x \in Nat] ==
        IF x < big THEN ToChars(x, radix)
        ELSE str[x \div big] \o Padded(ToChars(x % big, radix), GetDigitCountPerU64(radix))
  IN  (IF v < 0 THEN <<Minus>> ELSE << >>) \o str[IF v < 0 THEN - v ELSE v]
=============================================================================
