----------------------------- MODULE Magnitude -----------------------------
(***************************************************************************)
(* The word-array algorithms of src/BigIntegerImpl.cpp (namespace detail   *)
(* and the division kernel) as operators on little-endian sequences of     *)
(* words.  WordBits stands for 32: every truncation to uint32_t is % Base, *)
(* every arithmetic shift of a signed 64-bit accumulator is a (flooring)   *)
(* \div Base.  Where a buffer is written and what it is shared with is     *)
(* the business of Slice and BigIntegerImpl; here are only the values.     *)
(***************************************************************************)
EXTENDS Integers, Sequences, FiniteSetsExt

CONSTANT WordBits
ASSUME WordBitsAssumption == WordBits \in Nat \ {0, 1}

(* What the provers, to whom ^ means nothing, need to know of it.          *)
PowersUpTo(n) == 2 ^ 0 = 1 /\ \A k \in 1 .. n : 2 ^ k = 2 * 2 ^ (k - 1)
ASSUME PowerAssumption == PowersUpTo(WordBits)

Base == 2 ^ WordBits
WordMax == Base - 1
Word == 0 .. WordMax

(* Reference semantics, used by the properties: the number a magnitude     *)
(* denotes.                                                                *)
ToNat(a) ==
  LET horner[i \in 0 .. Len(a)] ==
        IF i = 0 THEN 0 ELSE horner[i - 1] * Base + a[Len(a) + 1 - i]
  IN  horner[Len(a)]

-----------------------------------------------------------------------------
(* Index of the most significant non-zero word, 0 when there is none.      *)
TopWord(a) == Max({0} \cup {i \in DOMAIN a : a[i] # 0})

EraseZerosSuffix(a) == SubSeq(a, 1, TopWord(a))

(* Number of zero words below the first non-zero one: the position the     *)
(* find_if of getFirstNonZeroU32Index stops at, Len(a) if all are zero.    *)
FirstNonZero(a) == Min({Len(a)} \cup {i - 1 : i \in {k \in DOMAIN a : a[k] # 0}})

Digit(a, i) == IF i \in DOMAIN a THEN a[i] ELSE 0

(* The loop all the kernels share: word i receives the low half of the     *)
(* column's sum and the carry, the high half (a borrow if negative) moves. *)
Ripple(column, in) ==
  LET carry[i \in 0 .. Len(column)] ==
        IF i = 0 THEN in ELSE (column[i] + carry[i - 1]) \div Base
  IN  [words |-> [i \in DOMAIN column |-> (column[i] + carry[i - 1]) % Base],
       out   |-> carry[Len(column)]]

WithCarry(r) == IF r.out = 0 THEN r.words ELSE Append(r.words, r.out)

CmpMag(a, b) ==
  LET diff == {i \in DOMAIN a : a[i] # b[i]}
  IN  IF Len(a) # Len(b) THEN (IF Len(a) < Len(b) THEN -1 ELSE 1)
      ELSE IF diff = {} THEN 0
      ELSE IF a[Max(diff)] < b[Max(diff)] THEN -1 ELSE 1

(* Mutant: the carry out of the top word is lost.                          *)
AddMagDroppingCarry(a, b) ==
  Ripple([i \in 1 .. Max({Len(a), Len(b)}) |-> Digit(a, i) + Digit(b, i)], 0).words

AddMag(a, b) ==
  WithCarry(Ripple([i \in 1 .. Max({Len(a), Len(b)}) |-> Digit(a, i) + Digit(b, i)], 0))

(* Mutant: no borrow from the next word.                                   *)
SubMagWithoutBorrow(a, b) == [i \in DOMAIN a |-> a[i] - Digit(b, i)]

SubMag(a, b) == Ripple([i \in DOMAIN a |-> a[i] - Digit(b, i)], 0).words

IncMag(a) == WithCarry(Ripple(a, 1))

DecMag(a) == EraseZerosSuffix(Ripple(a, -1).words)

GradSchoolMulInplace(a, w) == WithCarry(Ripple([i \in DOMAIN a |-> a[i] * w], 0))

(* rows[i] is the result array after the first i words of a.               *)
GradeSchoolMul(a, b) ==
  LET rows[i \in 0 .. Len(a)] ==
        IF i = 0 THEN [k \in 1 .. Len(a) + Len(b) |-> 0]
        ELSE LET prev == rows[i - 1]
                 row  == Ripple([j \in DOMAIN b |-> a[i] * b[j] + prev[i + j - 1]], 0)
             IN  [k \in DOMAIN prev |->
                    IF k \in i .. i + Len(b) - 1 THEN row.words[k - i + 1]
                    ELSE IF k = i + Len(b) THEN row.out ELSE prev[k]]
  IN  rows[Len(a)]

(* n > 0.  The array grows by one more word only if bits leave the top.    *)
ShlMag(a, n) ==
  LET words == n \div WordBits
      bits  == n % WordBits
      spill(i) == Digit(a, i) \div 2 ^ (WordBits - bits)
      len   == Len(a) + words + (IF spill(Len(a)) = 0 THEN 0 ELSE 1)
  IN  [i \in 1 .. len |-> ((Digit(a, i - words) * 2 ^ bits) % Base)
                            + spill(i - words - 1)]

(* The words shrMag leaves in its window before it drops a zero top word.  *)
ShrWords(a, bits) ==
  [i \in DOMAIN a |-> (a[i] \div 2 ^ bits)
                       + ((Digit(a, i + 1) * 2 ^ (WordBits - bits)) % Base)]

(* Mutant: an emptied top word stays in the window.                        *)
ShrMagKeepingTop(a, n) ==
  ShrWords(SubSeq(a, n \div WordBits + 1, Len(a)), n % WordBits)

ShrMag(a, n) ==
  LET kept == SubSeq(a, n \div WordBits + 1, Len(a))
      r    == ShrWords(kept, n % WordBits)
  IN  IF n % WordBits # 0 /\ r # << >> /\ r[Len(r)] = 0
      THEN SubSeq(r, 1, Len(r) - 1) ELSE r

(* ~s + 1 in place, given where the first non-zero word is.                *)
NotPlusOne(a, first) ==
  [i \in DOMAIN a |-> IF i <= first THEN a[i]
                      ELSE IF i = first + 1 THEN (- a[i]) % Base
                      ELSE WordMax - a[i]]

-----------------------------------------------------------------------------
(* split(2, half): the low and the high words, each without leading zeros. *)
LowBlock(a, half) == EraseZerosSuffix(SubSeq(a, 1, Min({half, Len(a)})))
HighBlock(a, half) == EraseZerosSuffix(SubSeq(a, half + 1, Len(a)))

(* Mutant: the middle product keeps the lowest one.                        *)
JoinProductsKeeping(p1, p2, p3, bits) ==
  LET mid == EraseZerosSuffix(SubMag(p3, p1))
      up(w) == IF w = << >> THEN w ELSE ShlMag(w, bits)
  IN  AddMag(up(AddMag(up(p1), mid)), p2)

(* p1 = ah * bh, p2 = al * bl, p3 = (ah + al) * (bh + bl).                  *)
JoinProducts(p1, p2, p3, bits) ==
  LET mid == EraseZerosSuffix(SubMag(EraseZerosSuffix(SubMag(p3, p1)), p2))
      up(w) == IF w = << >> THEN w ELSE ShlMag(w, bits)
  IN  AddMag(up(AddMag(up(p1), mid)), p2)

SchoolProduct(a, b) ==
  IF Len(b) = 1 THEN GradSchoolMulInplace(a, b[1])
  ELSE IF Len(a) = 1 THEN GradSchoolMulInplace(b, a[1])
  ELSE EraseZerosSuffix(GradeSchoolMul(a, b))

(* The static mul on magnitudes, with mulKaratsuba from threshold words    *)
(* on.  Half the words, rounded up, plus one for the carry of a sum are    *)
(* fewer than all only from 4 words on.                                    *)
Product(x, y, threshold) ==
  LET product[p \in Seq(Word) \X Seq(Word)] ==
        LET a    == p[1]
            b    == p[2]
            half == (Max({Len(a), Len(b)}) + 1) \div 2
        IN  IF a = << >> \/ b = << >> THEN << >>
            ELSE IF Len(a) < threshold \/ Len(b) < threshold THEN SchoolProduct(a, b)
            ELSE JoinProducts(
                   product[<<HighBlock(a, half), HighBlock(b, half)>>],
                   product[<<LowBlock(a, half), LowBlock(b, half)>>],
                   product[<<AddMag(HighBlock(a, half), LowBlock(a, half)),
                             AddMag(HighBlock(b, half), LowBlock(b, half))>>],
                   half * WordBits)
  IN  product[<<x, y>>]

-----------------------------------------------------------------------------
(* Short division: y[i] is the running remainder above word i.             *)
DivideByWord(a, x) ==
  LET y[i \in 0 .. Len(a)] ==
        IF i = 0 THEN 0 ELSE (y[i - 1] * Base + a[Len(a) + 1 - i]) % x
  IN  [q |-> [i \in DOMAIN a |->
                ((y[Len(a) - i] * Base + a[i]) \div x) % Base],
       r |-> y[Len(a)]]

(* Bits by which the divisor must move for its top bit to be set.  A zero  *)
(* top word would make the loop run for ever: callers need v normalised.   *)
NormShift(v) == Min({k \in 0 .. WordBits - 1 : v[Len(v)] * 2 ^ k >= Base \div 2})

(* Mutant: an exact estimate is corrected too.                             *)
QHatTooSmall(u, v, j) ==
  LET n == Len(v)
      top == u[j + n + 1] * Base + u[j + n]
      q == top \div v[n]
  IN  IF q >= Base \/ q * v[n - 1] >= (top % v[n]) * Base + u[j + n - 1] THEN q - 1 ELSE q

(* The quotient digit estimated from the three top words, corrected once;  *)
(* products and sums are uint64_t, i.e. modulo Base * Base.                 *)
QHat(u, v, j) ==
  LET n   == Len(v)
      top == u[j + n + 1] * Base + u[j + n]
      q   == top \div v[n]
      r   == top % v[n]
  IN  IF q = Base \/ (q * v[n - 1]) % (Base * Base) > (r * Base + u[j + n - 1]) % (Base * Base)
      THEN q - 1 ELSE q

(* Subtract q * v from the n+1 words of u at j; out is the final borrow.   *)
MulSub(u, v, j, q) ==
  LET n    == Len(v)
      prod == Ripple([k \in 1 .. n |-> q * v[k]], 0)
  IN  Ripple([k \in 1 .. n + 1 |-> u[j + k] - (IF k <= n THEN prod.words[k] ELSE prod.out)], 0)

(* Mutant: a digit that was too large is left so.                          *)
AddBackNever(rest, v, q) == [words |-> rest.words, borrow |-> rest.out, q |-> q]

(* Add v back until the borrow is repaid, one off the digit each time.     *)
AddBack(rest, v, q) ==
  LET back[t \in 0 .. Base] ==
        IF t = 0 THEN [words |-> rest.words, borrow |-> rest.out, q |-> q]
        ELSE LET p == back[t - 1]
                 s == Ripple([k \in 1 .. Len(v) + 1 |-> p.words[k] + Digit(v, k)], 0)
             IN  [words |-> s.words, borrow |-> p.borrow + s.out, q |-> p.q - 1]
  IN  back[Min({t \in 0 .. Base : back[t].borrow >= 0})]

(* Knuth's algorithm D on a normalised v (top bit set, at least 2 words)   *)
(* and a u with a zero word appended: all the quotient digits, and u       *)
(* reduced to the remainder.  run[j] is the state after digit j.  The code *)
(* fixes m before its normalising shift; where that shift gives u another  *)
(* word, there is one more digit here, which is always 0.                  *)
KnuthLoop(u, v) ==
  LET n == Len(v)
      m == Len(u) - n - 1
      run[j \in 0 .. m + 1] ==
        IF j = m + 1 THEN [u |-> u, q |-> [i \in 1 .. m + 1 |-> 0]]
        ELSE LET s == run[j + 1]
                 q == QHat(s.u, v, j)
                 b == AddBack(MulSub(s.u, v, j, q), v, q)
             IN  [u |-> [i \in DOMAIN u |-> IF i \in j + 1 .. j + n + 1
                                            THEN b.words[i - j] ELSE s.u[i]],
                  q |-> [i \in DOMAIN s.q |-> IF i = j + 1 THEN b.q % Base ELSE s.q[i]]]
  IN  run[0]

-----------------------------------------------------------------------------
(* Bit k of an integer in (infinite) two's complement.                     *)
BitOf(v, k) == (v \div 2 ^ k) % 2

BitOp(op, p, q) == CASE op = "and" -> p * q
                     [] op = "or"  -> Max({p, q})
                     [] op = "xor" -> (p + q) % 2

WordOp(op, a, b) ==
  LET low[k \in 0 .. WordBits] ==
        IF k = 0 THEN 0
        ELSE low[k - 1] + BitOp(op, BitOf(a, k - 1), BitOf(b, k - 1)) * 2 ^ (k - 1)
  IN  low[WordBits]
=============================================================================
