------------------------------ MODULE Fraction ------------------------------
(***************************************************************************)
(* src/Fraction.h and the gcd of src/algorithm.cpp, on integers in place   *)
(* of BigIntegers.  A denominator keeps its sign: 1/-2 is not turned into  *)
(* -1/2.  Operations return the fraction and what they report in ok.       *)
(***************************************************************************)
EXTENDS Integers, Sequences, FiniteSetsExt

Txt == INSTANCE Text WITH WordBits <- 32

Abs(x) == IF x < 0 THEN - x ELSE x

(* BigInteger's / rounds towards zero.                                     *)
Quot(x, y) == IF (x < 0) = (y < 0) THEN Abs(x) \div Abs(y) ELSE - (Abs(x) \div Abs(y))

Gcd(x, y) ==
  LET euclid[p \in Nat \X Nat] ==
        IF p[1] = 0 THEN p[2] ELSE euclid[<<p[2] % p[1], p[1]>>]
  IN  euclid[<<Min({x, y}), Max({x, y})>>]

(* Needs a denominator other than 0, which only the constructor and the    *)
(* reciprocal of zero can bring about.                                     *)
Fix(f) == LET g == Gcd(Abs(f.num), Abs(f.den))
          IN  [num |-> Quot(f.num, g), den |-> Quot(f.den, g)]

Frac(num, den) == Fix([num |-> num, den |-> den])
Default == [num |-> 0, den |-> 1]
Succeeds(f) == [frac |-> f, ok |-> TRUE]
Fails(f) == [frac |-> f, ok |-> FALSE]

(* The members are initialised before the denominator is tested.           *)
New(num, den) == IF den = 0 THEN Fails([num |-> num, den |-> den])
                 ELSE Succeeds(Frac(num, den))

SetNum(f, num) == Frac(num, f.den)
SetDen(f, den) == IF den = 0 THEN Fails(f) ELSE Succeeds(Frac(f.num, den))

(* Mutant: the sum is not reduced.                                         *)
PlusUnfixed(l, r) == [num |-> l.num * r.den + r.num * l.den, den |-> l.den * r.den]

Plus(l, r) == Frac(l.num * r.den + r.num * l.den, l.den * r.den)

Minus(l, r) == Frac(l.num * r.den - r.num * l.den, l.den * r.den)
Times(l, r) == Frac(l.num * r.num, l.den * r.den)
Over(l, r) == IF r.num = 0 THEN Fails(Default)
              ELSE Succeeds(Frac(l.num * r.den, l.den * r.num))

(* It tests the old denominator, not the new one: 0/1 becomes 1/0.         *)
Reciprocal(f) == IF f.den = 0 THEN Fails(Default)
                 ELSE Succeeds([num |-> f.den, den |-> f.num])

(* toDecimal with k digits behind the dot: the scaled rest is written as a *)
(* number of its own, without the zeros that belong in front of it, and is *)
(* filled up at the wrong end (the count includes the dot and a sign).     *)
ToDecimal(f, k) ==
  LET rest   == Quot((Abs(f.num) % Abs(f.den)) * 10 ^ k, f.den)
      digits == (IF rest < 0 THEN <<Txt!Minus>> ELSE << >>) \o Txt!ToChars(Abs(rest), 10)
  IN  [whole |-> Quot(f.num, f.den),
       decimals |-> digits \o Txt!Zeros(Max({0, k - Len(digits) - 1}))]
=============================================================================
