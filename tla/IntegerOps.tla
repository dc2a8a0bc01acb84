----------------------------- MODULE IntegerOps -----------------------------
(* The operations of the library on integers, as mathematics has them.     *)
EXTENDS Integers, FiniteSetsExt

Magn(v) == IF v < 0 THEN - v ELSE v
Sgn(v) == IF v < 0 THEN -1 ELSE 1

(* Division truncates towards zero, as in C++.                             *)
Quot(v, w) == Sgn(v) * Sgn(w) * (Magn(v) \div Magn(w))
Rem(v, w)  == Sgn(v) * (Magn(v) % Magn(w))

(* Bitwise operators on infinite two's complement: BitLength bits hold     *)
(* the operands, one more their signs.                                     *)
Bit(v, k) == (v \div 2 ^ k) % 2
OpOnBits(op, p, q) == CASE op = "and" -> p * q
                        [] op = "or"  -> p + q - p * q
                        [] op = "xor" -> p + q - 2 * p * q
BitLength[n \in Nat] == IF n = 0 THEN 0 ELSE 1 + BitLength[n \div 2]
OnBits(op, v, w) ==
  LET n == BitLength[Max({Magn(v), Magn(w)})]
      f(k) == OpOnBits(op, Bit(v, k), Bit(w, k)) * 2 ^ k
  IN  MapThenSumSet(f, 0 .. n - 1) - f(n)

(* Flip the bits of the magnitude below and including its leading one.     *)
BitsBelowTop(v) == Sgn(v) * (2 ^ BitLength[Magn(v)] - 1 - Magn(v))
=============================================================================
