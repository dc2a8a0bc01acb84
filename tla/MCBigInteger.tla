---------------------------- MODULE MCBigInteger ----------------------------
(* Two objects and the clients that use them.                              *)
EXTENDS BigIntegerImpl, TLC

CONSTANTS acc, arg, aux

AllNames == Obj \cup Local
Addresses == 1 .. Cardinality(AllNames) + 1

Factors == {-6, 0, 1}
Divisors == {-2, 6}
Masks == {-2, 6}

(* 37, read from its other end -46: three words.                           *)
Dividend == {<<1, 0, 1, 0, 0, 1, 0>>}

(* What tells two states apart: addresses are names and call is history.   *)
Description(x) == <<num[x], mem[mag[x].ptr], mag[x].lo, mag[x].hi>>
Shared == {p \in Obj \X Obj : mag[p[1]].ptr = mag[p[2]].ptr}
Shape == <<[x \in Obj |-> Description(x)], Shared>>

(* Calls that write no object of X, except to load a constant.             *)
Spares(X) == call'[1] \in {"assignI64", "assignBin"} \/ Written(call') \cap X = {}

(* A client that does to acc all arithmetic but division, with itself, with *)
(* arg and with integers.                                                  *)
ArithmeticNext == Arithmetic /\ Spares({arg})
ArithmeticSpec == Init /\ [][ArithmeticNext]_vars

(* A client that divides acc (loaded, or left by a division) by arg (loaded *)
(* once) or by itself; aux holds the second result, a copy, or, while it   *)
(* is zero, is swapped with acc.                                           *)
DividingNext ==
  \/ SignOf(st, acc) = "ZERO" /\ \E w \in Bin, little \in BOOLEAN : AssignBinary(acc, w, little)
  \/ SignOf(st, arg) = "ZERO" /\ \E i \in I64 : AssignInt(arg, i)
  \/ AssignOther(aux, acc)
  \/ SignOf(st, aux) = "ZERO" /\ Swap(aux, acc)
  \/ \E y \in Obj : Divide(acc, y) \/ DivRem(acc, y, aux) \/ ModQuot(acc, y, aux)
  \/ \E i \in I64 : DivideI64(acc, i) \/ DivRemI64(acc, i, aux) \/ ModQuotI64(acc, i, aux)
DividingSpec == Init /\ [][DividingNext]_vars

(* A client that loads acc and arg from binary images and works on the     *)
(* bits of acc, as long as the vectors it widens hold zeros above their    *)
(* windows and no operand has, nor inverting its bits leaves, a leading    *)
(* zero word.                                                              *)
Clean(x) == \A i \in DOMAIN Vec(st, x) : i > mag[x].hi => Vec(st, x)[i] = 0
BitsNext ==
  \/ \E x \in {acc, arg} : \/ \E w \in Bin, little \in BOOLEAN : AssignBinary(x, w, little)
                          \/ ReadU32(x)
  \/ NegateSelf(acc)
  \/ AssignOther(acc, arg)
  \/ /\ Clean(acc) /\ Normalised
     /\ \/ \E op \in BitOps : \/ \E y \in {acc, arg} : Bitwise(op, acc, y)
                             \/ \E i \in I64 : BitwiseI64(op, acc, i)
        \/ Not(acc)
        \/ InvertBits(acc) /\ Normalised'
BitsSpec == Init /\ [][BitsNext]_vars

(* Images of up to three bytes of one bit, -4 to 3, without those that     *)
(* are, from either end, minus a power of two that ends inside a word.     *)
Images == {w \in UNION {[1 .. n -> {0, 1}] : n \in 0 .. 3} :
             \A v \in {w, Reverse(w)} : Integers!FromTwos(v) # -2}

(* The same client without these limits, on loaded integers.               *)
MaskingSpec == Init /\ [][(\E x \in Obj, i \in I64 : AssignInt(x, i)) \/ Bits]_vars
=============================================================================
