---------------------------- MODULE IntegerStore ----------------------------
(***************************************************************************)
(* What BigInteger promises: objects that hold integers of any size, each  *)
(* its own, and calls that change the objects they are made on and no      *)
(* other.  No words, no sharing, no cache.                                 *)
(***************************************************************************)
EXTENDS IntegerOps, SequencesExt

CONSTANTS Obj, I64, Shift, ByteBits, Bin

VARIABLES val, call

(* The integer a byte string is the two's complement of.                   *)
FromTwos(bytes) ==
  IF bytes = << >> THEN 0
  ELSE LET weigh(i) == bytes[i] * 2 ^ (ByteBits * (i - 1))
           raw == MapThenSumSet(weigh, DOMAIN bytes)
           all == 2 ^ (ByteBits * Len(bytes))
       IN  IF 2 * raw >= all THEN raw - all ELSE raw

-----------------------------------------------------------------------------
Become(c, x, v) == /\ call' = c
                   /\ val' = [val EXCEPT ![x] = v]

Init == val = [x \in Obj |-> 0] /\ call = <<"none">>

Constructors ==
  \E x \in Obj :
    \/ Become(<<"zero", x>>, x, 0)
    \/ \E i \in I64 : Become(<<"assignI64", x, i>>, x, i)
    \/ \E y \in Obj : \/ Become(<<"assign", x, y>>, x, val[y])
                      \/ /\ call' = <<"swap", x, y>>
                         /\ val' = [val EXCEPT ![x] = val[y], ![y] = val[x]]

Decodings ==
  \E x \in Obj, b \in Bin, little \in BOOLEAN :
    Become(<<"assignBin", x, <<b, little>>>>, x, FromTwos(IF little THEN b ELSE Reverse(b)))

Signs ==
  \E x \in Obj : \/ Become(<<"read", x>>, x, val[x])
                 \/ Become(<<"negate", x>>, x, - val[x])
                 \/ Become(<<"abs", x>>, x, Magn(val[x]))

Sums ==
  \E x \in Obj :
    \/ Become(<<"inc", x>>, x, val[x] + 1)
    \/ Become(<<"dec", x>>, x, val[x] - 1)
    \/ \E y \in Obj : \/ Become(<<"add", x, y>>, x, val[x] + val[y])
                      \/ Become(<<"sub", x, y>>, x, val[x] - val[y])
    \/ \E i \in I64 : \/ Become(<<"addI64", x, i>>, x, val[x] + i)
                      \/ Become(<<"subI64", x, i>>, x, val[x] - i)

Products ==
  \E x \in Obj :
    \/ \E y \in Obj : Become(<<"mul", x, y>>, x, val[x] * val[y])
    \/ \E i \in I64 : Become(<<"mulI64", x, i>>, x, val[x] * i)
    \/ \E n \in Shift : \/ Become(<<"shl", x, n>>, x, val[x] * 2 ^ n)
                        \/ Become(<<"shr", x, n>>, x, val[x] \div 2 ^ n)

Quotients ==
  \E x \in Obj :
    \/ \E y \in Obj : val[y] # 0 /\ Become(<<"div", x, y>>, x, Quot(val[x], val[y]))
    \/ \E i \in I64 \ {0} : Become(<<"divI64", x, i>>, x, Quot(val[x], i))

(* Two results: quotient to one object and remainder to another.           *)
BecomeBoth(c, q, r, v, w) == /\ call' = c
                             /\ val' = [val EXCEPT ![q] = Quot(v, w), ![r] = Rem(v, w)]

Remainders ==
  \E x, z \in Obj :
    /\ x # z
    /\ \/ \E y \in Obj :
            /\ val[y] # 0
            /\ \/ BecomeBoth(<<"divrem", x, y, z>>, x, z, val[x], val[y])
               \/ BecomeBoth(<<"modquot", x, y, z>>, z, x, val[x], val[y])
       \/ \E i \in I64 \ {0} :
            \/ BecomeBoth(<<"divremI64", x, i, z>>, x, z, val[x], i)
            \/ BecomeBoth(<<"modquotI64", x, i, z>>, z, x, val[x], i)

Bits ==
  \E x \in Obj :
    \/ Become(<<"not", x>>, x, -1 - val[x])
    \/ \E op \in {"and", "or", "xor"} :
         \/ \E y \in Obj : Become(<<op, x, y>>, x, OnBits(op, val[x], val[y]))
         \/ \E i \in I64 : Become(<<op, x, i>>, x, OnBits(op, val[x], i))

Inversions == \E x \in Obj : Become(<<"notBits", x>>, x, BitsBelowTop(val[x]))

Next == \/ Constructors \/ Decodings \/ Signs \/ Sums \/ Products \/ Quotients
        \/ Remainders \/ Bits \/ Inversions

Spec == Init /\ [][Next]_<<val, call>>
=============================================================================
