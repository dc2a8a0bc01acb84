---------------------------- MODULE Words_proofs ----------------------------
(* Sequences of words.  The kernels of Magnitude compute what they should, *)
(* for every base and every length of the operands; and the member         *)
(* functions of Slice change the slice they are called on as they would a  *)
(* sequence, and no other.                                                 *)
(*                                                                         *)
(* A loop is a recursive function, and what it computes is an induction.   *)
(* The provers have no rule for it: it is brought back to the least        *)
(* element of a set of counterexamples (WFMin), which has no operator to   *)
(* instantiate.                                                            *)
EXTENDS Magnitude, Slice, NaturalsInduction, WellFoundedInduction, SequenceTheorems,
        FiniteSetTheorems, TLAPS

(* Induction up to n over a set of naturals.                               *)
LEMMA UpTo ==
  ASSUME NEW n \in Nat, NEW T, 0 \in T, \A i \in 0 .. n - 1 : i \in T => i + 1 \in T
  PROVE  \A i \in 0 .. n : i \in T
<1> DEFINE U == (0 .. n) \ T
           R == OpToRel(<, Nat)
<1>1. SUFFICES ASSUME U # {} PROVE FALSE
  OBVIOUS
<1>2. IsWellFoundedOn(R, Nat)
  BY NatLessThanWellFounded
<1>3. U \subseteq Nat
  OBVIOUS
<1>4. PICK m \in U : \A y \in U : <<y, m>> \notin R
  <2> HIDE DEF U, R
  <2>1. QED
    BY <1>1, <1>2, <1>3, WFMin
<1>5. m \in 0 .. n /\ m \notin T
  BY <1>4
<1>6. m # 0
  BY <1>5
<1>7. m - 1 \in 0 .. n - 1
  BY <1>5, <1>6
<1>8. <<m - 1, m>> \in R
  BY <1>5, <1>7 DEF OpToRel
<1>9. m - 1 \in T
  <2>1. m - 1 \notin U
    <3> HIDE DEF U, R
    <3>1. QED
      BY <1>4, <1>8
  <2>2. m - 1 \in 0 .. n
    BY <1>5, <1>7
  <2>3. QED
    BY <2>1, <2>2
<1>10. (m - 1) + 1 \in T
  BY <1>7, <1>9
<1>11. (m - 1) + 1 = m
  BY <1>5
<1>12. QED
  BY <1>5, <1>10, <1>11

(* A set of naturals with a bound has a greatest element, and Max is it.   *)
LEMMA MaxProperties ==
  ASSUME NEW n \in Nat, NEW S, S \subseteq 0 .. n, S # {}
  PROVE  Max(S) \in S /\ \A y \in S : y <= Max(S)
<1> DEFINE T == {i \in 0 .. n : (\E x \in S : x <= i) =>
                                  \E x \in S : x <= i /\ \A y \in S : y <= i => y <= x}
<1>1. 0 \in T
  OBVIOUS
<1>2. ASSUME NEW i \in 0 .. n - 1, i \in T PROVE i + 1 \in T
  <2>1. CASE i + 1 \in S
    BY <2>1
  <2>2. CASE i + 1 \notin S
    <3>1. \A y \in S : y <= i + 1 => y <= i
      BY <2>2
    <3>2. QED
      BY <1>2, <3>1
  <2>3. QED
    BY <2>1, <2>2
<1>3. n \in T
  <2> HIDE DEF T
  <2>1. \A i \in 0 .. n : i \in T
    BY <1>1, <1>2, UpTo
  <2>2. QED
    BY <2>1
<1>4. \E x \in S : \A y \in S : x >= y
  <2>1. \E x \in S : x <= n
    <3>1. PICK x \in S : TRUE
      OBVIOUS
    <3>2. x <= n
      OBVIOUS
    <3>3. QED
      BY <3>2
  <2>2. PICK x \in S : x <= n /\ \A y \in S : y <= n => y <= x
    BY <1>3, <2>1
  <2>3. \A y \in S : x >= y
    BY <2>2
  <2>4. QED
    BY <2>3
<1>5. Max(S) \in S /\ \A y \in S : Max(S) >= y
  BY <1>4 DEF Max
<1>6. QED
  BY <1>5

(* The least element is the minimum.                                       *)
LEMMA MinIs ==
  ASSUME NEW S, S \subseteq Int, NEW m \in S, \A y \in S : m <= y
  PROVE  Min(S) = m
<1> DEFINE P(x) == x \in S /\ \A y \in S : x <= y
<1>1. Min(S) = CHOOSE x : P(x)
  BY DEF Min
<1>2. P(m)
  OBVIOUS
<1>3. \A x : P(x) => x = m
  <2>1. ASSUME NEW x, P(x) PROVE x = m
    <3>1. x <= m /\ m <= x /\ x \in Int /\ m \in Int
      BY <2>1
    <3>2. QED
      BY <3>1
  <2>2. QED
    BY <2>1
<1> HIDE DEF P
<1>4. QED
  BY <1>1, <1>2, <1>3

(* A set of naturals has a least element, and Min is it.                   *)
LEMMA MinProperties ==
  ASSUME NEW n \in Nat, NEW S, S \subseteq 0 .. n, S # {}
  PROVE  Min(S) \in S /\ \A y \in S : Min(S) <= y
<1> DEFINE T == {i \in 0 .. n : (\E x \in S : x <= i) => \E x \in S : \A y \in S : x <= y}
<1>1. 0 \in T
  <2>1. ASSUME NEW x \in S, x <= 0 PROVE \A y \in S : x <= y
    <3>1. x = 0
      BY <2>1
    <3>2. QED
      BY <3>1
  <2>2. QED
    BY <2>1
<1>2. ASSUME NEW i \in 0 .. n - 1, i \in T PROVE i + 1 \in T
  <2>1. CASE \E x \in S : x <= i
    BY <1>2, <2>1
  <2>2. CASE ~(\E x \in S : x <= i)
    <3>1. ASSUME NEW x \in S, x <= i + 1 PROVE \A y \in S : x <= y
      <4>1. x = i + 1
        BY <2>2, <3>1
      <4>2. \A y \in S : y >= i + 1
        BY <2>2
      <4>3. QED
        BY <4>1, <4>2
    <3>2. QED
      BY <3>1
  <2>3. QED
    BY <2>1, <2>2
<1>3. n \in T
  <2> HIDE DEF T
  <2>1. \A i \in 0 .. n : i \in T
    BY <1>1, <1>2, UpTo
  <2>2. QED
    BY <2>1
<1>4. PICK x \in S : TRUE
  OBVIOUS
<1>5. x <= n
  OBVIOUS
<1>6. PICK m \in S : \A y \in S : m <= y
  BY <1>3, <1>5
<1>7. Min(S) = m
  <2>1. S \subseteq Int
    OBVIOUS
  <2>2. QED
    BY <1>6, <2>1, MinIs
<1>8. QED
  BY <1>6, <1>7

(* The smaller of two.                                                     *)
LEMMA MinOfTwo ==
  ASSUME NEW x \in Nat, NEW y \in Nat
  PROVE  Min({x, y}) = IF x <= y THEN x ELSE y
<1> DEFINE S == {x, y}
           m == IF x <= y THEN x ELSE y
<1>1. S \subseteq Int /\ m \in S /\ \A z \in S : m <= z
  OBVIOUS
<1> HIDE DEF S, m
<1>2. Min(S) = m
  BY <1>1, MinIs
<1>3. QED
  BY <1>2 DEF S, m

-----------------------------------------------------------------------------
(* The function a loop of n rounds unfolds to.                             *)
Unfolds(f, n, base, step) ==
  f[0] = base /\ \A i \in 1 .. n : f[i] = step[<<f[i - 1], i>>]

(* There is one, for every first value and every step.                     *)
LEMMA Recursion ==
  ASSUME NEW n \in Nat, NEW S, NEW base \in S, NEW step \in [S \X (1 .. n) -> S]
  PROVE  \E f \in [0 .. n -> S] : Unfolds(f, n, base, step)
<1> DEFINE Good(f, k) == /\ f \in [0 .. k -> S]
                         /\ f[0] = base
                         /\ \A i \in 1 .. k : f[i] = step[<<f[i - 1], i>>]
           T == {k \in 0 .. n : \E f : Good(f, k)}
<1>1. 0 \in T
  <2>1. Good([i \in 0 .. 0 |-> base], 0)
    OBVIOUS
  <2> HIDE DEF Good
  <2>2. QED
    BY <2>1
<1>2. ASSUME NEW k \in 0 .. n - 1, k \in T PROVE k + 1 \in T
  <2>1. PICK f : Good(f, k)
    BY <1>2
  <2> DEFINE v == step[<<f[k], k + 1>>]
             g == [i \in 0 .. k + 1 |-> IF i = k + 1 THEN v ELSE f[i]]
  <2>2. f[k] \in S /\ v \in S
    BY <2>1
  <2>3. g \in [0 .. k + 1 -> S]
    BY <2>1, <2>2
  <2>4. g[0] = base
    BY <2>1
  <2>5. ASSUME NEW i \in 1 .. k + 1 PROVE g[i] = step[<<g[i - 1], i>>]
    <3>1. CASE i = k + 1
      <4>1. g[i] = v /\ i - 1 = k /\ g[i - 1] = f[k]
        BY <3>1
      <4>2. QED
        BY <3>1, <4>1
    <3>2. CASE i \in 1 .. k
      <4>1. g[i] = f[i] /\ g[i - 1] = f[i - 1]
        BY <3>2
      <4>2. QED
        BY <3>2, <4>1, <2>1
    <3>3. QED
      BY <3>1, <3>2
  <2>6. Good(g, k + 1)
    BY <2>3, <2>4, <2>5
  <2> HIDE DEF Good, g
  <2>7. QED
    BY <2>6
<1>3. n \in T
  <2> HIDE DEF T
  <2>1. \A i \in 0 .. n : i \in T
    BY <1>1, <1>2, UpTo
  <2>2. QED
    BY <2>1
<1>4. PICK f : Good(f, n)
  BY <1>3
<1>5. QED
  BY <1>4 DEF Unfolds

-----------------------------------------------------------------------------
(* The powers of two that are assumed to double are positive, and multiply *)
(* as powers do.                                                           *)
LEMMA PowerProperties ==
  ASSUME NEW n \in Nat, PowersUpTo(n)
  PROVE  /\ \A k \in 0 .. n : 2 ^ k \in Nat /\ 2 ^ k >= 1
         /\ \A j, k \in 0 .. n : j + k <= n => 2 ^ (j + k) = 2 ^ j * 2 ^ k
<1> DEFINE pow == [k \in 0 .. n |-> 2 ^ k]
           T == {k \in 0 .. n : pow[k] \in Nat /\ pow[k] >= 1}
<1>1. pow[0] = 1 /\ \A k \in 0 .. n - 1 : pow[k + 1] = 2 * pow[k]
  <2>1. 0 \in 0 .. n /\ 2 ^ 0 = 1
    BY DEF PowersUpTo
  <2>2. ASSUME NEW k \in 0 .. n - 1 PROVE pow[k + 1] = 2 * pow[k]
    <3>1. k + 1 \in 1 .. n /\ k + 1 \in 0 .. n /\ k \in 0 .. n /\ (k + 1) - 1 = k
      OBVIOUS
    <3>2. 2 ^ (k + 1) = 2 * 2 ^ ((k + 1) - 1)
      BY <3>1 DEF PowersUpTo
    <3>3. pow[k + 1] = 2 ^ (k + 1) /\ pow[k] = 2 ^ k
      BY <3>1
    <3>4. QED
      BY <3>1, <3>2, <3>3
  <2>3. QED
    BY <2>1, <2>2
<1>2. \A k \in 0 .. n : pow[k] = 2 ^ k
  OBVIOUS
<1> HIDE DEF pow
<1>3. \A k \in 0 .. n : k \in T
  <2>1. 0 \in T /\ \A k \in 0 .. n - 1 : k \in T => k + 1 \in T
    BY <1>1
  <2> HIDE DEF T
  <2>2. QED
    BY <2>1, UpTo
<1>4. ASSUME NEW j \in 0 .. n, NEW k \in 0 .. n, j + k <= n PROVE pow[j + k] = pow[j] * pow[k]
  <2> DEFINE U == {i \in 0 .. k : pow[j + i] = pow[j] * pow[i]}
  <2>1. 0 \in U
    BY <1>1, <1>3
  <2>2. ASSUME NEW i \in 0 .. k - 1, i \in U PROVE i + 1 \in U
    <3>1. i \in 0 .. n - 1 /\ j + i \in 0 .. n - 1 /\ (j + i) + 1 = j + (i + 1) /\ i + 1 \in 0 .. k
      BY <1>4
    <3>2. /\ pow[(j + i) + 1] = 2 * pow[j + i] /\ pow[i + 1] = 2 * pow[i]
          /\ pow[j + i] = pow[j] * pow[i]
      BY <1>1, <2>2, <3>1
    <3>3. pow[j] \in Nat /\ pow[i] \in Nat
      BY <1>3, <3>1
    <3>4. 2 * (pow[j] * pow[i]) = pow[j] * (2 * pow[i])
      BY <3>3
    <3>5. QED
      BY <3>1, <3>2, <3>4
  <2>3. k \in Nat /\ k \in 0 .. k
    OBVIOUS
  <2> HIDE DEF U
  <2>4. k \in U
    BY <2>1, <2>2, <2>3, UpTo
  <2>5. QED
    BY <2>4 DEF U
<1>5. QED
  <2>1. \A k \in 0 .. n : pow[k] \in Nat /\ pow[k] >= 1
    BY <1>3
  <2>2. ASSUME NEW j \in 0 .. n, NEW k \in 0 .. n, j + k <= n PROVE 2 ^ (j + k) = 2 ^ j * 2 ^ k
    <3>1. j + k \in 0 .. n
      BY <2>2
    <3>2. QED
      BY <1>2, <1>4, <2>2, <3>1
  <2>3. QED
    BY <1>2, <2>1, <2>2

(* A base is a base.                                                       *)
LEMMA BaseProperties == Base \in Nat /\ Base >= 2 /\ WordMax = Base - 1 /\ WordMax \in Nat
<1> DEFINE half == 2 ^ (WordBits - 1)
<1>1. WordBits \in 1 .. WordBits /\ WordBits - 1 \in 0 .. WordBits /\ WordBits \in Nat
  BY WordBitsAssumption
<1>2. Base = 2 * half
  BY <1>1, PowerAssumption DEF Base, PowersUpTo
<1>3. half \in Nat /\ half >= 1
  BY <1>1, PowerAssumption, PowerProperties
<1> HIDE DEF half
<1>4. QED
  BY <1>2, <1>3 DEF WordMax

(* Division by the base leaves a word.                                     *)
LEMMA Splitting ==
  ASSUME NEW v \in Int
  PROVE  /\ v \div Base \in Int /\ v % Base \in Word
         /\ v = (v \div Base) * Base + (v % Base)
<1> DEFINE B == Base
<1>1. B \in Nat /\ B >= 2
  BY BaseProperties
<1> HIDE DEF B
<1>2. v \div B \in Int /\ v % B \in 0 .. B - 1 /\ v = (v \div B) * B + (v % B)
  BY <1>1
<1>3. QED
  BY <1>2 DEF B, Word, WordMax

(* Words are numbers below the base.                                       *)
LEMMA WordsProperties ==
  ASSUME NEW a \in Seq(Word)
  PROVE  /\ a \in Seq(Int) /\ a \in Seq(Nat) /\ Len(a) \in Nat
         /\ \A i \in 1 .. Len(a) : a[i] \in Nat /\ a[i] < Base
<1> DEFINE B == Base
<1>1. B \in Nat /\ Word = 0 .. B - 1
  BY BaseProperties DEF Word
<1> HIDE DEF B
<1>2. a \in Seq(0 .. B - 1)
  BY <1>1
<1>3. /\ a \in Seq(Int) /\ a \in Seq(Nat) /\ Len(a) \in Nat
      /\ \A i \in 1 .. Len(a) : a[i] \in Nat /\ a[i] < B
  BY <1>1, <1>2
<1>4. QED
  BY <1>3 DEF B

-----------------------------------------------------------------------------
(* h is the Horner scheme of a: h[i] is the number of the i top words.     *)
HornerOf(a, h) ==
  /\ h \in [0 .. Len(a) -> Int] /\ h[0] = 0
  /\ \A i \in 1 .. Len(a) : h[i] = h[i - 1] * Base + a[Len(a) + 1 - i]
  /\ ToNat(a) = h[Len(a)]

(* ToNat is the last value of such a function.                             *)
LEMMA ToNatUnfolds ==
  ASSUME NEW a \in Seq(Int)
  PROVE  \E h : HornerOf(a, h)
<1> DEFINE n == Len(a)
           B == Base
           step == [p \in Int \X (1 .. n) |-> p[1] * B + a[n + 1 - p[2]]]
           Eqn(f) == f = [i \in 0 .. n |-> IF i = 0 THEN 0 ELSE f[i - 1] * B + a[n + 1 - i]]
           h == CHOOSE f : Eqn(f)
<1>1. n \in Nat /\ B \in Int /\ \A i \in 1 .. n : a[n + 1 - i] \in Int
  BY BaseProperties
<1> HIDE DEF n, B
<1>2. step \in [Int \X (1 .. n) -> Int]
  BY <1>1
<1>3. \E f \in [0 .. n -> Int] : Unfolds(f, n, 0, step)
  <2> DEFINE S == Int
  <2>1. 0 \in S /\ step \in [S \X (1 .. n) -> S] /\ n \in Nat
    BY <1>1, <1>2
  <2> HIDE DEF step, S
  <2>2. \E f \in [0 .. n -> S] : Unfolds(f, n, 0, step)
    BY <2>1, Recursion
  <2>3. QED
    BY <2>2 DEF S
<1>4. \E f : Eqn(f)
  <2>1. PICK f \in [0 .. n -> Int] : Unfolds(f, n, 0, step)
    BY <1>3
  <2>2. ASSUME NEW i \in 1 .. n PROVE f[i] = f[i - 1] * B + a[n + 1 - i]
    <3>1. f[i] = step[<<f[i - 1], i>>]
      <4> HIDE DEF step
      <4>1. QED
        BY <2>1 DEF Unfolds
    <3>2. f[i - 1] \in Int
      BY <1>1
    <3>3. QED
      BY <3>1, <3>2
  <2>3. Eqn(f)
    BY <2>1, <2>2 DEF Unfolds
  <2> HIDE DEF Eqn
  <2>4. QED
    BY <2>3
<1>5. Eqn(h)
  <2> HIDE DEF Eqn
  <2>1. QED
    BY <1>4
<1>6. ToNat(a) = h[n]
  BY DEF ToNat, n, B
<1> HIDE DEF h
<1>7. \A i \in 0 .. n : h[i] = IF i = 0 THEN 0 ELSE h[i - 1] * B + a[n + 1 - i]
  BY <1>5
<1>8. h = [i \in 0 .. n |-> h[i]]
  BY <1>5, <1>7
<1>9. h[0] = 0 /\ \A i \in 1 .. n : h[i] = h[i - 1] * B + a[n + 1 - i]
  BY <1>1, <1>7
<1>10. \A i \in 0 .. n : h[i] \in Int
  <2> DEFINE T == {i \in 0 .. n : h[i] \in Int}
  <2>1. 0 \in T
    BY <1>1, <1>9
  <2>2. ASSUME NEW i \in 0 .. n - 1, i \in T PROVE i + 1 \in T
    <3>1. h[i + 1] = h[(i + 1) - 1] * B + a[n + 1 - (i + 1)] /\ (i + 1) - 1 = i
      BY <1>1, <1>9
    <3>2. a[n + 1 - (i + 1)] \in Int
      BY <1>1
    <3>3. QED
      BY <1>1, <2>2, <3>1, <3>2
  <2> HIDE DEF T
  <2>3. \A i \in 0 .. n : i \in T
    BY <1>1, <2>1, <2>2, UpTo
  <2>4. QED
    BY <2>3 DEF T
<1>11. h \in [0 .. n -> Int]
  BY <1>8, <1>10
<1>12. HornerOf(a, h)
  BY <1>6, <1>9, <1>11 DEF HornerOf, n, B
<1>13. QED
  BY <1>12

(* c are the carries of a loop over the columns.                           *)
CarryOf(column, in, c) ==
  /\ c \in [0 .. Len(column) -> Int] /\ c[0] = in
  /\ \A i \in 1 .. Len(column) : c[i] = (column[i] + c[i - 1]) \div Base
  /\ Ripple(column, in) = [words |-> [i \in 1 .. Len(column) |-> (column[i] + c[i - 1]) % Base],
                           out   |-> c[Len(column)]]

(* Ripple is the words and the last carry of such a function.              *)
LEMMA RippleUnfolds ==
  ASSUME NEW column \in Seq(Int), NEW in \in Int
  PROVE  \E c : CarryOf(column, in, c)
<1> DEFINE n == Len(column)
           B == Base
           step == [p \in Int \X (1 .. n) |-> (column[p[2]] + p[1]) \div B]
           Eqn(f) == f = [i \in 0 .. n |-> IF i = 0 THEN in ELSE (column[i] + f[i - 1]) \div B]
           c == CHOOSE f : Eqn(f)
<1>1. n \in Nat /\ B \in Nat /\ B >= 2 /\ \A i \in 1 .. n : column[i] \in Int
  BY BaseProperties
<1>2. Ripple(column, in) = [words |-> [i \in DOMAIN column |-> (column[i] + c[i - 1]) % B],
                            out   |-> c[n]]
  BY DEF Ripple
<1>3. DOMAIN column = 1 .. n
  OBVIOUS
<1> HIDE DEF n, B
<1>4. step \in [Int \X (1 .. n) -> Int]
  BY <1>1
<1>5. \E f \in [0 .. n -> Int] : Unfolds(f, n, in, step)
  <2> DEFINE S == Int
  <2>1. in \in S /\ step \in [S \X (1 .. n) -> S] /\ n \in Nat
    BY <1>1, <1>4
  <2> HIDE DEF step, S
  <2>2. \E f \in [0 .. n -> S] : Unfolds(f, n, in, step)
    BY <2>1, Recursion
  <2>3. QED
    BY <2>2 DEF S
<1>6. \E f : Eqn(f)
  <2>1. PICK f \in [0 .. n -> Int] : Unfolds(f, n, in, step)
    BY <1>5
  <2>2. ASSUME NEW i \in 1 .. n PROVE f[i] = (column[i] + f[i - 1]) \div B
    <3>1. f[i] = step[<<f[i - 1], i>>]
      <4> HIDE DEF step
      <4>1. QED
        BY <2>1 DEF Unfolds
    <3>2. f[i - 1] \in Int
      BY <1>1
    <3>3. QED
      BY <3>1, <3>2
  <2>3. Eqn(f)
    BY <2>1, <2>2 DEF Unfolds
  <2> HIDE DEF Eqn
  <2>4. QED
    BY <2>3
<1>7. Eqn(c)
  <2> HIDE DEF Eqn
  <2>1. QED
    BY <1>6
<1> HIDE DEF c
<1>8. \A i \in 0 .. n : c[i] = IF i = 0 THEN in ELSE (column[i] + c[i - 1]) \div B
  BY <1>7
<1>9. c = [i \in 0 .. n |-> c[i]]
  BY <1>7, <1>8
<1>10. c[0] = in /\ \A i \in 1 .. n : c[i] = (column[i] + c[i - 1]) \div B
  BY <1>1, <1>8
<1>11. \A i \in 0 .. n : c[i] \in Int
  <2> DEFINE T == {i \in 0 .. n : c[i] \in Int}
  <2>1. 0 \in T
    BY <1>1, <1>10
  <2>2. ASSUME NEW i \in 0 .. n - 1, i \in T PROVE i + 1 \in T
    <3>1. c[i + 1] = (column[i + 1] + c[(i + 1) - 1]) \div B /\ (i + 1) - 1 = i
      BY <1>1, <1>10
    <3>2. column[i + 1] \in Int /\ c[i] \in Int
      BY <1>1, <2>2
    <3>3. QED
      BY <1>1, <2>2, <3>1, <3>2
  <2> HIDE DEF T
  <2>3. \A i \in 0 .. n : i \in T
    BY <1>1, <2>1, <2>2, UpTo
  <2>4. QED
    BY <2>3 DEF T
<1>12. c \in [0 .. n -> Int]
  BY <1>9, <1>11
<1>13. CarryOf(column, in, c)
  BY <1>2, <1>3, <1>10, <1>12 DEF CarryOf, n, B
<1>14. QED
  BY <1>13

-----------------------------------------------------------------------------
(* The number of a sequence of integers, as if they were words.            *)
LEMMA ToNatType ==
  ASSUME NEW a \in Seq(Int)
  PROVE  ToNat(a) \in Int
<1>1. PICK h : HornerOf(a, h)
  BY ToNatUnfolds
<1>2. Len(a) \in Nat
  OBVIOUS
<1>3. QED
  BY <1>1, <1>2 DEF HornerOf

(* No words denote 0.                                                      *)
LEMMA ToNatEmpty == ToNat(<< >>) = 0
<1>1. << >> \in Seq(Int) /\ Len(<< >>) = 0
  OBVIOUS
<1>2. PICK h : HornerOf(<< >>, h)
  BY <1>1, ToNatUnfolds
<1>3. QED
  BY <1>1, <1>2 DEF HornerOf

(* The number of a single word is the word.                                *)
LEMMA ToNatSingle ==
  ASSUME NEW a \in Seq(Int), Len(a) = 1
  PROVE  ToNat(a) = a[1]
<1> DEFINE B == Base
<1>1. PICK h : HornerOf(a, h)
  BY ToNatUnfolds
<1>2. B \in Int /\ a[1] \in Int
  BY BaseProperties
<1>3. ToNat(a) = h[1] /\ h[0] = 0 /\ h[1] = h[1 - 1] * B + a[1 + 1 - 1]
  BY <1>1 DEF HornerOf
<1> HIDE DEF B
<1>4. 1 - 1 = 0 /\ 1 + 1 - 1 = 1 /\ 0 * B = 0
  BY <1>2
<1>5. QED
  BY <1>2, <1>3, <1>4

(* Zeros above the top do not count.                                       *)
LEMMA ToNatPadded ==
  ASSUME NEW a \in Seq(Int), NEW b \in Seq(Int), Len(a) <= Len(b),
         \A i \in 1 .. Len(a) : b[i] = a[i],
         \A i \in Len(a) + 1 .. Len(b) : b[i] = 0
  PROVE  ToNat(b) = ToNat(a)
<1> DEFINE m == Len(a)
           n == Len(b)
           B == Base
<1>1. PICK g : HornerOf(a, g)
  BY ToNatUnfolds
<1>2. PICK h : HornerOf(b, h)
  BY ToNatUnfolds
<1>3. m \in Nat /\ n \in Nat /\ m <= n /\ B \in Nat
  BY BaseProperties
<1>4. /\ g[0] = 0 /\ ToNat(a) = g[m]
      /\ \A i \in 0 .. m : g[i] \in Int
      /\ \A i \in 1 .. m : g[i] = g[i - 1] * B + a[m + 1 - i]
  BY <1>1 DEF HornerOf
<1>5. /\ h[0] = 0 /\ ToNat(b) = h[n]
      /\ \A i \in 1 .. n : h[i] = h[i - 1] * B + b[n + 1 - i]
  BY <1>2 DEF HornerOf
<1>6. /\ \A i \in 1 .. m : b[i] = a[i]
      /\ \A i \in m + 1 .. n : b[i] = 0
  OBVIOUS
<1> HIDE DEF m, n, B
<1> DEFINE T == {i \in 0 .. n : h[i] = IF i <= n - m THEN 0 ELSE g[i - (n - m)]}
<1>7. 0 \in T
  BY <1>3, <1>5
<1>8. ASSUME NEW i \in 0 .. n - 1, i \in T PROVE i + 1 \in T
  <2>1. h[i + 1] = h[i] * B + b[n - i]
    <3>1. (i + 1) - 1 = i /\ n + 1 - (i + 1) = n - i
      BY <1>3
    <3>2. QED
      BY <1>3, <1>5, <3>1
  <2>2. CASE i < n - m
    <3>1. b[n - i] = 0 /\ h[i] = 0
      BY <1>3, <1>6, <1>8, <2>2
    <3>2. QED
      BY <1>3, <2>1, <2>2, <3>1
  <2>3. CASE i >= n - m
    <3> DEFINE k == i - (n - m)
    <3>1. k \in 0 .. m - 1 /\ n - i = m - k /\ m - k \in 1 .. m
      BY <1>3, <2>3
    <3>2. h[i] = g[k]
      BY <1>3, <1>4, <1>8, <2>3
    <3>3. b[n - i] = a[m - k]
      BY <1>6, <3>1
    <3>4. g[k + 1] = g[k] * B + a[m - k]
      <4>1. (k + 1) - 1 = k /\ m + 1 - (k + 1) = m - k /\ k + 1 \in 1 .. m
        BY <1>3, <3>1
      <4>2. QED
        BY <1>4, <4>1
    <3>5. h[i + 1] = g[k + 1]
      BY <2>1, <3>2, <3>3, <3>4
    <3>6. k + 1 = (i + 1) - (n - m) /\ ~(i + 1 <= n - m)
      BY <1>3, <2>3
    <3>7. QED
      BY <1>3, <3>5, <3>6
  <2>4. QED
    BY <1>3, <2>2, <2>3
<1>9. n \in T
  <2> HIDE DEF T
  <2>1. \A i \in 0 .. n : i \in T
    BY <1>3, <1>7, <1>8, UpTo
  <2>2. QED
    BY <1>3, <2>1
<1>10. h[n] = IF n <= n - m THEN 0 ELSE g[n - (n - m)]
  BY <1>9
<1>11. CASE m = 0
  BY <1>3, <1>4, <1>5, <1>10, <1>11
<1>12. CASE m # 0
  BY <1>3, <1>4, <1>5, <1>10, <1>12
<1>13. QED
  BY <1>11, <1>12

(* One round of a Horner scheme is linear.                                 *)
LEMMA Distribute ==
  ASSUME NEW j \in Int, NEW k \in Int, NEW x \in Int, NEW y \in Int,
         NEW p \in Int, NEW q \in Int, NEW B \in Int
  PROVE  (j * x + k * y) * B + (j * p + k * q) = j * (x * B + p) + k * (y * B + q)
  OBVIOUS

(* c is j times a and k times b, word by word.                             *)
Combined(c, j, a, k, b) ==
  /\ Len(a) = Len(c) /\ Len(b) = Len(c)
  /\ \A i \in 1 .. Len(c) : c[i] = j * a[i] + k * b[i]

(* The number of such a row.                                               *)
LEMMA ToNatLinear ==
  ASSUME NEW a \in Seq(Int), NEW b \in Seq(Int), NEW c \in Seq(Int),
         NEW j \in Int, NEW k \in Int, Combined(c, j, a, k, b)
  PROVE  ToNat(c) = j * ToNat(a) + k * ToNat(b)
<1> DEFINE n == Len(c)
           B == Base
<1>1. PICK f : HornerOf(a, f)
  BY ToNatUnfolds
<1>2. PICK g : HornerOf(b, g)
  BY ToNatUnfolds
<1>3. PICK h : HornerOf(c, h)
  BY ToNatUnfolds
<1>4. n \in Nat /\ B \in Nat
  BY BaseProperties
<1>5. /\ f[0] = 0 /\ ToNat(a) = f[n] /\ \A i \in 0 .. n : f[i] \in Int
      /\ \A i \in 1 .. n : f[i] = f[i - 1] * B + a[n + 1 - i]
  BY <1>1 DEF HornerOf, Combined
<1>6. /\ g[0] = 0 /\ ToNat(b) = g[n] /\ \A i \in 0 .. n : g[i] \in Int
      /\ \A i \in 1 .. n : g[i] = g[i - 1] * B + b[n + 1 - i]
  BY <1>2 DEF HornerOf, Combined
<1>7. /\ h[0] = 0 /\ ToNat(c) = h[n]
      /\ \A i \in 1 .. n : h[i] = h[i - 1] * B + c[n + 1 - i]
  BY <1>3 DEF HornerOf
<1>8. \A i \in 1 .. n : a[i] \in Int /\ b[i] \in Int /\ c[i] = j * a[i] + k * b[i]
  BY DEF Combined
<1> HIDE DEF n, B
<1> DEFINE T == {i \in 0 .. n : h[i] = j * f[i] + k * g[i]}
<1>9. 0 \in T
  BY <1>4, <1>5, <1>6, <1>7
<1>10. ASSUME NEW i \in 0 .. n - 1, i \in T PROVE i + 1 \in T
  <2> DEFINE d == n - i
  <2>1. (i + 1) - 1 = i /\ n + 1 - (i + 1) = d /\ d \in 1 .. n /\ i + 1 \in 1 .. n
    BY <1>4
  <2> HIDE DEF d
  <2>2. /\ f[i + 1] = f[i] * B + a[d] /\ g[i + 1] = g[i] * B + b[d]
        /\ h[i + 1] = h[i] * B + c[d]
    BY <1>5, <1>6, <1>7, <2>1
  <2>3. /\ a[d] \in Int /\ b[d] \in Int /\ c[d] = j * a[d] + k * b[d]
        /\ f[i] \in Int /\ g[i] \in Int /\ h[i] = j * f[i] + k * g[i]
    BY <1>4, <1>5, <1>6, <1>8, <1>10, <2>1
  <2> DEFINE x == f[i]
             y == g[i]
             p == a[d]
             q == b[d]
  <2>4. x \in Int /\ y \in Int /\ p \in Int /\ q \in Int /\ B \in Int
    BY <1>4, <2>3
  <2>5. h[i + 1] = (j * x + k * y) * B + (j * p + k * q)
    BY <2>2, <2>3
  <2>6. j * f[i + 1] + k * g[i + 1] = j * (x * B + p) + k * (y * B + q)
    BY <2>2
  <2>7. (j * x + k * y) * B + (j * p + k * q) = j * (x * B + p) + k * (y * B + q)
    <3> HIDE DEF x, y, p, q
    <3>1. QED
      BY ONLY <2>4, j \in Int, k \in Int, Distribute
  <2>8. h[i + 1] = j * f[i + 1] + k * g[i + 1]
    BY <2>5, <2>6, <2>7
  <2>9. QED
    BY <1>4, <2>8
<1>11. n \in T
  <2> HIDE DEF T
  <2>1. \A i \in 0 .. n : i \in T
    BY <1>4, <1>9, <1>10, UpTo
  <2>2. QED
    BY <1>4, <2>1
<1>12. QED
  BY <1>5, <1>6, <1>7, <1>11

(* Rows that are added word by word.                                       *)
LEMMA ToNatSum ==
  ASSUME NEW a \in Seq(Int), NEW b \in Seq(Int), NEW c \in Seq(Int),
         Len(a) = Len(c), Len(b) = Len(c), \A i \in 1 .. Len(c) : c[i] = a[i] + b[i]
  PROVE  ToNat(c) = ToNat(a) + ToNat(b)
<1> DEFINE one == 1
<1>1. one \in Int /\ \A i \in 1 .. Len(c) : c[i] = one * a[i] + one * b[i]
  OBVIOUS
<1>2. \A x, y \in Int : one * x + one * y = x + y
  OBVIOUS
<1> HIDE DEF one
<1>5. Combined(c, one, a, one, b)
  BY <1>1 DEF Combined
<1>3. ToNat(c) = one * ToNat(a) + one * ToNat(b)
  BY <1>1, <1>5, ToNatLinear
<1>4. QED
  BY <1>2, <1>3, ToNatType

(* Rows that are subtracted word by word.                                  *)
LEMMA ToNatDifference ==
  ASSUME NEW a \in Seq(Int), NEW b \in Seq(Int), NEW c \in Seq(Int),
         Len(a) = Len(c), Len(b) = Len(c), \A i \in 1 .. Len(c) : c[i] = a[i] - b[i]
  PROVE  ToNat(c) = ToNat(a) - ToNat(b)
<1>1. \A i \in 1 .. Len(a) : a[i] = c[i] + b[i]
  <2>1. ASSUME NEW i \in 1 .. Len(c) PROVE a[i] = c[i] + b[i]
    <3>1. a[i] \in Int /\ b[i] \in Int /\ c[i] = a[i] - b[i]
      OBVIOUS
    <3>2. QED
      BY <3>1
  <2>2. QED
    BY <2>1
<1>2. Len(c) = Len(a) /\ Len(b) = Len(a)
  OBVIOUS
<1>3. ToNat(a) = ToNat(c) + ToNat(b)
  BY <1>1, <1>2, ToNatSum
<1>4. QED
  BY <1>3, ToNatType

(* A row that is multiplied word by word.                                  *)
LEMMA ToNatMultiple ==
  ASSUME NEW a \in Seq(Int), NEW c \in Seq(Int), NEW k \in Int,
         Len(a) = Len(c), \A i \in 1 .. Len(c) : c[i] = a[i] * k
  PROVE  ToNat(c) = ToNat(a) * k
<1> DEFINE zero == 0
<1>1. zero \in Int /\ \A i \in 1 .. Len(c) : c[i] = k * a[i] + zero * a[i]
  <2>1. ASSUME NEW i \in 1 .. Len(c) PROVE c[i] = k * a[i] + zero * a[i]
    <3>1. a[i] \in Int /\ c[i] = a[i] * k
      OBVIOUS
    <3>2. QED
      BY <3>1
  <2>2. QED
    BY <2>1
<1>2. \A x \in Int : k * x + zero * x = x * k
  OBVIOUS
<1> HIDE DEF zero
<1>5. Combined(c, k, a, zero, a)
  BY <1>1 DEF Combined
<1>3. ToNat(c) = k * ToNat(a) + zero * ToNat(a)
  BY <1>1, <1>5, ToNatLinear
<1>4. QED
  BY <1>2, <1>3, ToNatType

(* Words give a number, and a leading word that is not zero a positive one.*)
LEMMA ToNatPositive ==
  ASSUME NEW a \in Seq(Nat)
  PROVE  /\ ToNat(a) \in Nat
         /\ Len(a) > 0 /\ a[Len(a)] # 0 => ToNat(a) > 0
<1> DEFINE n == Len(a)
           B == Base
           low == IF n > 0 /\ a[n] # 0 THEN 1 ELSE 0
<1>1. PICK h : HornerOf(a, h)
  BY ToNatUnfolds
<1>2. n \in Nat /\ B \in Nat /\ B >= 2 /\ \A i \in 1 .. n : a[i] \in Nat
  BY BaseProperties
<1>3. /\ h[0] = 0 /\ ToNat(a) = h[n]
      /\ \A i \in 1 .. n : h[i] = h[i - 1] * B + a[n + 1 - i]
  BY <1>1 DEF HornerOf
<1> HIDE DEF n, B
<1> DEFINE T == {i \in 0 .. n : h[i] \in Nat /\ (i > 0 => h[i] >= low)}
<1>4. 0 \in T
  BY <1>2, <1>3
<1>5. ASSUME NEW i \in 0 .. n - 1, i \in T PROVE i + 1 \in T
  <2>1. h[i + 1] = h[i] * B + a[n - i]
    <3>1. (i + 1) - 1 = i /\ n + 1 - (i + 1) = n - i
      BY <1>2
    <3>2. QED
      BY <1>2, <1>3, <3>1
  <2>2. a[n - i] \in Nat /\ h[i] \in Nat
    BY <1>2, <1>5
  <2> DEFINE x == h[i]
             y == a[n - i]
  <2>3. h[i + 1] = x * B + y /\ x \in Nat /\ y \in Nat
    BY <2>1, <2>2
  <2>4. x * B \in Nat /\ x * B >= x
    <3> HIDE DEF x
    <3>1. QED
      BY <1>2, <2>3
  <2>5. CASE i = 0
    <3>1. y >= low /\ x = 0
      BY <1>2, <1>3, <2>5
    <3>2. QED
      BY <1>2, <2>3, <2>4, <3>1
  <2>6. CASE i > 0
    <3>1. x >= low /\ low \in Nat
      BY <1>5, <2>6
    <3>2. x * B + y >= low /\ x * B + y \in Nat
      <4> HIDE DEF x, y, low
      <4>1. QED
        BY <1>2, <2>3, <2>4, <3>1
    <3>3. QED
      BY <1>2, <2>3, <3>2
  <2>7. QED
    BY <2>5, <2>6
<1>6. n \in T
  <2> HIDE DEF T
  <2>1. \A i \in 0 .. n : i \in T
    BY <1>2, <1>4, <1>5, UpTo
  <2>2. QED
    BY <1>2, <2>1
<1>7. QED
  BY <1>2, <1>3, <1>6 DEF n

(* One round of the scheme keeps the order of two numbers.                 *)
LEMMA RoundLess ==
  ASSUME NEW x \in Nat, NEW y \in Nat, NEW p \in Nat, NEW q \in Nat, NEW B \in Nat,
         p < B, x < y \/ (x = y /\ p < q)
  PROVE  x * B + p < y * B + q
<1>1. CASE x = y /\ p < q
  BY <1>1
<1>2. CASE x < y
  <2>1. (x + 1) * B <= y * B
    BY <1>2
  <2>2. (x + 1) * B = x * B + B
    OBVIOUS
  <2>3. x * B \in Nat /\ y * B \in Nat
    OBVIOUS
  <2>4. QED
    BY <2>1, <2>2, <2>3
<1>3. QED
  BY <1>1, <1>2

(* Of two rows of words the one with the smaller word where they first     *)
(* differ, seen from the top, is the smaller number.                       *)
LEMMA ToNatLess ==
  ASSUME NEW a \in Seq(Word), NEW b \in Seq(Word), Len(a) = Len(b),
         NEW d \in 1 .. Len(a), a[d] < b[d], \A i \in d + 1 .. Len(a) : a[i] = b[i]
  PROVE  ToNat(a) < ToNat(b)
<1> DEFINE n == Len(a)
           B == Base
<1>1. B \in Nat /\ B >= 2 /\ Word = 0 .. B - 1
  BY BaseProperties DEF Word
<1>2. a \in Seq(Int) /\ b \in Seq(Int)
  BY <1>1
<1>3. PICK g : HornerOf(a, g)
  BY <1>2, ToNatUnfolds
<1>4. PICK h : HornerOf(b, h)
  BY <1>2, ToNatUnfolds
<1>5. n \in Nat /\ d \in 1 .. n /\ \A i \in 1 .. n : a[i] \in 0 .. B - 1 /\ b[i] \in 0 .. B - 1
  BY <1>1
<1>6. /\ g[0] = 0 /\ ToNat(a) = g[n]
      /\ \A i \in 1 .. n : g[i] = g[i - 1] * B + a[n + 1 - i]
  BY <1>3 DEF HornerOf
<1>7. /\ h[0] = 0 /\ ToNat(b) = h[n]
      /\ \A i \in 1 .. n : h[i] = h[i - 1] * B + b[n + 1 - i]
  BY <1>4 DEF HornerOf
<1>8. a[d] < b[d] /\ \A i \in d + 1 .. n : a[i] = b[i]
  OBVIOUS
<1> HIDE DEF n, B
<1> DEFINE T == {i \in 0 .. n : /\ g[i] \in Nat /\ h[i] \in Nat
                                /\ i <= n - d => g[i] = h[i]
                                /\ i > n - d => g[i] < h[i]}
<1>9. 0 \in T
  <2>1. 0 \in 0 .. n /\ 0 <= n - d
    BY <1>5
  <2>2. g[0] \in Nat /\ h[0] \in Nat /\ g[0] = h[0] /\ ~(0 > n - d)
    BY <1>5, <1>6, <1>7, <2>1
  <2>3. QED
    BY <2>1, <2>2
<1>10. ASSUME NEW i \in 0 .. n - 1, i \in T PROVE i + 1 \in T
  <2> DEFINE k == n - i
             x == g[i]
             y == h[i]
             p == a[k]
             q == b[k]
  <2>1. (i + 1) - 1 = i /\ n + 1 - (i + 1) = k /\ k \in 1 .. n /\ i + 1 \in 1 .. n
    BY <1>5
  <2> HIDE DEF k
  <2>2. g[i + 1] = x * B + p /\ h[i + 1] = y * B + q
    BY <1>6, <1>7, <2>1
  <2>3. x \in Nat /\ y \in Nat /\ p \in 0 .. B - 1 /\ q \in 0 .. B - 1
    BY <1>5, <1>10, <2>1
  <2>4. x * B + p \in Nat /\ y * B + q \in Nat
    <3> HIDE DEF x, y, p, q
    <3>1. x * B \in Nat /\ y * B \in Nat
      BY <1>1, <2>3
    <3>2. QED
      BY <2>3, <3>1
  <2>5. CASE i < n - d
    <3>1. x = y /\ p = q
      BY <1>5, <1>8, <1>10, <2>5 DEF k
    <3>2. QED
      BY <1>5, <2>2, <2>4, <2>5, <3>1
  <2>6. CASE i >= n - d
    <3>1. x < y \/ (x = y /\ p < q)
      <4>1. CASE i = n - d
        <5>1. k = d
          BY <1>5, <4>1 DEF k
        <5>2. QED
          BY <1>5, <1>8, <1>10, <4>1, <5>1
      <4>2. CASE i > n - d
        BY <1>5, <1>10, <4>2
      <4>3. QED
        BY <1>5, <2>6, <4>1, <4>2
    <3>2. x * B + p < y * B + q
      <4>1. p \in Nat /\ q \in Nat /\ p < B
        BY <1>1, <2>3
      <4> HIDE DEF x, y, p, q
      <4>2. QED
        BY <1>1, <2>3, <3>1, <4>1, RoundLess
    <3>3. QED
      BY <1>5, <2>2, <2>4, <2>6, <3>2
  <2>7. QED
    BY <1>5, <2>5, <2>6
<1>11. n \in T
  <2> HIDE DEF T
  <2>1. \A i \in 0 .. n : i \in T
    BY <1>5, <1>9, <1>10, UpTo
  <2>2. QED
    BY <1>5, <2>1
<1>12. QED
  BY <1>5, <1>6, <1>7, <1>11

-----------------------------------------------------------------------------
(* What the shared loop leaves are words, with what is left above them the *)
(* number that was in the columns.                                         *)
LEMMA RippleExact ==
  ASSUME NEW column \in Seq(Int), NEW in \in Int
  PROVE  LET r == Ripple(column, in)
         IN  /\ r.words \in Seq(Word) /\ Len(r.words) = Len(column) /\ r.out \in Int
             /\ ToNat(Append(r.words, r.out)) = ToNat(column) + in
<1> DEFINE n == Len(column)
           B == Base
           w == Ripple(column, in).words
           out == Ripple(column, in).out
           all == Append(w, out)
<1>1. PICK c : CarryOf(column, in, c)
  BY RippleUnfolds
<1>2. n \in Nat /\ B \in Nat /\ \A i \in 1 .. n : column[i] \in Int
  BY BaseProperties
<1>3. /\ c[0] = in /\ out = c[n] /\ \A i \in 0 .. n : c[i] \in Int
      /\ \A i \in 1 .. n : c[i] = (column[i] + c[i - 1]) \div B
      /\ w = [i \in 1 .. n |-> (column[i] + c[i - 1]) % B]
  <2>1. /\ c \in [0 .. n -> Int] /\ c[0] = in
        /\ \A i \in 1 .. n : c[i] = (column[i] + c[i - 1]) \div B
        /\ Ripple(column, in) = [words |-> [i \in 1 .. n |-> (column[i] + c[i - 1]) % B],
                                 out |-> c[n]]
    BY <1>1 DEF CarryOf
  <2> HIDE DEF n, B
  <2>2. out = c[n] /\ w = [i \in 1 .. n |-> (column[i] + c[i - 1]) % B]
    BY <2>1
  <2> HIDE DEF out, w
  <2>3. QED
    BY <2>1, <2>2
<1>4. ASSUME NEW i \in 1 .. n
      PROVE  /\ (column[i] + c[i - 1]) % B \in Word
             /\ column[i] + c[i - 1] = c[i] * B + w[i]
  <2>1. c[i - 1] \in Int /\ column[i] \in Int
    BY <1>2, <1>3
  <2> DEFINE v == column[i] + c[i - 1]
  <2>2. v \in Int
    BY <2>1
  <2>3. c[i] = v \div B /\ w[i] = v % B
    BY <1>3
  <2>4. v % B \in Word /\ v = (v \div B) * B + (v % B)
    <3> HIDE DEF v
    <3>1. QED
      BY <2>2, Splitting
  <2>5. QED
    BY <2>3, <2>4
<1>5. w \in Seq(Word) /\ Len(w) = n
  BY <1>2, <1>3, <1>4
<1>6. Word \subseteq Int
  BY BaseProperties DEF Word
<1> HIDE DEF w, out
<1>7. out \in Int /\ w \in Seq(Int)
  <2>1. n \in 0 .. n
    BY <1>2
  <2>2. out \in Int
    BY <1>3, <2>1
  <2>3. w \in Seq(Int)
    BY <1>5, WordsProperties
  <2>4. QED
    BY <2>2, <2>3
<1>8. all \in Seq(Int) /\ Len(all) = n + 1 /\ all[n + 1] = out /\ \A i \in 1 .. n : all[i] = w[i]
  BY <1>5, <1>7
<1>9. PICK g : HornerOf(column, g)
  BY ToNatUnfolds
<1>10. PICK h : HornerOf(all, h)
  <2> HIDE DEF all
  <2>1. QED
    BY <1>8, ToNatUnfolds
<1>11. /\ g[0] = 0 /\ ToNat(column) = g[n] /\ \A i \in 0 .. n : g[i] \in Int
       /\ \A i \in 1 .. n : g[i] = g[i - 1] * B + column[n + 1 - i]
  BY <1>9 DEF HornerOf
<1>12. /\ h[0] = 0 /\ ToNat(all) = h[n + 1]
       /\ \A i \in 1 .. n + 1 : h[i] = h[i - 1] * B + all[n + 2 - i]
  <2>1. Len(all) = n + 1 /\ (n + 1) + 1 = n + 2
    BY <1>2, <1>8
  <2> HIDE DEF all, n
  <2>2. /\ h[0] = 0 /\ ToNat(all) = h[Len(all)]
        /\ \A i \in 1 .. Len(all) : h[i] = h[i - 1] * B + all[Len(all) + 1 - i]
    BY <1>10 DEF HornerOf
  <2>3. ASSUME NEW i \in 1 .. n + 1 PROVE h[i] = h[i - 1] * B + all[n + 2 - i]
    <3>1. (n + 1) + 1 - i = n + 2 - i
      BY <1>2
    <3>2. h[i] = h[i - 1] * B + all[(n + 1) + 1 - i]
      BY <2>1, <2>2
    <3>3. QED
      BY <3>1, <3>2
  <2>4. QED
    BY <2>1, <2>2, <2>3
<1> HIDE DEF n, B, all
<1> DEFINE T == {i \in 0 .. n : h[i + 1] = g[i] + c[n - i]}
<1>13. 0 \in T
  <2>1. h[1] = h[0] * B + all[n + 1]
    <3>1. 1 \in 1 .. n + 1 /\ 1 - 1 = 0 /\ n + 2 - 1 = n + 1
      BY <1>2
    <3>2. QED
      BY <1>12, <3>1
  <2>2. h[1] = out /\ 0 + 1 = 1 /\ n - 0 = n
    BY <1>2, <1>7, <1>8, <1>12, <2>1
  <2>3. QED
    BY <1>2, <1>3, <1>7, <1>11, <2>2
<1>14. ASSUME NEW i \in 0 .. n - 1, i \in T PROVE i + 1 \in T
  <2> DEFINE k == n - i
  <2>1. /\ k \in 1 .. n /\ i + 1 \in 1 .. n /\ (i + 1) - 1 = i /\ n + 1 - (i + 1) = k
        /\ (i + 1) + 1 \in 1 .. n + 1 /\ ((i + 1) + 1) - 1 = i + 1
        /\ n + 2 - ((i + 1) + 1) = k /\ n - (i + 1) = k - 1
    BY <1>2
  <2> HIDE DEF k
  <2>2. g[i + 1] = g[i] * B + column[k]
    BY <1>11, <2>1
  <2>3. h[(i + 1) + 1] = h[i + 1] * B + w[k]
    BY <1>8, <1>12, <2>1
  <2>4. h[i + 1] = g[i] + c[k]
    BY <1>14 DEF k
  <2>5. column[k] + c[k - 1] = c[k] * B + w[k]
    BY <1>4, <2>1
  <2>6. /\ g[i] \in Int /\ c[k] \in Int /\ c[k - 1] \in Int /\ column[k] \in Int
        /\ w[k] \in Int
    <3>1. k - 1 \in 0 .. n /\ k \in 0 .. n /\ i \in 0 .. n
      BY <1>2, <2>1
    <3>2. w[k] \in Int
      BY <1>7, <1>5, <2>1
    <3>3. QED
      BY <1>2, <1>3, <1>11, <2>1, <3>1, <3>2
  <2>7. h[(i + 1) + 1] = g[i + 1] + c[k - 1]
    <3> DEFINE x == g[i]
               y == c[k]
               z == c[k - 1]
               p == column[k]
               q == w[k]
    <3>1. x \in Int /\ y \in Int /\ z \in Int /\ p \in Int /\ q \in Int /\ p + z = y * B + q
      BY <2>5, <2>6
    <3>2. h[(i + 1) + 1] = (x + y) * B + q /\ g[i + 1] = x * B + p
      BY <2>2, <2>3, <2>4
    <3> HIDE DEF x, y, p, q
    <3>3. (x + y) * B + q = (x * B + p) + z
      <4> HIDE DEF z
      <4>1. (x + y) * B = x * B + y * B /\ x * B \in Int /\ y * B \in Int
        BY <1>2, <3>1
      <4>2. QED
        BY <1>2, <3>1, <4>1
    <3>4. QED
      BY <3>2, <3>3
  <2>8. QED
    BY <1>2, <2>1, <2>7
<1>15. n \in T
  <2> HIDE DEF T
  <2>1. \A i \in 0 .. n : i \in T
    BY <1>2, <1>13, <1>14, UpTo
  <2>2. QED
    BY <1>2, <2>1
<1>16. ToNat(all) = ToNat(column) + in
  BY <1>2, <1>3, <1>11, <1>12, <1>15
<1>17. QED
  BY <1>5, <1>7, <1>16 DEF all, w, out, n

(* The carry stays within the bounds its columns leave it.                 *)
LEMMA RippleRange ==
  ASSUME NEW column \in Seq(Int), NEW in \in Int, NEW l \in Int, NEW u \in Int,
         l <= in, in <= u,
         \A i \in 1 .. Len(column) :
           l * Base - l <= column[i] /\ column[i] <= u * Base + WordMax - u
  PROVE  l <= Ripple(column, in).out /\ Ripple(column, in).out <= u
<1> DEFINE n == Len(column)
           B == Base
           lb == l * B
           ub == u * B
<1>1. PICK c : CarryOf(column, in, c)
  BY RippleUnfolds
<1>2. /\ n \in Nat /\ B \in Nat /\ B >= 2 /\ lb \in Int /\ ub \in Int
      /\ \A i \in 1 .. n : column[i] \in Int
  BY BaseProperties
<1>3. \A i \in 1 .. n : lb - l <= column[i] /\ column[i] <= ub + (B - 1) - u
  BY BaseProperties
<1>4. /\ c[0] = in /\ Ripple(column, in).out = c[n] /\ \A i \in 0 .. n : c[i] \in Int
      /\ \A i \in 1 .. n : c[i] = (column[i] + c[i - 1]) \div B
  BY <1>1, SMTT(40) DEF CarryOf
<1> HIDE DEF n, B
<1> DEFINE T == {i \in 0 .. n : l <= c[i] /\ c[i] <= u}
<1>5. 0 \in T
  BY <1>2, <1>4
<1>6. ASSUME NEW i \in 0 .. n - 1, i \in T PROVE i + 1 \in T
  <2> DEFINE v == column[i + 1] + c[i]
             q == v \div B
  <2>1. i + 1 \in 1 .. n /\ (i + 1) - 1 = i
    BY <1>2
  <2>2. v \in Int /\ c[i + 1] = q
    BY <1>2, <1>4, <2>1
  <2>3. lb <= v /\ v <= ub + (B - 1)
    <3>1. l <= c[i] /\ c[i] <= u /\ c[i] \in Int /\ column[i + 1] \in Int
      BY <1>2, <1>4, <1>6, <2>1
    <3>2. lb - l <= column[i + 1] /\ column[i + 1] <= ub + (B - 1) - u
      BY <1>3, <2>1
    <3> HIDE DEF lb, ub
    <3>3. QED
      BY <1>2, <3>1, <3>2, SMTT(40)
  <2> HIDE DEF v
  <2>4. q \in Int /\ q * B <= v /\ v < q * B + B
    BY <1>2, <2>2
  <2> HIDE DEF q
  <2>5. l <= q
    <3>1. SUFFICES ASSUME q + 1 <= l PROVE FALSE
      BY <2>4
    <3>2. (q + 1) * B <= l * B /\ (q + 1) * B = q * B + B
      BY <1>2, <2>4, <3>1
    <3>3. QED
      BY <1>2, <2>2, <2>3, <2>4, <3>2
  <2>6. q <= u
    <3>1. SUFFICES ASSUME u + 1 <= q PROVE FALSE
      BY <2>4
    <3>2. (u + 1) * B <= q * B /\ (u + 1) * B = u * B + B
      BY <1>2, <2>4, <3>1
    <3>3. QED
      BY <1>2, <2>2, <2>3, <2>4, <3>2
  <2>7. QED
    BY <1>2, <2>1, <2>2, <2>5, <2>6
<1>7. n \in T
  <2> HIDE DEF T
  <2>1. \A i \in 0 .. n : i \in T
    BY <1>2, <1>5, <1>6, UpTo
  <2>2. QED
    BY <1>2, <2>1
<1>8. QED
  BY <1>4, <1>7

(* Nothing leaves a positive top column: a word of it stays.               *)
LEMMA RippleTop ==
  ASSUME NEW column \in Seq(Nat), NEW in \in Nat, Len(column) > 0,
         column[Len(column)] > 0, Ripple(column, in).out = 0
  PROVE  Ripple(column, in).words[Len(column)] # 0
<1> DEFINE n == Len(column)
           B == Base
<1>1. column \in Seq(Int) /\ in \in Int
  OBVIOUS
<1>2. PICK c : CarryOf(column, in, c)
  BY <1>1, RippleUnfolds
<1>3. /\ n \in Nat /\ n >= 1 /\ B \in Nat /\ B >= 2 /\ column[n] > 0
      /\ \A i \in 1 .. n : column[i] \in Nat
  BY BaseProperties
<1>4. /\ c[0] = in /\ c[n] = 0 /\ \A i \in 0 .. n : c[i] \in Int
      /\ \A i \in 1 .. n : c[i] = (column[i] + c[i - 1]) \div B
      /\ Ripple(column, in).words = [i \in 1 .. n |-> (column[i] + c[i - 1]) % B]
  <2>1. /\ c \in [0 .. n -> Int] /\ c[0] = in
        /\ \A i \in 1 .. n : c[i] = (column[i] + c[i - 1]) \div B
        /\ Ripple(column, in) = [words |-> [i \in 1 .. n |-> (column[i] + c[i - 1]) % B],
                                 out |-> c[n]]
    BY <1>2 DEF CarryOf
  <2> HIDE DEF n, B
  <2>2. Ripple(column, in).words = [i \in 1 .. n |-> (column[i] + c[i - 1]) % B]
        /\ Ripple(column, in).out = c[n]
    BY <2>1
  <2>3. QED
    BY <2>1, <2>2
<1> HIDE DEF n, B
<1>5. c[n - 1] \in Nat
  <2> DEFINE T == {i \in 0 .. n : c[i] \in Nat}
  <2>1. 0 \in T
    BY <1>3, <1>4
  <2>2. ASSUME NEW i \in 0 .. n - 1, i \in T PROVE i + 1 \in T
    <3>1. i + 1 \in 1 .. n /\ (i + 1) - 1 = i
      BY <1>3
    <3>2. c[i + 1] = (column[i + 1] + c[i]) \div B
      BY <1>4, <3>1
    <3>3. column[i + 1] \in Nat /\ c[i] \in Nat
      BY <1>3, <2>2, <3>1
    <3> DEFINE x == column[i + 1] + c[i]
    <3>4. x \in Nat
      BY <3>3
    <3>5. x \div B \in Nat
      <4> HIDE DEF x
      <4>1. QED
        BY <1>3, <3>4
    <3>6. QED
      BY <1>3, <3>1, <3>2, <3>5
  <2>3. \A i \in 0 .. n : i \in T
    <3> HIDE DEF T
    <3>1. QED
      BY <1>3, <2>1, <2>2, UpTo
  <2>4. QED
    BY <1>3, <2>3
<1> DEFINE v == column[n] + c[n - 1]
<1>6. v \in Nat /\ v > 0 /\ v \div B = 0
  <2>1. n \in 1 .. n /\ column[n] \in Nat
    BY <1>3
  <2>2. c[n] = (column[n] + c[n - 1]) \div B
    BY <1>4, <2>1
  <2> DEFINE x == column[n]
             y == c[n - 1]
  <2>3. x \in Nat /\ x > 0 /\ y \in Nat /\ (x + y) \div B = 0
    BY <1>3, <1>4, <1>5, <2>1, <2>2
  <2>4. v = x + y
    OBVIOUS
  <2> HIDE DEF x, y, v
  <2>5. QED
    BY <2>3, <2>4
<1>7. Ripple(column, in).words[n] = v % B
  BY <1>3, <1>4
<1>8. v % B = v
  <2> HIDE DEF v
  <2>1. v = (v \div B) * B + (v % B)
    BY <1>3, <1>6
  <2>2. (v \div B) * B = 0 /\ v % B \in Int
    BY <1>3, <1>6
  <2>3. QED
    BY <1>6, <2>1, <2>2
<1>9. QED
  BY <1>6, <1>7, <1>8 DEF n

(* The loop with its carry appended, when the carry is a word.             *)
LEMMA WithCarryExact ==
  ASSUME NEW column \in Seq(Int), NEW in \in Int, Ripple(column, in).out \in Word
  PROVE  LET r == WithCarry(Ripple(column, in))
         IN  /\ r \in Seq(Word) /\ ToNat(r) = ToNat(column) + in
             /\ Len(r) \in {Len(column), Len(column) + 1}
<1> DEFINE w == Ripple(column, in).words
           out == Ripple(column, in).out
<1>1. /\ w \in Seq(Word) /\ Len(w) = Len(column) /\ out \in Int
      /\ ToNat(Append(w, out)) = ToNat(column) + in
  BY RippleExact
<1>2. WithCarry(Ripple(column, in)) = IF out = 0 THEN w ELSE Append(w, out)
  BY DEF WithCarry
<1>3. out \in Word
  OBVIOUS
<1> HIDE DEF w, out
<1>4. CASE out = 0
  <2> DEFINE b == Append(w, out)
  <2>1. w \in Seq(Int)
    BY <1>1, WordsProperties
  <2>2. /\ b \in Seq(Int) /\ Len(b) = Len(w) + 1 /\ Len(w) \in Nat
        /\ \A i \in 1 .. Len(w) : b[i] = w[i]
        /\ b[Len(w) + 1] = 0
    BY <1>1, <1>4, <2>1
  <2>3. /\ Len(w) <= Len(b) /\ \A i \in Len(w) + 1 .. Len(b) : b[i] = 0
    <3> HIDE DEF b
    <3>1. QED
      BY <2>2
  <2> HIDE DEF b
  <2>4. ToNat(b) = ToNat(w)
    BY <2>1, <2>2, <2>3, ToNatPadded
  <2>5. QED
    BY <1>1, <1>2, <1>4, <2>4 DEF b
<1>5. CASE out # 0
  <2>1. Append(w, out) \in Seq(Word) /\ Len(Append(w, out)) = Len(w) + 1
    BY <1>1, <1>3
  <2>2. QED
    BY <1>1, <1>2, <1>5, <2>1
<1>6. QED
  BY <1>4, <1>5

-----------------------------------------------------------------------------
(* No leading zero word.                                                   *)
Trimmed(a) == a = << >> \/ a[Len(a)] # 0

(* eraseZerosSuffix leaves the number, and no leading zero.                *)
LEMMA EraseProperties ==
  ASSUME NEW a \in Seq(Word)
  PROVE  /\ TopWord(a) \in 0 .. Len(a)
         /\ EraseZerosSuffix(a) \in Seq(Word) /\ Len(EraseZerosSuffix(a)) = TopWord(a)
         /\ ToNat(EraseZerosSuffix(a)) = ToNat(a)
         /\ Trimmed(EraseZerosSuffix(a))
         /\ Trimmed(a) => EraseZerosSuffix(a) = a
<1> DEFINE n == Len(a)
           S == {0} \cup {i \in DOMAIN a : a[i] # 0}
           t == TopWord(a)
           e == EraseZerosSuffix(a)
<1>1. n \in Nat /\ DOMAIN a = 1 .. n /\ a \in Seq(Int) /\ \A i \in 1 .. n : a[i] \in Word
  BY WordsProperties
<1>2. S \subseteq 0 .. n /\ S # {}
  BY <1>1
<1>3. t = Max(S) /\ t \in S /\ \A y \in S : y <= t
  <2>1. t = Max(S)
    BY DEF TopWord
  <2> HIDE DEF S, n, t
  <2>2. QED
    BY <1>1, <1>2, <2>1, MaxProperties
<1>4. t \in 0 .. n /\ (t # 0 => a[t] # 0) /\ \A i \in t + 1 .. n : a[i] = 0
  <2>1. t \in 0 .. n /\ (t # 0 => a[t] # 0)
    BY <1>2, <1>3
  <2>2. ASSUME NEW i \in t + 1 .. n PROVE a[i] = 0
    <3>1. i \in DOMAIN a /\ ~(i <= t)
      BY <1>1, <2>1
    <3>2. QED
      BY <1>3, <3>1
  <2>3. QED
    BY <2>1, <2>2
<1>5. e = SubSeq(a, 1, t)
  BY DEF EraseZerosSuffix
<1> HIDE DEF S, t, e
<1>6. e \in Seq(Word) /\ Len(e) = t /\ \A i \in 1 .. t : e[i] = a[i]
  BY <1>1, <1>4, <1>5
<1>7. e \in Seq(Int)
  BY <1>6, WordsProperties
<1>8. ToNat(a) = ToNat(e)
  <2>1. /\ Len(e) <= Len(a) /\ \A i \in 1 .. Len(e) : a[i] = e[i]
        /\ \A i \in Len(e) + 1 .. Len(a) : a[i] = 0
    BY <1>1, <1>4, <1>6
  <2>2. QED
    BY ONLY <1>1, <1>7, <2>1, ToNatPadded
<1>9. Trimmed(e)
  BY <1>1, <1>4, <1>6 DEF Trimmed
<1>10. ASSUME Trimmed(a) PROVE e = a
  <2>1. t = n
    <3>1. CASE n = 0
      BY <1>1, <1>4, <3>1
    <3>2. CASE n # 0
      <4>1. a[n] # 0 /\ n \in 1 .. n
        BY <1>1, <1>10, <3>2 DEF Trimmed
      <4>2. ASSUME t # n PROVE FALSE
        <5>1. n \in Nat /\ t \in 0 .. n
          BY <1>1, <1>4
        <5>2. n \in t + 1 .. n
          BY <4>2, <5>1
        <5>3. QED
          BY <1>4, <4>1, <5>2
      <4>3. QED
        BY <4>2
    <3>3. QED
      BY <3>1, <3>2
  <2>2. Len(e) = Len(a) /\ \A i \in 1 .. Len(e) : e[i] = a[i]
    BY <1>6, <2>1
  <2>3. QED
    BY <1>6, <2>2, SeqEqual
<1>11. QED
  BY <1>4, <1>6, <1>8, <1>9, <1>10 DEF t, e

-----------------------------------------------------------------------------
(* The greater of two.                                                     *)
LEMMA MaxOfTwo ==
  ASSUME NEW x \in Nat, NEW y \in Nat
  PROVE  /\ Max({x, y}) \in Nat /\ Max({x, y}) \in {x, y}
         /\ x <= Max({x, y}) /\ y <= Max({x, y})
<1>1. {x, y} \subseteq 0 .. x + y /\ {x, y} # {} /\ x + y \in Nat
  OBVIOUS
<1>2. Max({x, y}) \in {x, y} /\ \A z \in {x, y} : z <= Max({x, y})
  <2> DEFINE S == {x, y}
             n == x + y
  <2>1. S \subseteq 0 .. n /\ S # {} /\ n \in Nat
    BY <1>1
  <2>2. Max(S) \in S /\ \A z \in S : z <= Max(S)
    <3> HIDE DEF S, n
    <3>1. QED
      BY <2>1, MaxProperties
  <2>3. QED
    BY <2>2
<1>3. QED
  BY <1>2

(* The digits of a up to place m.                                          *)
Digits(a, m) == [i \in 1 .. m |-> Digit(a, i)]

(* Digits up to place m are the words and zeros above them.                *)
LEMMA DigitsProperties ==
  ASSUME NEW a \in Seq(Word), NEW m \in Nat, Len(a) <= m
  PROVE  /\ Digits(a, m) \in Seq(Word) /\ Len(Digits(a, m)) = m
         /\ ToNat(Digits(a, m)) = ToNat(a)
         /\ \A i \in 1 .. m : Digits(a, m)[i] = Digit(a, i)
         /\ \A i \in 1 .. m : Digit(a, i) \in Nat /\ Digit(a, i) <= WordMax
         /\ \A i \in 1 .. Len(a) : Digit(a, i) = a[i]
         /\ \A i \in Len(a) + 1 .. m : Digit(a, i) = 0
<1> DEFINE n == Len(a)
           d == Digits(a, m)
<1>1. n \in Nat /\ DOMAIN a = 1 .. n /\ a \in Seq(Int) /\ \A i \in 1 .. n : a[i] \in Word
  BY WordsProperties
<1>2. Word = 0 .. WordMax /\ WordMax \in Nat
  BY BaseProperties DEF Word
<1> HIDE DEF n
<1>3. /\ \A i \in 1 .. n : Digit(a, i) = a[i]
      /\ \A i \in n + 1 .. m : Digit(a, i) = 0
  BY <1>1 DEF Digit
<1>4. \A i \in 1 .. m : Digit(a, i) \in Word
  BY <1>1, <1>2 DEF Digit
<1>5. d \in Seq(Word) /\ Len(d) = m /\ \A i \in 1 .. m : d[i] = Digit(a, i)
  BY <1>4 DEF Digits
<1> HIDE DEF d
<1>6. d \in Seq(Int)
  BY <1>5, WordsProperties
<1>7. ToNat(d) = ToNat(a)
  <2>1. n <= m
    BY DEF n
  <2>2. /\ Len(a) <= Len(d) /\ \A i \in 1 .. Len(a) : d[i] = a[i]
        /\ \A i \in Len(a) + 1 .. Len(d) : d[i] = 0
    BY <1>1, <1>3, <1>5, <2>1 DEF n
  <2>3. QED
    BY ONLY <1>1, <1>6, <2>2, ToNatPadded
<1>8. QED
  BY <1>2, <1>3, <1>4, <1>5, <1>7 DEF n, d

(* addMag.                                                                 *)
LEMMA AddMagExact ==
  ASSUME NEW a \in Seq(Word), NEW b \in Seq(Word)
  PROVE  /\ AddMag(a, b) \in Seq(Word)
         /\ ToNat(AddMag(a, b)) = ToNat(a) + ToNat(b)
         /\ Len(AddMag(a, b)) \in {Max({Len(a), Len(b)}), Max({Len(a), Len(b)}) + 1}
         /\ Trimmed(a) /\ Trimmed(b) => Trimmed(AddMag(a, b))
<1> DEFINE m == Max({Len(a), Len(b)})
           da == Digits(a, m)
           db == Digits(b, m)
           col == [i \in 1 .. m |-> Digit(a, i) + Digit(b, i)]
           out == Ripple(col, 0).out
<1>1. /\ m \in Nat /\ Len(a) <= m /\ Len(b) <= m /\ Len(a) \in Nat /\ Len(b) \in Nat
      /\ m \in {Len(a), Len(b)}
  BY WordsProperties, MaxOfTwo
<1> HIDE DEF m
<1>2. /\ da \in Seq(Word) /\ Len(da) = m /\ ToNat(da) = ToNat(a)
      /\ \A i \in 1 .. m : da[i] = Digit(a, i) /\ Digit(a, i) \in Nat /\ Digit(a, i) <= WordMax
  BY <1>1, DigitsProperties
<1>3. /\ db \in Seq(Word) /\ Len(db) = m /\ ToNat(db) = ToNat(b)
      /\ \A i \in 1 .. m : db[i] = Digit(b, i) /\ Digit(b, i) \in Nat /\ Digit(b, i) <= WordMax
  BY <1>1, DigitsProperties
<1> HIDE DEF da, db
<1>4. /\ col \in Seq(Nat) /\ Len(col) = m
      /\ \A i \in 1 .. m : col[i] = da[i] + db[i]
      /\ \A i \in 1 .. m : col[i] = Digit(a, i) + Digit(b, i)
  BY <1>1, <1>2, <1>3
<1>5. AddMag(a, b) = WithCarry(Ripple(col, 0))
  BY DEF AddMag, m
<1> HIDE DEF col
<1>6. col \in Seq(Int) /\ da \in Seq(Int) /\ db \in Seq(Int)
  BY <1>2, <1>3, <1>4, WordsProperties
<1>7. ToNat(col) = ToNat(a) + ToNat(b)
  <2>1. /\ Len(da) = Len(col) /\ Len(db) = Len(col)
        /\ \A i \in 1 .. Len(col) : col[i] = da[i] + db[i]
    BY <1>2, <1>3, <1>4
  <2>2. ToNat(col) = ToNat(da) + ToNat(db)
    BY ONLY <1>6, <2>1, ToNatSum
  <2>3. QED
    BY <1>2, <1>3, <2>2
<1>8. 0 <= out /\ out <= 1
  <2>1. Base \in Nat /\ WordMax = Base - 1
    BY BaseProperties
  <2>2. \A i \in 1 .. Len(col) : /\ 0 * Base - 0 <= col[i]
                                 /\ col[i] <= 1 * Base + WordMax - 1
    BY <1>2, <1>3, <1>4, <2>1
  <2>3. 0 \in Int /\ 1 \in Int /\ 0 <= 0 /\ 0 <= 1
    OBVIOUS
  <2>4. QED
    BY <1>6, <2>2, <2>3, RippleRange
<1>9. out \in Int
  BY <1>6, RippleExact
<1> HIDE DEF out
<1>10. out \in Word
  BY <1>8, <1>9, BaseProperties DEF Word
<1>11. /\ AddMag(a, b) \in Seq(Word) /\ ToNat(AddMag(a, b)) = ToNat(col) + 0
       /\ Len(AddMag(a, b)) \in {m, m + 1}
  BY <1>4, <1>5, <1>6, <1>10, WithCarryExact DEF out
<1>12. ToNat(a) + ToNat(b) \in Int
  <2>1. a \in Seq(Int) /\ b \in Seq(Int)
    BY WordsProperties
  <2>2. QED
    BY <2>1, ToNatType
<1>13. ASSUME Trimmed(a), Trimmed(b) PROVE Trimmed(AddMag(a, b))
  <2> DEFINE w == Ripple(col, 0).words
  <2>1. /\ AddMag(a, b) = IF out = 0 THEN w ELSE Append(w, out)
        /\ w \in Seq(Word) /\ Len(w) = m
    BY <1>4, <1>5, <1>6, RippleExact DEF WithCarry, out
  <2>2. CASE m = 0 /\ out = 0
    <3>1. w = << >>
      BY <2>1, <2>2
    <3>2. QED
      BY <2>1, <2>2, <3>1 DEF Trimmed
  <2>3. CASE m > 0 /\ out = 0
    <3>1. col[m] > 0
      <4>1. m \in 1 .. m
        BY <1>1, <2>3
      <4>2. /\ col[m] = Digit(a, m) + Digit(b, m)
            /\ Digit(a, m) \in Nat /\ Digit(b, m) \in Nat
        BY <1>2, <1>3, <1>4, <4>1
      <4>3. CASE m = Len(a)
        <5>1. a[m] # 0 /\ Digit(a, m) = a[m]
          <6>1. a # << >> /\ m \in DOMAIN a
            BY <2>3, <4>1, <4>3
          <6>2. QED
            BY <1>13, <4>3, <6>1 DEF Trimmed, Digit
        <5>2. QED
          BY <4>2, <5>1
      <4>4. CASE m = Len(b)
        <5>1. b[m] # 0 /\ Digit(b, m) = b[m]
          <6>1. b # << >> /\ m \in DOMAIN b
            BY <2>3, <4>1, <4>4
          <6>2. QED
            BY <1>13, <4>4, <6>1 DEF Trimmed, Digit
        <5>2. QED
          BY <4>2, <5>1
      <4>5. QED
        BY <1>1, <4>3, <4>4
    <3>2. w[m] # 0
      <4>1. Len(col) > 0 /\ col[Len(col)] > 0 /\ Ripple(col, 0).out = 0 /\ 0 \in Nat
        BY <1>4, <2>3, <3>1 DEF out
      <4>2. Ripple(col, 0).words[Len(col)] # 0
        BY <1>4, <4>1, RippleTop
      <4>3. QED
        BY <1>4, <4>2
    <3>3. QED
      BY <2>1, <2>3, <3>2 DEF Trimmed
  <2>4. CASE out # 0
    <3> HIDE DEF w
    <3>1. Len(Append(w, out)) = m + 1 /\ Append(w, out)[m + 1] = out
      BY <1>1, <2>1, <1>10
    <3>2. QED
      BY <2>1, <2>4, <3>1 DEF Trimmed
  <2>5. QED
    BY <1>1, <2>2, <2>3, <2>4
<1>14. QED
  <2>1. ToNat(AddMag(a, b)) = ToNat(a) + ToNat(b)
    BY <1>7, <1>11, <1>12
  <2>2. QED
    BY <1>11, <1>13, <2>1 DEF m

(* A borrow that is left above the words makes the number negative.        *)
LEMMA NegativeTop ==
  ASSUME NEW w \in Seq(Word), NEW x \in Int, x <= -1
  PROVE  ToNat(Append(w, x)) <= -1
<1> DEFINE n == Len(w)
           B == Base
           a == Append(w, x)
<1>1. /\ n \in Nat /\ w \in Seq(Int)
      /\ \A i \in 1 .. n : w[i] \in Nat /\ w[i] <= B - 1
  <2>1. B \in Nat
    BY BaseProperties
  <2>2. QED
    BY <2>1, WordsProperties
<1>2. B \in Nat /\ B >= 2
  BY BaseProperties
<1>3. a \in Seq(Int) /\ Len(a) = n + 1 /\ a[n + 1] = x /\ \A i \in 1 .. n : a[i] = w[i]
  BY <1>1
<1> HIDE DEF n, B, a
<1>4. PICK h : HornerOf(a, h)
  BY <1>3, ToNatUnfolds
<1>5. /\ h[0] = 0 /\ ToNat(a) = h[n + 1]
      /\ \A i \in 1 .. n + 1 : h[i] = h[i - 1] * B + a[(n + 1) + 1 - i]
  BY <1>3, <1>4 DEF HornerOf, B
<1> DEFINE T == {i \in 0 .. n : h[i + 1] \in Int /\ h[i + 1] <= -1}
<1>6. 0 \in T
  <2>1. 1 \in 1 .. n + 1 /\ 1 - 1 = 0 /\ (n + 1) + 1 - 1 = n + 1 /\ 0 + 1 = 1
    BY <1>1
  <2>2. h[1] = h[0] * B + a[n + 1]
    BY <1>5, <2>1
  <2>3. h[1] = x
    BY <1>2, <1>3, <1>5, <2>2
  <2>4. QED
    BY <1>1, <2>1, <2>3
<1>7. ASSUME NEW i \in 0 .. n - 1, i \in T PROVE i + 1 \in T
  <2> DEFINE k == n - i
             y == h[i + 1]
             z == w[k]
  <2>1. /\ k \in 1 .. n /\ (i + 1) + 1 \in 1 .. n + 1 /\ ((i + 1) + 1) - 1 = i + 1
        /\ (n + 1) + 1 - ((i + 1) + 1) = k /\ i + 1 \in 0 .. n
    BY <1>1
  <2>2. h[(i + 1) + 1] = y * B + z
    <3> HIDE DEF k
    <3>1. h[(i + 1) + 1] = h[((i + 1) + 1) - 1] * B + a[(n + 1) + 1 - ((i + 1) + 1)]
      BY <1>5, <2>1
    <3>2. QED
      BY <1>3, <2>1, <3>1
  <2>3. y \in Int /\ y <= -1 /\ z \in Nat /\ z <= B - 1
    <3> HIDE DEF k
    <3>1. QED
      BY <1>1, <1>7, <2>1
  <2> HIDE DEF y, z
  <2>4. y * B \in Int /\ y * B <= - B
    <3>1. (y + 1) * B <= 0
      BY <1>2, <2>3
    <3>2. (y + 1) * B = y * B + B /\ y * B \in Int
      BY <1>2, <2>3
    <3>3. QED
      BY <1>2, <3>1, <3>2
  <2>5. QED
    BY <1>2, <2>1, <2>2, <2>3, <2>4
<1>8. n \in T
  <2> HIDE DEF T
  <2>1. \A i \in 0 .. n : i \in T
    BY <1>1, <1>6, <1>7, UpTo
  <2>2. QED
    BY <1>1, <2>1
<1>9. QED
  BY <1>5, <1>8 DEF a

(* A loop that leaves at most a borrow leaves none if the columns hold     *)
(* enough.                                                                 *)
LEMMA RippleNoBorrow ==
  ASSUME NEW column \in Seq(Int), NEW in \in Int,
         Ripple(column, in).out <= 0, ToNat(column) + in >= 0
  PROVE  LET r == Ripple(column, in)
         IN  /\ r.words \in Seq(Word) /\ Len(r.words) = Len(column) /\ r.out = 0
             /\ ToNat(r.words) = ToNat(column) + in
<1> DEFINE w == Ripple(column, in).words
           out == Ripple(column, in).out
           b == Append(w, out)
<1>1. /\ w \in Seq(Word) /\ Len(w) = Len(column) /\ out \in Int
      /\ ToNat(b) = ToNat(column) + in
  BY RippleExact
<1>2. out <= 0 /\ ToNat(column) + in >= 0 /\ ToNat(column) + in \in Int
  BY ToNatType
<1> HIDE DEF w, out
<1>3. out = 0
  <2>1. ASSUME out <= -1 PROVE FALSE
    <3>1. ToNat(b) <= -1
      BY <1>1, <2>1, NegativeTop
    <3> HIDE DEF b
    <3>2. QED
      BY <1>1, <1>2, <3>1
  <2>2. QED
    BY <1>1, <1>2, <2>1
<1>4. w \in Seq(Int) /\ Len(w) \in Nat
  BY <1>1, WordsProperties
<1>5. /\ b \in Seq(Int) /\ Len(b) = Len(w) + 1
      /\ \A i \in 1 .. Len(w) : b[i] = w[i]
      /\ b[Len(w) + 1] = 0
  BY <1>3, <1>4
<1> HIDE DEF b
<1>6. Len(w) <= Len(b) /\ \A i \in Len(w) + 1 .. Len(b) : b[i] = 0
  BY <1>4, <1>5
<1>7. ToNat(b) = ToNat(w)
  BY <1>4, <1>5, <1>6, ToNatPadded
<1>8. QED
  BY <1>1, <1>3, <1>7 DEF w, out

(* inc.                                                                    *)
LEMMA IncMagExact ==
  ASSUME NEW a \in Seq(Word)
  PROVE  /\ IncMag(a) \in Seq(Word) /\ ToNat(IncMag(a)) = ToNat(a) + 1
         /\ Len(IncMag(a)) \in {Len(a), Len(a) + 1}
<1> DEFINE out == Ripple(a, 1).out
<1>1. /\ a \in Seq(Int) /\ Len(a) \in Nat /\ 0 \in Int /\ 1 \in Int /\ 0 <= 1 /\ 1 <= 1
      /\ \A i \in 1 .. Len(a) : a[i] \in Nat /\ a[i] < Base
  BY WordsProperties
<1>2. \A i \in 1 .. Len(a) : 0 * Base - 0 <= a[i] /\ a[i] <= 1 * Base + WordMax - 1
  BY <1>1, BaseProperties
<1>3. 0 <= out /\ out <= 1
  BY <1>1, <1>2, RippleRange
<1>4. out \in Int
  BY <1>1, RippleExact
<1>5. out \in Word
  <2> HIDE DEF out
  <2>1. QED
    BY <1>3, <1>4, BaseProperties DEF Word
<1>6. QED
  BY <1>1, <1>5, WithCarryExact DEF IncMag

(* subMag drops its last borrow: there is none if b is not larger.         *)
LEMMA SubMagExact ==
  ASSUME NEW a \in Seq(Word), NEW b \in Seq(Word), Len(b) <= Len(a), ToNat(b) <= ToNat(a)
  PROVE  /\ SubMag(a, b) \in Seq(Word) /\ Len(SubMag(a, b)) = Len(a)
         /\ ToNat(SubMag(a, b)) = ToNat(a) - ToNat(b)
<1> DEFINE n == Len(a)
           db == Digits(b, n)
           col == [i \in DOMAIN a |-> a[i] - Digit(b, i)]
<1>1. /\ a \in Seq(Int) /\ b \in Seq(Int) /\ n \in Nat /\ DOMAIN a = 1 .. n
      /\ \A i \in 1 .. n : a[i] \in Nat /\ a[i] < Base
  BY WordsProperties
<1>2. /\ db \in Seq(Word) /\ Len(db) = n /\ ToNat(db) = ToNat(b)
      /\ \A i \in 1 .. n : db[i] = Digit(b, i) /\ Digit(b, i) \in Nat /\ Digit(b, i) <= WordMax
  BY <1>1, DigitsProperties
<1>3. col \in Seq(Int) /\ Len(col) = n /\ \A i \in 1 .. n : col[i] = a[i] - Digit(b, i)
  BY <1>1, <1>2
<1>4. SubMag(a, b) = Ripple(col, 0).words
  BY DEF SubMag
<1> HIDE DEF col, db
<1>5. db \in Seq(Int)
  BY <1>2, WordsProperties
<1>6. ToNat(col) = ToNat(a) - ToNat(b)
  <2>1. Len(a) = Len(col) /\ Len(db) = Len(col) /\ \A i \in 1 .. Len(col) : col[i] = a[i] - db[i]
    BY <1>2, <1>3
  <2>2. ToNat(col) = ToNat(a) - ToNat(db)
    BY ONLY <1>1, <1>3, <1>5, <2>1, ToNatDifference
  <2>3. QED
    BY <1>2, <2>2
<1>7. Ripple(col, 0).out <= 0
  <2> DEFINE minus == -1
             zero == 0
  <2>1. minus \in Int /\ zero \in Int /\ minus <= zero /\ zero <= zero
    OBVIOUS
  <2>2. ASSUME NEW i \in 1 .. Len(col)
        PROVE  minus * Base - minus <= col[i] /\ col[i] <= zero * Base + WordMax - zero
    <3>1. /\ col[i] = a[i] - Digit(b, i) /\ a[i] \in Nat /\ a[i] < Base
          /\ Digit(b, i) \in Nat /\ Digit(b, i) <= WordMax
      BY <1>1, <1>2, <1>3
    <3>2. QED
      BY <3>1, BaseProperties
  <2> HIDE DEF minus, zero
  <2>3. Ripple(col, zero).out <= zero
    BY <1>3, <2>1, <2>2, RippleRange
  <2>4. QED
    BY <2>3 DEF zero
<1>8. ToNat(col) + 0 >= 0 /\ ToNat(col) + 0 = ToNat(a) - ToNat(b)
  <2>1. ToNat(a) \in Int /\ ToNat(b) \in Int
    BY <1>1, ToNatType
  <2>2. QED
    BY <1>6, <2>1
<1>9. /\ Ripple(col, 0).words \in Seq(Word) /\ Len(Ripple(col, 0).words) = Len(col)
      /\ ToNat(Ripple(col, 0).words) = ToNat(col) + 0
  BY <1>3, <1>7, <1>8, RippleNoBorrow
<1>10. QED
  BY <1>3, <1>4, <1>8, <1>9

(* dec, of a magnitude that is not zero.                                   *)
LEMMA DecMagExact ==
  ASSUME NEW a \in Seq(Word), ToNat(a) > 0
  PROVE  /\ DecMag(a) \in Seq(Word) /\ Trimmed(DecMag(a)) /\ Len(DecMag(a)) <= Len(a)
         /\ ToNat(DecMag(a)) = ToNat(a) - 1
<1> DEFINE minus == -1
           zero == 0
           w == Ripple(a, minus).words
<1>1. /\ a \in Seq(Int) /\ Len(a) \in Nat
      /\ \A i \in 1 .. Len(a) : a[i] \in Nat /\ a[i] < Base
  BY WordsProperties
<1>2. minus \in Int /\ zero \in Int /\ minus <= zero /\ minus <= minus
  OBVIOUS
<1>3. ASSUME NEW i \in 1 .. Len(a)
      PROVE  minus * Base - minus <= a[i] /\ a[i] <= zero * Base + WordMax - zero
  BY <1>1, BaseProperties
<1>4. Ripple(a, minus).out <= zero
  <2> HIDE DEF minus, zero
  <2>1. QED
    BY <1>1, <1>2, <1>3, RippleRange
<1>5. ToNat(a) + minus >= 0 /\ ToNat(a) + minus = ToNat(a) - 1
  BY <1>1, ToNatType
<1>6. w \in Seq(Word) /\ Len(w) = Len(a) /\ ToNat(w) = ToNat(a) + minus
  <2>1. Ripple(a, minus).out <= 0
    BY <1>4
  <2> HIDE DEF minus
  <2>2. QED
    BY <1>1, <1>2, <1>5, <2>1, RippleNoBorrow
<1>7. DecMag(a) = EraseZerosSuffix(w)
  BY DEF DecMag
<1> HIDE DEF w, minus
<1>8. /\ EraseZerosSuffix(w) \in Seq(Word) /\ Trimmed(EraseZerosSuffix(w))
      /\ ToNat(EraseZerosSuffix(w)) = ToNat(w) /\ TopWord(w) \in 0 .. Len(w)
      /\ Len(EraseZerosSuffix(w)) = TopWord(w)
  BY <1>6, EraseProperties
<1>9. QED
  BY <1>1, <1>5, <1>6, <1>7, <1>8

-----------------------------------------------------------------------------
(* A shorter magnitude is smaller than one without leading zeros.          *)
LEMMA ShorterLess ==
  ASSUME NEW a \in Seq(Word), NEW b \in Seq(Word), Len(a) < Len(b), Trimmed(b)
  PROVE  ToNat(a) < ToNat(b)
<1> DEFINE n == Len(b)
           d == Digits(a, n)
<1>1. n \in Nat /\ Len(a) \in Nat /\ n > 0 /\ b[n] # 0 /\ \A i \in 1 .. n : b[i] \in Nat
  BY WordsProperties DEF Trimmed
<1>2. /\ d \in Seq(Word) /\ Len(d) = n /\ ToNat(d) = ToNat(a)
      /\ \A i \in 1 .. n : d[i] = Digit(a, i)
      /\ \A i \in Len(a) + 1 .. n : Digit(a, i) = 0
  BY <1>1, DigitsProperties
<1> HIDE DEF d, n
<1>3. n \in 1 .. Len(d) /\ Len(d) = Len(b) /\ d[n] < b[n] /\ \A i \in n + 1 .. Len(d) : d[i] = b[i]
  <2>1. n \in 1 .. n /\ n \in Len(a) + 1 .. n
    BY <1>1 DEF n
  <2>2. d[n] = 0 /\ b[n] > 0
    BY <1>1, <1>2, <2>1
  <2>3. QED
    BY <1>1, <1>2, <2>1, <2>2 DEF n
<1>4. QED
  BY ONLY <1>2, <1>3, b \in Seq(Word), ToNatLess

(* cmpMag.                                                                 *)
LEMMA CmpMagExact ==
  ASSUME NEW a \in Seq(Word), NEW b \in Seq(Word), Trimmed(a), Trimmed(b)
  PROVE  CmpMag(a, b) = IF ToNat(a) < ToNat(b) THEN -1
                        ELSE IF ToNat(a) = ToNat(b) THEN 0 ELSE 1
<1> DEFINE n == Len(a)
           diff == {i \in DOMAIN a : a[i] # b[i]}
           p == ToNat(a)
           q == ToNat(b)
<1>1. /\ n \in Nat /\ Len(b) \in Nat /\ DOMAIN a = 1 .. n /\ p \in Int /\ q \in Int
      /\ \A i \in 1 .. n : a[i] \in Nat
      /\ \A i \in 1 .. Len(b) : b[i] \in Nat
  BY WordsProperties, ToNatType
<1>2. CmpMag(a, b) = IF n # Len(b) THEN (IF n < Len(b) THEN -1 ELSE 1)
                     ELSE IF diff = {} THEN 0
                     ELSE IF a[Max(diff)] < b[Max(diff)] THEN -1 ELSE 1
  BY DEF CmpMag
<1>3. CASE n < Len(b)
  <2>1. p < q
    BY <1>3, ShorterLess
  <2> HIDE DEF p, q, n, diff
  <2>2. QED
    BY <1>1, <1>2, <1>3, <2>1 DEF p, q
<1>4. CASE n > Len(b)
  <2>1. q < p
    BY <1>1, <1>4, ShorterLess
  <2> HIDE DEF p, q, n, diff
  <2>2. p # q /\ ~(p < q) /\ n # Len(b) /\ ~(n < Len(b))
    BY <1>1, <1>4, <2>1
  <2>3. QED
    BY <1>2, <2>2 DEF p, q
<1>5. CASE n = Len(b) /\ diff = {}
  <2>1. \A i \in 1 .. Len(a) : a[i] = b[i]
    BY <1>1, <1>5
  <2>2. a = b
    BY <1>5, <2>1, SeqEqual
  <2> HIDE DEF diff
  <2>3. CmpMag(a, b) = 0 /\ p = q /\ ~(p < q)
    BY <1>1, <1>2, <1>5, <2>2
  <2>4. QED
    BY <2>3
<1>6. CASE n = Len(b) /\ diff # {}
  <2> DEFINE d == Max(diff)
  <2>1. d \in diff /\ \A i \in diff : i <= d
    <3>1. diff \subseteq 0 .. n
      BY <1>1
    <3> HIDE DEF diff, n
    <3>2. QED
      BY <1>1, <1>6, <3>1, MaxProperties
  <2>2. d \in 1 .. n /\ a[d] # b[d]
    BY <1>1, <2>1
  <2>3. \A i \in d + 1 .. n : a[i] = b[i]
    <3>1. TAKE i \in d + 1 .. n
    <3>2. i \in 1 .. n /\ ~(i <= d)
      BY <1>1, <2>2
    <3>3. QED
      BY <1>1, <2>1, <3>2
  <2>4. CmpMag(a, b) = IF a[d] < b[d] THEN -1 ELSE 1
    BY <1>2, <1>6
  <2> HIDE DEF d, diff
  <2>5. a[d] \in Nat /\ b[d] \in Nat
    BY <1>1, <1>6, <2>2
  <2>6. CASE a[d] < b[d]
    <3>1. p < q
      BY <1>6, <2>2, <2>3, <2>6, ToNatLess
    <3> HIDE DEF p, q
    <3>2. QED
      BY <2>4, <2>6, <3>1 DEF p, q
  <2>7. CASE b[d] < a[d]
    <3>1. d \in 1 .. Len(b) /\ Len(b) = Len(a) /\ \A i \in d + 1 .. Len(b) : b[i] = a[i]
      BY <1>6, <2>2, <2>3
    <3>2. q < p
      BY <2>7, <3>1, ToNatLess
    <3> HIDE DEF p, q
    <3>3. p # q /\ ~(p < q) /\ ~(a[d] < b[d])
      BY <1>1, <2>5, <2>7, <3>2
    <3>4. QED
      BY <2>4, <3>3 DEF p, q
  <2>8. QED
    BY <2>2, <2>5, <2>6, <2>7
<1>7. QED
  BY <1>1, <1>3, <1>4, <1>5, <1>6

-----------------------------------------------------------------------------
(* w[i] is what word i + 1 counts for: the i-th power of the base.         *)
Weights(w, n) ==
  w \in [0 .. n -> Int] /\ w[0] = 1 /\ \A i \in 1 .. n : w[i] = w[i - 1] * Base

(* There are weights for any number of words.                              *)
LEMMA WeightsExist ==
  ASSUME NEW n \in Nat
  PROVE  \E w : Weights(w, n)
<1> DEFINE B == Base
           S == Int
           one == 1
           step == [p \in Int \X (1 .. n) |-> p[1] * B]
<1>1. B \in Int
  BY BaseProperties
<1> HIDE DEF B
<1>2. one \in S /\ step \in [S \X (1 .. n) -> S]
  BY <1>1
<1>3. PICK w \in [0 .. n -> S] : Unfolds(w, n, one, step)
  <2> HIDE DEF S, one, step
  <2>1. QED
    BY <1>2, Recursion
<1>4. w[0] = 1 /\ \A i \in 1 .. n : w[i] = step[<<w[i - 1], i>>]
  BY <1>3 DEF Unfolds
<1>5. ASSUME NEW i \in 1 .. n PROVE w[i] = w[i - 1] * B
  <2>1. i - 1 \in 0 .. n
    OBVIOUS
  <2>2. w[i - 1] \in Int
    BY <1>3, <2>1
  <2>3. QED
    BY <1>4, <2>2
<1>6. QED
  BY <1>3, <1>4, <1>5 DEF Weights, B

(* Weights are positive.                                                   *)
LEMMA WeightsPositive ==
  ASSUME NEW n \in Nat, NEW w, Weights(w, n)
  PROVE  \A i \in 0 .. n : w[i] \in Nat /\ w[i] >= 1
<1> DEFINE T == {i \in 0 .. n : w[i] \in Nat /\ w[i] >= 1}
           B == Base
<1>1. B \in Nat /\ B >= 1
  BY BaseProperties
<1>2. w[0] = 1 /\ \A i \in 1 .. n : w[i] = w[i - 1] * B
  BY DEF Weights
<1> HIDE DEF B
<1>3. 0 \in T
  BY <1>2
<1>4. ASSUME NEW i \in 0 .. n - 1, i \in T PROVE i + 1 \in T
  <2>1. i + 1 \in 1 .. n /\ (i + 1) - 1 = i
    OBVIOUS
  <2>2. w[i + 1] = w[i] * B /\ w[i] \in Nat /\ w[i] >= 1
    BY <1>2, <1>4, <2>1
  <2>3. w[i] * B \in Nat /\ w[i] * B >= 1
    BY <1>1, <2>2
  <2>4. QED
    BY <2>1, <2>2, <2>3
<1>5. \A i \in 0 .. n : i \in T
  <2> HIDE DEF T
  <2>1. QED
    BY <1>3, <1>4, UpTo
<1>6. QED
  BY <1>5

(* Weights multiply as powers do.                                          *)
LEMMA WeightsMultiply ==
  ASSUME NEW n \in Nat, NEW w, Weights(w, n), NEW j \in 0 .. n, NEW k \in 0 .. n, j + k <= n
  PROVE  w[j + k] = w[j] * w[k]
<1> DEFINE T == {i \in 0 .. k : w[j + i] = w[j] * w[i]}
           B == Base
<1>1. B \in Int
  BY BaseProperties
<1>2. w[0] = 1 /\ (\A i \in 1 .. n : w[i] = w[i - 1] * B) /\ \A i \in 0 .. n : w[i] \in Int
  BY DEF Weights
<1> HIDE DEF B
<1>3. 0 \in T
  BY <1>2
<1>4. ASSUME NEW i \in 0 .. k - 1, i \in T PROVE i + 1 \in T
  <2>1. /\ i + 1 \in 1 .. n /\ (i + 1) - 1 = i /\ j + (i + 1) \in 1 .. n
        /\ (j + (i + 1)) - 1 = j + i /\ i + 1 \in 0 .. k /\ i \in 0 .. n
    OBVIOUS
  <2>2. w[i + 1] = w[i] * B /\ w[j + (i + 1)] = w[j + i] * B /\ w[j + i] = w[j] * w[i]
    BY <1>2, <1>4, <2>1
  <2>3. (w[j] * w[i]) * B = w[j] * (w[i] * B)
    BY <1>1, <1>2, <2>1
  <2>4. QED
    BY <2>1, <2>2, <2>3
<1>5. k \in T
  <2>1. k \in Nat /\ k \in 0 .. k
    OBVIOUS
  <2> HIDE DEF T
  <2>2. QED
    BY <1>3, <1>4, <2>1, UpTo
<1>6. QED
  BY <1>5

(* One round of the scheme below a weighted top.                           *)
LEMMA Regroup ==
  ASSUME NEW g \in Int, NEW v \in Int, NEW H \in Int, NEW B \in Int, NEW d \in Int
  PROVE  (g + v * H) * B + d = (g * B + d) + (v * B) * H
  OBVIOUS

(* The rows lo and, on top of it, hi.                                      *)
Parts(a, lo, hi) ==
  /\ a \in Seq(Int) /\ lo \in Seq(Int) /\ hi \in Seq(Int)
  /\ Len(a) = Len(lo) + Len(hi)
  /\ \A i \in 1 .. Len(lo) : a[i] = lo[i]
  /\ \A i \in 1 .. Len(hi) : a[Len(lo) + i] = hi[i]

(* The number of two rows, one on top of the other.                        *)
LEMMA ToNatParts ==
  ASSUME NEW a, NEW lo, NEW hi, Parts(a, lo, hi),
         NEW n \in Nat, NEW w, Weights(w, n), Len(lo) <= n
  PROVE  ToNat(a) = ToNat(lo) + w[Len(lo)] * ToNat(hi)
<1> DEFINE l == Len(lo)
           m == Len(hi)
           B == Base
           H == ToNat(hi)
<1> USE DEF Parts
<1>1. PICK f : HornerOf(a, f)
  BY ToNatUnfolds
<1>2. PICK g : HornerOf(lo, g)
  BY ToNatUnfolds
<1>3. PICK h : HornerOf(hi, h)
  BY ToNatUnfolds
<1>4. l \in Nat /\ m \in Nat /\ l <= n /\ Len(a) = l + m /\ B \in Int /\ H \in Int
  BY BaseProperties, ToNatType
<1>5. /\ f[0] = 0 /\ ToNat(a) = f[l + m] /\ \A i \in 0 .. l + m : f[i] \in Int
      /\ \A i \in 1 .. l + m : f[i] = f[i - 1] * B + a[(l + m) + 1 - i]
  BY <1>1, <1>4 DEF HornerOf
<1>6. /\ g[0] = 0 /\ ToNat(lo) = g[l] /\ \A i \in 0 .. l : g[i] \in Int
      /\ \A i \in 1 .. l : g[i] = g[i - 1] * B + lo[l + 1 - i]
  BY <1>2, <1>4 DEF HornerOf
<1>7. /\ h[0] = 0 /\ H = h[m] /\ \A i \in 0 .. m : h[i] \in Int
      /\ \A i \in 1 .. m : h[i] = h[i - 1] * B + hi[m + 1 - i]
  BY <1>3, <1>4 DEF HornerOf
<1>8. /\ w[0] = 1 /\ \A i \in 0 .. n : w[i] \in Int
      /\ \A i \in 1 .. n : w[i] = w[i - 1] * B
  BY DEF Weights
<1>9. /\ \A i \in 1 .. l : a[i] = lo[i] /\ lo[i] \in Int
      /\ \A i \in 1 .. m : a[l + i] = hi[i] /\ hi[i] \in Int
  OBVIOUS
<1> HIDE DEF l, m, B, H, Parts
<1>10. f[m] = H
  <2> DEFINE T == {i \in 0 .. m : f[i] = h[i]}
  <2>1. 0 \in T
    BY <1>4, <1>5, <1>7
  <2>2. ASSUME NEW i \in 0 .. m - 1, i \in T PROVE i + 1 \in T
    <3>1. /\ i + 1 \in 1 .. m /\ i + 1 \in 1 .. l + m /\ (i + 1) - 1 = i /\ i + 1 \in 0 .. m
          /\ (l + m) + 1 - (i + 1) = l + (m + 1 - (i + 1)) /\ m + 1 - (i + 1) \in 1 .. m
      BY <1>4
    <3>2. a[(l + m) + 1 - (i + 1)] = hi[m + 1 - (i + 1)]
      BY <1>9, <3>1
    <3>3. f[i + 1] = f[i] * B + a[(l + m) + 1 - (i + 1)]
      BY <1>5, <3>1
    <3>4. h[i + 1] = h[i] * B + hi[m + 1 - (i + 1)]
      BY <1>7, <3>1
    <3>5. f[i] = h[i]
      BY <2>2
    <3>6. QED
      BY <3>1, <3>2, <3>3, <3>4, <3>5
  <2>3. m \in 0 .. m
    BY <1>4
  <2> HIDE DEF T
  <2>4. m \in T
    BY <1>4, <2>1, <2>2, <2>3, UpTo
  <2>5. QED
    BY <1>7, <2>4 DEF T
<1>11. f[m + l] = g[l] + w[l] * H
  <2> DEFINE T == {i \in 0 .. l : f[m + i] = g[i] + w[i] * H}
  <2>1. 0 \in T
    BY <1>4, <1>6, <1>8, <1>10
  <2>2. ASSUME NEW i \in 0 .. l - 1, i \in T PROVE i + 1 \in T
    <3>1. /\ i + 1 \in 1 .. l /\ i + 1 \in 1 .. n /\ (i + 1) - 1 = i /\ i + 1 \in 0 .. l
          /\ m + (i + 1) \in 1 .. l + m /\ (m + (i + 1)) - 1 = m + i /\ i \in 0 .. l
          /\ (l + m) + 1 - (m + (i + 1)) = l + 1 - (i + 1) /\ l + 1 - (i + 1) \in 1 .. l
          /\ i \in 0 .. n
      BY <1>4
    <3>2. f[m + (i + 1)] = f[m + i] * B + a[(l + m) + 1 - (m + (i + 1))]
      BY <1>5, <3>1
    <3>3. /\ g[i + 1] = g[i] * B + lo[l + 1 - (i + 1)] /\ g[i] \in Int
          /\ a[l + 1 - (i + 1)] = lo[l + 1 - (i + 1)] /\ lo[l + 1 - (i + 1)] \in Int
      BY <1>6, <1>9, <3>1
    <3>4. w[i + 1] = w[i] * B /\ w[i] \in Int
      BY <1>8, <3>1
    <3>5. f[m + i] = g[i] + w[i] * H
      BY <2>2
    <3> DEFINE d == lo[l + 1 - (i + 1)]
    <3>6. d \in Int /\ f[m + (i + 1)] = (g[i] + w[i] * H) * B + d /\ g[i + 1] = g[i] * B + d
      BY <3>1, <3>2, <3>3, <3>5
    <3> HIDE DEF d
    <3>7. (g[i] + w[i] * H) * B + d = (g[i] * B + d) + (w[i] * B) * H
      <4> DEFINE gi == g[i]
                 wi == w[i]
      <4>1. gi \in Int /\ wi \in Int
        BY <3>3, <3>4
      <4> HIDE DEF gi, wi
      <4>2. (gi + wi * H) * B + d = (gi * B + d) + (wi * B) * H
        BY <1>4, <3>6, <4>1, Regroup
      <4>3. QED
        BY <4>2 DEF gi, wi
    <3>8. QED
      BY <3>1, <3>4, <3>6, <3>7
  <2>3. l \in 0 .. l
    BY <1>4
  <2> HIDE DEF T
  <2>4. l \in T
    BY <1>4, <2>1, <2>2, <2>3, UpTo
  <2>5. QED
    BY <2>4 DEF T
<1>12. m + l = l + m
  BY <1>4
<1>13. QED
  BY <1>5, <1>6, <1>11, <1>12 DEF l, H

(* A row cut in two.                                                       *)
LEMMA ToNatSplit ==
  ASSUME NEW a \in Seq(Int), NEW k \in 0 .. Len(a), NEW n \in Nat, NEW w, Weights(w, n), k <= n
  PROVE  /\ SubSeq(a, 1, k) \in Seq(Int) /\ SubSeq(a, k + 1, Len(a)) \in Seq(Int)
         /\ ToNat(a) = ToNat(SubSeq(a, 1, k)) + w[k] * ToNat(SubSeq(a, k + 1, Len(a)))
<1> DEFINE lo == SubSeq(a, 1, k)
           hi == SubSeq(a, k + 1, Len(a))
<1>1. Len(a) \in Nat
  OBVIOUS
<1>2. lo \in Seq(Int) /\ Len(lo) = k /\ \A i \in 1 .. k : a[i] = lo[i]
  BY <1>1
<1>3. hi \in Seq(Int) /\ Len(hi) = Len(a) - k /\ \A i \in 1 .. Len(a) - k : a[k + i] = hi[i]
  BY <1>1
<1> HIDE DEF lo, hi
<1>4. Parts(a, lo, hi) /\ Len(lo) <= n
  BY <1>1, <1>2, <1>3 DEF Parts
<1>5. ToNat(a) = ToNat(lo) + w[Len(lo)] * ToNat(hi)
  BY <1>4, ToNatParts
<1>6. QED
  BY <1>2, <1>3, <1>5 DEF lo, hi

-----------------------------------------------------------------------------
(* Multiplying by a word, in place.                                        *)
LEMMA GradSchoolMulInplaceExact ==
  ASSUME NEW a \in Seq(Word), NEW x \in Word
  PROVE  LET r == GradSchoolMulInplace(a, x)
         IN  /\ r \in Seq(Word) /\ ToNat(r) = ToNat(a) * x
             /\ Len(r) \in {Len(a), Len(a) + 1}
             /\ x # 0 /\ Trimmed(a) => Trimmed(r)
<1> DEFINE n == Len(a)
           B == Base
           col == [i \in DOMAIN a |-> a[i] * x]
           out == Ripple(col, 0).out
           w == Ripple(col, 0).words
<1>1. B \in Nat /\ B >= 2 /\ WordMax = B - 1 /\ x \in Nat /\ x <= B - 1
  BY BaseProperties DEF Word
<1>2. /\ a \in Seq(Int) /\ n \in Nat /\ DOMAIN a = 1 .. n
      /\ \A i \in 1 .. n : a[i] \in Nat /\ a[i] <= B - 1
  BY <1>1, WordsProperties
<1>3. col \in Seq(Nat) /\ Len(col) = n /\ \A i \in 1 .. n : col[i] = a[i] * x
  BY <1>1, <1>2
<1>4. GradSchoolMulInplace(a, x) = WithCarry(Ripple(col, 0))
  BY DEF GradSchoolMulInplace
<1> HIDE DEF col
<1>5. col \in Seq(Int)
  BY <1>3
<1>6. ToNat(col) = ToNat(a) * x
  <2>1. x \in Int /\ Len(a) = Len(col) /\ \A i \in 1 .. Len(col) : col[i] = a[i] * x
    BY <1>1, <1>3
  <2>2. QED
    BY <1>2, <1>5, <2>1, ToNatMultiple
<1>7. 0 <= out /\ out <= x
  <2> DEFINE zero == 0
  <2>1. zero \in Int /\ x \in Int /\ zero <= zero /\ zero <= x
    BY <1>1
  <2>2. ASSUME NEW i \in 1 .. Len(col)
        PROVE  zero * Base - zero <= col[i] /\ col[i] <= x * Base + WordMax - x
    <3>1. col[i] = a[i] * x /\ a[i] \in Nat /\ a[i] <= B - 1
      BY <1>2, <1>3
    <3> HIDE DEF B
    <3>2. a[i] * x <= (B - 1) * x /\ (B - 1) * x = x * B - x /\ a[i] * x >= 0
      BY <1>1, <3>1
    <3>3. QED
      BY <1>1, <3>1, <3>2 DEF B
  <2> HIDE DEF zero
  <2>3. zero <= Ripple(col, zero).out /\ Ripple(col, zero).out <= x
    BY <1>5, <2>1, <2>2, RippleRange
  <2>4. QED
    BY <2>3 DEF zero
<1>8. out \in Int /\ w \in Seq(Word) /\ Len(w) = n
  BY <1>3, <1>5, RippleExact
<1>9. out \in Word
  <2> HIDE DEF out, B
  <2>1. QED
    BY <1>1, <1>7, <1>8 DEF Word
<1>10. /\ WithCarry(Ripple(col, 0)) \in Seq(Word)
       /\ ToNat(WithCarry(Ripple(col, 0))) = ToNat(col) + 0
       /\ Len(WithCarry(Ripple(col, 0))) \in {Len(col), Len(col) + 1}
  BY <1>5, <1>9, WithCarryExact
<1>11. ToNat(a) * x \in Int
  BY <1>1, <1>2, ToNatType
<1>12. ASSUME x # 0, Trimmed(a) PROVE Trimmed(WithCarry(Ripple(col, 0)))
  <2>1. WithCarry(Ripple(col, 0)) = IF out = 0 THEN w ELSE Append(w, out)
    BY DEF WithCarry
  <2>2. CASE n = 0 /\ out = 0
    <3>1. w = << >>
      BY <1>8, <2>2
    <3>2. QED
      BY <2>1, <2>2, <3>1 DEF Trimmed
  <2>3. CASE n > 0 /\ out = 0
    <3>1. Len(col) > 0 /\ col[Len(col)] > 0
      <4>1. n \in 1 .. n /\ a # << >>
        BY <1>2, <2>3
      <4>2. a[n] # 0 /\ a[n] \in Nat /\ col[n] = a[n] * x
        BY <1>2, <1>3, <1>12, <4>1 DEF Trimmed
      <4> HIDE DEF n
      <4>3. x >= 1
        BY <1>1, <1>12
      <4>4. a[n] * x > 0
        BY <1>1, <4>2, <4>3
      <4>5. QED
        BY <1>3, <2>3, <4>2, <4>4
    <3>2. w[n] # 0
      BY <1>3, <2>3, <3>1, RippleTop
    <3> HIDE DEF w, n, out
    <3>3. QED
      BY <1>8, <2>1, <2>3, <3>2 DEF Trimmed
  <2>4. CASE out # 0
    <3> HIDE DEF w, out, n
    <3>1. Len(Append(w, out)) = n + 1 /\ Append(w, out)[n + 1] = out
      BY <1>2, <1>8, <1>9
    <3>2. QED
      BY <2>1, <2>4, <3>1 DEF Trimmed
  <2>5. QED
    BY <1>2, <2>2, <2>3, <2>4
<1>13. QED
  <2>1. ToNat(col) + 0 = ToNat(a) * x
    BY <1>6, <1>11
  <2>2. Len(col) = Len(a)
    BY <1>3
  <2>3. QED
    BY ONLY <1>4, <1>10, <1>12, <2>1, <2>2

(* A row of the grade-school multiplication: word i of a times b, added to *)
(* what the rows before it left.                                           *)
Row(a, b, prev, i) ==
  Ripple([j \in DOMAIN b |-> a[i] * b[j] + prev[i + j - 1]], 0)

NextRow(a, b, prev, i) ==
  [k \in DOMAIN prev |->
     IF k \in i .. i + Len(b) - 1 THEN Row(a, b, prev, i).words[k - i + 1]
     ELSE IF k = i + Len(b) THEN Row(a, b, prev, i).out ELSE prev[k]]

-----------------------------------------------------------------------------
(* The l words of a above its word i.                                      *)
Part(a, i, l) == [k \in 1 .. l |-> a[i + k]]

(* A part is a row of the same kind.                                       *)
LEMMA PartProperties ==
  ASSUME NEW S, NEW a \in Seq(S), NEW i \in Nat, NEW l \in Nat, i + l <= Len(a)
  PROVE  /\ Part(a, i, l) \in Seq(S) /\ Len(Part(a, i, l)) = l
         /\ \A k \in 1 .. l : Part(a, i, l)[k] = a[i + k]
<1>1. ASSUME NEW k \in 1 .. l PROVE a[i + k] \in S
  <2>1. i + k \in 1 .. Len(a)
    OBVIOUS
  <2>2. QED
    BY <2>1
<1>2. QED
  BY <1>1 DEF Part

(* A part of a row of integers.                                            *)
LEMMA IntPart ==
  ASSUME NEW a \in Seq(Int), NEW i \in Nat, NEW l \in Nat, i + l <= Len(a)
  PROVE  /\ Part(a, i, l) \in Seq(Int) /\ Len(Part(a, i, l)) = l
         /\ \A k \in 1 .. l : Part(a, i, l)[k] = a[i + k]
<1> DEFINE S == Int
<1>1. a \in Seq(S)
  OBVIOUS
<1> HIDE DEF S
<1>2. /\ Part(a, i, l) \in Seq(S) /\ Len(Part(a, i, l)) = l
      /\ \A k \in 1 .. l : Part(a, i, l)[k] = a[i + k]
  BY <1>1, PartProperties
<1>3. QED
  BY <1>2 DEF S

(* A part of a row of words.                                               *)
LEMMA WordPart ==
  ASSUME NEW a \in Seq(Word), NEW i \in Nat, NEW l \in Nat, i + l <= Len(a)
  PROVE  /\ Part(a, i, l) \in Seq(Word) /\ Len(Part(a, i, l)) = l
         /\ \A k \in 1 .. l : Part(a, i, l)[k] = a[i + k]
  BY PartProperties

(* Zeros are no number.                                                    *)
LEMMA ToNatZeros ==
  ASSUME NEW a \in Seq(Int), \A i \in 1 .. Len(a) : a[i] = 0
  PROVE  ToNat(a) = 0
<1> DEFINE e == << >>
<1>1. e \in Seq(Int) /\ Len(e) = 0 /\ ToNat(e) = 0
  BY ToNatEmpty
<1> HIDE DEF e
<1>2. /\ Len(e) <= Len(a) /\ \A i \in 1 .. Len(e) : a[i] = e[i]
      /\ \A i \in Len(e) + 1 .. Len(a) : a[i] = 0
  BY <1>1
<1>3. ToNat(a) = ToNat(e)
  BY ONLY <1>1, <1>2, a \in Seq(Int), ToNatPadded
<1>4. QED
  BY <1>1, <1>3

(* The parts of a row below and above a word of it.                        *)
LEMMA PartsOf ==
  ASSUME NEW a \in Seq(Int), NEW i \in 0 .. Len(a)
  PROVE  /\ Parts(a, Part(a, 0, i), Part(a, i, Len(a) - i))
         /\ Len(Part(a, 0, i)) = i /\ Len(Part(a, i, Len(a) - i)) = Len(a) - i
<1> DEFINE lo == Part(a, 0, i)
           hi == Part(a, i, Len(a) - i)
           m == Len(a) - i
           zero == 0
           S == Int
<1>1. /\ i \in Nat /\ m \in Nat /\ zero \in Nat /\ zero + i <= Len(a) /\ i + m <= Len(a)
      /\ Len(a) = i + m /\ a \in Seq(S)
  OBVIOUS
<1> HIDE DEF m, zero, S
<1>2. /\ Part(a, zero, i) \in Seq(S) /\ Len(Part(a, zero, i)) = i
      /\ \A k \in 1 .. i : Part(a, zero, i)[k] = a[zero + k]
  <2>1. i \in Nat /\ zero \in Nat /\ zero + i <= Len(a) /\ a \in Seq(S)
    BY <1>1
  <2>2. Part(a, zero, i) \in Seq(S) /\ Len(Part(a, zero, i)) = i
    BY ONLY <2>1, PartProperties
  <2>3. \A k \in 1 .. i : Part(a, zero, i)[k] = a[zero + k]
    BY ONLY <2>1, PartProperties
  <2>4. QED
    BY ONLY <2>2, <2>3
<1>3. /\ Part(a, i, m) \in Seq(S) /\ Len(Part(a, i, m)) = m
      /\ \A k \in 1 .. m : Part(a, i, m)[k] = a[i + k]
  BY ONLY <1>1, PartProperties
<1>4. \A k \in 1 .. i : lo[k] = a[k]
  <2>1. \A k \in 1 .. i : zero + k = k
    BY DEF zero
  <2>2. QED
    BY <1>2, <2>1 DEF zero
<1>5. /\ lo \in Seq(Int) /\ Len(lo) = i /\ hi \in Seq(Int) /\ Len(hi) = m
      /\ \A k \in 1 .. m : hi[k] = a[i + k]
  BY <1>2, <1>3 DEF zero, m, S
<1> HIDE DEF lo, hi
<1>6. Parts(a, lo, hi)
  BY ONLY <1>1, <1>4, <1>5, a \in Seq(Int) DEF Parts
<1>7. QED
  BY <1>5, <1>6 DEF lo, hi, m

(* a is zero but for the l words above word i.                             *)
ZeroOutside(a, i, l) ==
  /\ i + l <= Len(a)
  /\ \A k \in 1 .. i : a[k] = 0
  /\ \A k \in i + l + 1 .. Len(a) : a[k] = 0

(* The number of such a row.                                               *)
LEMMA ToNatInside ==
  ASSUME NEW a \in Seq(Int), NEW i \in Nat, NEW l \in Nat, ZeroOutside(a, i, l),
         NEW n \in Nat, NEW w, Weights(w, n), i <= n
  PROVE  ToNat(a) = w[i] * ToNat(Part(a, i, l))
<1> DEFINE lo == Part(a, 0, i)
           hi == Part(a, i, Len(a) - i)
           mid == Part(a, i, l)
           m == Len(a)
<1>1. i \in 0 .. m /\ m \in Nat /\ i + l <= m
  BY DEF ZeroOutside
<1>2. Parts(a, lo, hi) /\ Len(lo) = i /\ Len(hi) = m - i
  BY <1>1, PartsOf
<1>3. mid \in Seq(Int) /\ Len(mid) = l /\ \A k \in 1 .. l : mid[k] = a[i + k]
  BY <1>1, IntPart
<1> HIDE DEF lo, hi, mid
<1>4. /\ lo \in Seq(Int) /\ hi \in Seq(Int)
      /\ \A k \in 1 .. i : lo[k] = a[k]
      /\ \A k \in 1 .. m - i : hi[k] = a[i + k]
  BY <1>2 DEF Parts
<1>5. ToNat(lo) = 0
  <2>1. \A k \in 1 .. Len(lo) : lo[k] = 0
    BY <1>2, <1>4 DEF ZeroOutside
  <2>2. QED
    BY <1>4, <2>1, ToNatZeros
<1>6. ToNat(hi) = ToNat(mid)
  <2>1. ASSUME NEW k \in 1 .. l PROVE hi[k] = mid[k]
    <3>1. k \in 1 .. m - i
      BY <1>1
    <3>2. QED
      BY <1>3, <1>4, <3>1
  <2>2. ASSUME NEW k \in l + 1 .. m - i PROVE hi[k] = 0
    <3>1. k \in 1 .. m - i /\ i + k \in i + l + 1 .. m
      BY <1>1
    <3>2. QED
      BY <1>4, <3>1 DEF ZeroOutside
  <2>3. /\ Len(mid) <= Len(hi)
        /\ \A k \in 1 .. Len(mid) : hi[k] = mid[k]
        /\ \A k \in Len(mid) + 1 .. Len(hi) : hi[k] = 0
    BY <1>1, <1>2, <1>3, <2>1, <2>2
  <2>4. QED
    BY ONLY <1>3, <1>4, <2>3, ToNatPadded
<1>7. ToNat(a) = ToNat(lo) + w[i] * ToNat(hi)
  <2>1. Len(lo) <= n
    BY <1>2
  <2>2. ToNat(a) = ToNat(lo) + w[Len(lo)] * ToNat(hi)
    BY <1>2, <2>1, ToNatParts
  <2>3. QED
    BY <1>2, <2>2
<1>8. w[i] * ToNat(mid) \in Int
  <2>1. w[i] \in Int
    BY DEF Weights
  <2>2. QED
    BY <1>3, <2>1, ToNatType
<1>9. QED
  BY <1>5, <1>6, <1>7, <1>8 DEF mid

(* Two rows that differ at most in the l words above word i.               *)
SameOutside(a, b, i, l) ==
  /\ Len(a) = Len(b) /\ i + l <= Len(a)
  /\ \A k \in 1 .. i : a[k] = b[k]
  /\ \A k \in i + l + 1 .. Len(a) : a[k] = b[k]

(* The numbers of such rows.                                               *)
LEMMA ToNatWindow ==
  ASSUME NEW a \in Seq(Int), NEW b \in Seq(Int),
         NEW i \in Nat, NEW l \in Nat, SameOutside(a, b, i, l),
         NEW n \in Nat, NEW w, Weights(w, n), i <= n
  PROVE  ToNat(b) = ToNat(a) + w[i] * (ToNat(Part(b, i, l)) - ToNat(Part(a, i, l)))
<1> DEFINE m == Len(a)
           d == [k \in 1 .. m |-> b[k] - a[k]]
           pa == Part(a, i, l)
           pb == Part(b, i, l)
           pd == Part(d, i, l)
<1>1. m \in Nat /\ Len(b) = m /\ i + l <= m
  BY DEF SameOutside
<1>2. d \in Seq(Int) /\ Len(d) = m /\ \A k \in 1 .. m : d[k] = b[k] - a[k] /\ a[k] \in Int /\ b[k] \in Int
  <2>1. \A k \in 1 .. m : a[k] \in Int /\ b[k] \in Int
    BY <1>1
  <2>2. QED
    BY <1>1, <2>1
<1> HIDE DEF d
<1>3. ToNat(d) = ToNat(b) - ToNat(a)
  <2>1. Len(b) = Len(d) /\ Len(a) = Len(d) /\ \A k \in 1 .. Len(d) : d[k] = b[k] - a[k]
    BY <1>1, <1>2
  <2>2. a \in Seq(Int) /\ b \in Seq(Int)
    OBVIOUS
  <2>3. QED
    BY ONLY <1>2, <2>1, <2>2, ToNatDifference
<1>4. /\ pa \in Seq(Int) /\ Len(pa) = l /\ \A k \in 1 .. l : pa[k] = a[i + k]
      /\ pb \in Seq(Int) /\ Len(pb) = l /\ \A k \in 1 .. l : pb[k] = b[i + k]
      /\ pd \in Seq(Int) /\ Len(pd) = l /\ \A k \in 1 .. l : pd[k] = d[i + k]
  <2>1. i + l <= Len(a) /\ i + l <= Len(b) /\ i + l <= Len(d)
    BY <1>1, <1>2
  <2>2. QED
    BY <1>2, <2>1, IntPart
<1> HIDE DEF pa, pb, pd
<1>5. ToNat(pd) = ToNat(pb) - ToNat(pa)
  <2>1. ASSUME NEW k \in 1 .. l PROVE pd[k] = pb[k] - pa[k]
    <3>1. i + k \in 1 .. m
      BY <1>1
    <3>2. QED
      BY <1>2, <1>4, <3>1
  <2>2. Len(pb) = Len(pd) /\ Len(pa) = Len(pd) /\ \A k \in 1 .. Len(pd) : pd[k] = pb[k] - pa[k]
    BY <1>4, <2>1
  <2>3. QED
    BY ONLY <1>4, <2>2, ToNatDifference
<1>6. ToNat(d) = w[i] * ToNat(pd)
  <2>1. ASSUME NEW k \in 1 .. i PROVE d[k] = 0
    <3>1. k \in 1 .. m /\ a[k] = b[k]
      BY <1>1 DEF SameOutside
    <3>2. QED
      BY <1>2, <3>1
  <2>2. ASSUME NEW k \in i + l + 1 .. m PROVE d[k] = 0
    <3>1. k \in 1 .. m
      BY <1>1
    <3>2. a[k] = b[k]
      BY DEF SameOutside
    <3>3. QED
      BY <1>2, <3>1, <3>2
  <2>3. ZeroOutside(d, i, l)
    BY <1>1, <1>2, <2>1, <2>2 DEF ZeroOutside
  <2>4. QED
    BY <1>2, <2>3, ToNatInside DEF pd
<1>7. ToNat(a) \in Int /\ ToNat(b) \in Int
  BY ToNatType
<1>8. QED
  BY <1>3, <1>5, <1>6, <1>7 DEF pa, pb

(* A product of two words is below that of the greatest ones.              *)
LEMMA ProductBound ==
  ASSUME NEW B \in Nat, B >= 2, NEW x \in Nat, NEW y \in Nat, x <= B - 1, y <= B - 1
  PROVE  0 <= x * y /\ x * y <= (B - 1) * (B - 1)
<1>1. x * y <= (B - 1) * y /\ x * y >= 0
  OBVIOUS
<1>2. y * (B - 1) <= (B - 1) * (B - 1) /\ y * (B - 1) = (B - 1) * y
  OBVIOUS
<1>3. (B - 1) * y \in Int /\ (B - 1) * (B - 1) \in Int /\ x * y \in Int
  OBVIOUS
<1>4. QED
  BY <1>1, <1>2, <1>3

(* The columns of a row of a multiplication.                               *)
RowOf(col, x, b, m) ==
  /\ Len(m) = Len(b) /\ Len(col) = Len(b)
  /\ \A j \in 1 .. Len(b) : col[j] = x * b[j] + m[j]

(* One row of a multiplication: a word times a row, on top of another.     *)
LEMMA RowExact ==
  ASSUME NEW x \in Word, NEW b \in Seq(Word), NEW m \in Seq(Word),
         NEW col \in Seq(Int), RowOf(col, x, b, m)
  PROVE  LET r == Ripple(col, 0)
         IN  /\ r.words \in Seq(Word) /\ Len(r.words) = Len(b) /\ r.out \in Word
             /\ Append(r.words, r.out) \in Seq(Word)
             /\ ToNat(Append(r.words, r.out)) = x * ToNat(b) + ToNat(m)
<1> DEFINE words == Ripple(col, 0).words
           out == Ripple(col, 0).out
           top == Append(words, out)
           one == 1
           zero == 0
           B == Base
           u == B - 1
<1>12. /\ Len(m) = Len(b) /\ Len(col) = Len(b)
       /\ \A j \in 1 .. Len(b) : col[j] = x * b[j] + m[j]
  BY DEF RowOf
<1>1. B \in Nat /\ B >= 2 /\ WordMax = B - 1 /\ x \in Nat /\ x <= B - 1
  BY BaseProperties DEF Word
<1>2. Word = 0 .. B - 1
  BY BaseProperties DEF Word
<1>3. /\ b \in Seq(Int) /\ m \in Seq(Int) /\ Len(b) \in Nat
      /\ \A j \in 1 .. Len(b) : b[j] \in Nat /\ b[j] < B /\ m[j] \in Nat /\ m[j] < B
  <2>1. b \in Seq(Int) /\ Len(b) \in Nat /\ \A j \in 1 .. Len(b) : b[j] \in Nat /\ b[j] < Base
    BY WordsProperties
  <2>2. m \in Seq(Int) /\ \A j \in 1 .. Len(m) : m[j] \in Nat /\ m[j] < Base
    BY WordsProperties
  <2>3. QED
    BY <1>12, <2>1, <2>2
<1>4. ToNat(b) \in Int /\ ToNat(m) \in Int
  BY <1>3, ToNatType
<1>5. ToNat(col) = x * ToNat(b) + ToNat(m)
  <2>1. x \in Int /\ one \in Int /\ Len(b) = Len(col) /\ Len(m) = Len(col)
    BY <1>1, <1>12
  <2>2. ASSUME NEW j \in 1 .. Len(col) PROVE col[j] = x * b[j] + one * m[j]
    <3>1. col[j] = x * b[j] + m[j] /\ m[j] \in Int
      BY <1>3, <1>12
    <3>2. QED
      BY <3>1
  <2>6. Combined(col, x, b, one, m)
    BY <2>1, <2>2 DEF Combined
  <2>3. \A v \in Int : one * v = v
    OBVIOUS
  <2> HIDE DEF one
  <2>4. col \in Seq(Int)
    OBVIOUS
  <2>8. b \in Seq(Int) /\ m \in Seq(Int)
    BY <1>3
  <2>5. ToNat(col) = x * ToNat(b) + one * ToNat(m)
    BY <2>1, <2>4, <2>6, <2>8, ToNatLinear
  <2>7. QED
    BY <1>4, <2>3, <2>5
<1>6. words \in Seq(Word) /\ Len(words) = Len(b) /\ out \in Int /\ ToNat(top) = ToNat(col) + 0
  BY <1>12, RippleExact
<1>7. zero <= Ripple(col, zero).out /\ Ripple(col, zero).out <= u
  <2>1. zero \in Int /\ u \in Int /\ zero <= zero /\ zero <= u
    BY <1>1
  <2>2. ASSUME NEW j \in 1 .. Len(col)
        PROVE  zero * Base - zero <= col[j] /\ col[j] <= u * Base + WordMax - u
    <3> DEFINE y == b[j]
               p == m[j]
    <3>1. col[j] = x * y + p /\ y \in Nat /\ y < B /\ p \in Nat /\ p < B
      BY <1>3, <1>12
    <3> DEFINE c == col[j]
               s == x * y
               t == (B - 1) * (B - 1)
    <3> HIDE DEF y, p, B
    <3>2. 0 <= x * y /\ x * y <= (B - 1) * (B - 1) /\ x * y \in Int /\ (B - 1) * (B - 1) \in Int
      <4>1. B \in Nat /\ B >= 2 /\ x \in Nat /\ y \in Nat /\ x <= B - 1 /\ y <= B - 1
        BY <1>1, <3>1
      <4>2. 0 <= x * y /\ x * y <= (B - 1) * (B - 1)
        BY ONLY <4>1, ProductBound
      <4>3. QED
        BY <4>1, <4>2
    <3>3. (B - 1) * B + (B - 1) - (B - 1) = (B - 1) * (B - 1) + (B - 1)
      BY <1>1
    <3>4. zero * B - zero = 0
      BY <1>1
    <3>5. c >= 0 /\ c <= t + (B - 1)
      <4>1. c = s + p /\ 0 <= s /\ s <= t /\ s \in Int /\ t \in Int /\ p \in Nat /\ p < B
        BY <3>1, <3>2
      <4> HIDE DEF c, s, t
      <4>2. QED
        BY <1>1, <4>1
    <3> HIDE DEF zero
    <3>6. QED
      BY <1>1, <3>3, <3>4, <3>5 DEF B
  <2> HIDE DEF zero, u
  <2>3. QED
    BY <2>1, <2>2, RippleRange
<1>8. out \in Word
  <2>1. 0 <= out /\ out <= B - 1
    BY <1>7
  <2> HIDE DEF out, B
  <2>2. QED
    BY <1>1, <1>2, <1>6, <2>1
<1> HIDE DEF words, out
<1>9. top \in Seq(Word)
  BY <1>6, <1>8
<1>10. ToNat(top) = x * ToNat(b) + ToNat(m)
  BY <1>1, <1>4, <1>5, <1>6
<1>11. QED
  BY <1>6, <1>8, <1>9, <1>10 DEF words, out

(* What i rows of a product of la by lb words leave.                       *)
RowsTo(p, la, lb, i) ==
  p \in Seq(Word) /\ Len(p) = la + lb /\ \A k \in i + lb + 1 .. la + lb : p[k] = 0

(* A row adds its product, and its carry falls on a word that is still 0.  *)
LEMMA NextRowExact ==
  ASSUME NEW a \in Seq(Word), NEW b \in Seq(Word), NEW prev, NEW i \in 1 .. Len(a),
         RowsTo(prev, Len(a), Len(b), i - 1),
         NEW n \in Nat, NEW w, Weights(w, n), i <= n
  PROVE  /\ RowsTo(NextRow(a, b, prev, i), Len(a), Len(b), i)
         /\ ToNat(NextRow(a, b, prev, i)) = ToNat(prev) + w[i - 1] * (a[i] * ToNat(b))
<1> DEFINE la == Len(a)
           l == Len(b)
           m == la + l
           x == a[i]
           o == i - 1
           mid == Part(prev, o, l)
           col == [j \in DOMAIN b |-> a[i] * b[j] + prev[i + j - 1]]
           words == Ripple(col, 0).words
           out == Ripple(col, 0).out
           top == Append(words, out)
           r == NextRow(a, b, prev, i)
<1>1. /\ la \in Nat /\ l \in Nat /\ m \in Nat /\ DOMAIN b = 1 .. l /\ m = la + l
      /\ i \in Nat /\ i >= 1 /\ i <= la /\ o \in Nat /\ o = i - 1 /\ o <= n
  BY WordsProperties
<1>2. /\ prev \in Seq(Word) /\ Len(prev) = m /\ DOMAIN prev = 1 .. m
      /\ \A k \in o + l + 1 .. m : prev[k] = 0
  BY DEF RowsTo
<1>3. r = [k \in 1 .. m |-> IF k \in i .. i + l - 1 THEN words[k - i + 1]
                            ELSE IF k = i + l THEN out ELSE prev[k]]
  BY <1>2 DEF NextRow, Row
<1>4. x \in Word /\ x \in Int /\ b \in Seq(Int) /\ prev \in Seq(Int) /\ ToNat(b) \in Int
  <2>1. x \in Word
    OBVIOUS
  <2>2. x \in Int
    BY WordsProperties
  <2>3. b \in Seq(Int) /\ prev \in Seq(Int)
    BY <1>2, WordsProperties
  <2>4. QED
    BY <2>1, <2>2, <2>3, ToNatType
<1> HIDE DEF la, l, m, r, o
<1>5. mid \in Seq(Word) /\ Len(mid) = l /\ \A j \in 1 .. l : mid[j] = prev[o + j]
  <2>1. o + l <= Len(prev) /\ o \in Nat /\ l \in Nat /\ prev \in Seq(Word)
    BY <1>1, <1>2
  <2>2. QED
    BY ONLY <2>1, WordPart
<1> HIDE DEF mid
<1>6. col \in Seq(Int) /\ Len(col) = l /\ \A j \in 1 .. l : col[j] = x * b[j] + mid[j]
  <2>1. ASSUME NEW j \in 1 .. l PROVE x * b[j] + prev[i + j - 1] \in Int /\ prev[i + j - 1] = mid[j]
    <3>1. i + j - 1 = o + j /\ o + j \in 1 .. m
      BY <1>1
    <3>2. prev[i + j - 1] = mid[j] /\ mid[j] = prev[o + j]
      BY <1>5, <3>1
    <3>3. b[j] \in Int /\ prev[o + j] \in Int
      BY <1>1, <1>2, <1>4, <3>1 DEF l
    <3> DEFINE y == b[j]
               p == prev[i + j - 1]
    <3>4. y \in Int /\ p \in Int /\ p = mid[j]
      BY <3>1, <3>2, <3>3
    <3> HIDE DEF x, y, p
    <3>5. x * y + p \in Int
      BY <1>4, <3>4
    <3>6. QED
      BY <3>4, <3>5 DEF y, p
  <2> HIDE DEF x
  <2>2. col = [j \in 1 .. l |-> x * b[j] + prev[i + j - 1]]
    BY <1>1 DEF x
  <2> HIDE DEF col
  <2>3. QED
    BY <1>1, <2>1, <2>2
<1> HIDE DEF x, col
<1>7. /\ words \in Seq(Word) /\ Len(words) = l /\ out \in Word /\ top \in Seq(Word)
      /\ ToNat(top) = x * ToNat(b) + ToNat(mid)
  <2>1. RowOf(col, x, b, mid)
    BY <1>5, <1>6 DEF l, RowOf
  <2>2. QED
    BY <1>4, <1>5, <1>6, <2>1, RowExact DEF l
<1> HIDE DEF words, out
<1>8. Len(top) = l + 1 /\ top[l + 1] = out /\ \A k \in 1 .. l : top[k] = words[k]
  BY ONLY <1>1, <1>7
<1> HIDE DEF top
<1>9. ASSUME NEW k \in 1 .. m
      PROVE  /\ r[k] \in Word
             /\ k \in 1 .. o => r[k] = prev[k]
             /\ k \in i .. i + l => r[k] = top[k - o]
             /\ k \in i + l + 1 .. m => r[k] = 0 /\ prev[k] = 0
  <2>1. r[k] = IF k \in i .. i + l - 1 THEN words[k - i + 1]
               ELSE IF k = i + l THEN out ELSE prev[k]
    BY <1>3
  <2>2. CASE k \in i .. i + l - 1
    <3>1. k - i + 1 \in 1 .. l /\ k - i + 1 = k - o
      BY <1>1, <2>2
    <3>2. words[k - i + 1] \in Word
      BY <1>1, <1>7, <3>1
    <3>3. QED
      BY <1>1, <1>8, <2>1, <2>2, <3>1, <3>2
  <2>3. CASE k = i + l
    <3>1. k - o = l + 1 /\ k \notin i .. i + l - 1
      BY <1>1, <2>3
    <3>2. QED
      BY <1>1, <1>7, <1>8, <2>1, <2>3, <3>1
  <2>4. CASE k \notin i .. i + l
    <3>1. r[k] = prev[k]
      BY <1>1, <2>1, <2>4
    <3>2. prev[k] \in Word
      BY <1>1, <1>2
    <3>3. k \in i + l + 1 .. m => prev[k] = 0
      BY <1>1, <1>2
    <3>4. QED
      BY <2>4, <3>1, <3>2, <3>3
  <2>5. QED
    BY <1>1, <2>2, <2>3, <2>4
<1>10. r \in Seq(Word) /\ Len(r) = m
  BY <1>1, <1>3, <1>9
<1>11. r \in Seq(Int) /\ top \in Seq(Int) /\ mid \in Seq(Int)
  BY <1>5, <1>7, <1>10, WordsProperties
<1> DEFINE h == l + 1
<1>12. SameOutside(prev, r, o, h) /\ h \in Nat /\ h = l + 1
  <2>1. \A k \in 1 .. o : prev[k] = r[k]
    BY <1>1, <1>9
  <2>2. \A k \in o + (l + 1) + 1 .. Len(prev) : prev[k] = r[k]
    <3>1. TAKE k \in o + (l + 1) + 1 .. Len(prev)
    <3>2. k \in 1 .. m /\ k \in i + l + 1 .. m
      BY <1>1, <1>2
    <3>3. QED
      BY <1>9, <3>2
  <2>3. o + (l + 1) <= Len(prev) /\ Len(prev) = Len(r)
    BY <1>1, <1>2, <1>10
  <2>4. QED
    BY <1>1, <2>1, <2>2, <2>3 DEF SameOutside
<1> HIDE DEF h
<1> DEFINE pp == Part(prev, o, h)
           pr == Part(r, o, h)
<1>13. /\ pp \in Seq(Int) /\ Len(pp) = h /\ \A k \in 1 .. h : pp[k] = prev[o + k]
       /\ pr \in Seq(Int) /\ Len(pr) = h /\ \A k \in 1 .. h : pr[k] = r[o + k]
  <2>1. o + h <= Len(prev) /\ o \in Nat /\ h \in Nat /\ prev \in Seq(Int)
    BY <1>1, <1>2, <1>4, <1>12
  <2>2. o + h <= Len(r) /\ r \in Seq(Int)
    BY <1>1, <1>10, <1>11, <1>12
  <2>3. pp \in Seq(Int) /\ Len(pp) = h /\ \A k \in 1 .. h : pp[k] = prev[o + k]
    BY ONLY <2>1, IntPart
  <2>4. pr \in Seq(Int) /\ Len(pr) = h /\ \A k \in 1 .. h : pr[k] = r[o + k]
    BY ONLY <2>1, <2>2, IntPart
  <2>5. QED
    BY <2>3, <2>4
<1>14. ToNat(r) = ToNat(prev) + w[o] * (ToNat(pr) - ToNat(pp))
  <2>1. /\ prev \in Seq(Int) /\ r \in Seq(Int) /\ o \in Nat /\ h \in Nat
        /\ SameOutside(prev, r, o, h) /\ o <= n /\ n \in Nat /\ Weights(w, n)
    BY <1>1, <1>4, <1>11, <1>12
  <2>2. QED
    BY ONLY <2>1, ToNatWindow
<1> HIDE DEF pp, pr
<1>15. ToNat(pp) = ToNat(mid)
  <2>1. ASSUME NEW k \in 1 .. l PROVE pp[k] = mid[k]
    <3>1. k \in 1 .. h
      BY <1>1, <1>12
    <3>2. QED
      BY <1>5, <1>13, <3>1
  <2>2. pp[h] = 0
    <3>1. o + h \in o + l + 1 .. m /\ h \in 1 .. h
      BY <1>1, <1>12
    <3>2. QED
      BY <1>2, <1>13, <3>1
  <2>3. /\ Len(mid) <= Len(pp)
        /\ \A k \in 1 .. Len(mid) : pp[k] = mid[k]
        /\ \A k \in Len(mid) + 1 .. Len(pp) : pp[k] = 0
    BY <1>1, <1>5, <1>12, <1>13, <2>1, <2>2
  <2>4. QED
    BY ONLY <1>11, <1>13, <2>3, ToNatPadded
<1>16. pr = top
  <2>1. ASSUME NEW k \in 1 .. h PROVE pr[k] = top[k]
    <3>1. o + k \in 1 .. m /\ o + k \in i .. i + l /\ (o + k) - o = k
      BY <1>1, <1>12
    <3>2. r[o + k] = top[(o + k) - o]
      BY <1>9, <3>1
    <3>3. QED
      BY <1>13, <3>1, <3>2
  <2>2. Len(pr) = Len(top) /\ \A k \in 1 .. Len(pr) : pr[k] = top[k]
    BY <1>8, <1>12, <1>13, <2>1
  <2>3. QED
    BY <1>11, <1>13, <2>2, SeqEqual
<1>17. ToNat(r) = ToNat(prev) + w[o] * (x * ToNat(b))
  <2> DEFINE p == x * ToNat(b)
             q == ToNat(mid)
  <2>1. p \in Int /\ q \in Int
    BY <1>4, <1>11, ToNatType
  <2>2. ToNat(r) = ToNat(prev) + w[o] * ((p + q) - q)
    BY <1>7, <1>14, <1>15, <1>16
  <2> HIDE DEF p, q
  <2>3. (p + q) - q = p
    BY <2>1
  <2>4. QED
    BY <2>2, <2>3 DEF p
<1>18. RowsTo(r, la, l, i)
  <2>1. \A k \in i + l + 1 .. m : r[k] = 0
    <3>1. TAKE k \in i + l + 1 .. m
    <3>2. k \in 1 .. m
      BY <1>1
    <3>3. QED
      BY <1>9, <3>2
  <2>2. QED
    BY <1>1, <1>10, <2>1 DEF RowsTo
<1>19. QED
  BY <1>17, <1>18 DEF r, la, l, x, o

(* rows are the rounds of the multiplication.                              *)
RowsOf(a, b, rows) ==
  /\ rows[0] = [k \in 1 .. Len(a) + Len(b) |-> 0]
  /\ \A i \in 1 .. Len(a) : rows[i] = NextRow(a, b, rows[i - 1], i)
  /\ GradeSchoolMul(a, b) = rows[Len(a)]

(* The loop over the words of a is such a sequence of rounds.              *)
LEMMA RowsUnfold ==
  ASSUME NEW a \in Seq(Word), NEW b \in Seq(Word)
  PROVE  \E rows : RowsOf(a, b, rows)
<1> DEFINE n == Len(a)
           m == Len(a) + Len(b)
           S == [1 .. m -> Int]
           base == [k \in 1 .. m |-> 0]
           step == [p \in S \X (1 .. n) |-> NextRow(a, b, p[1], p[2])]
           Eqn(f) == f = [i \in 0 .. n |-> IF i = 0 THEN base ELSE NextRow(a, b, f[i - 1], i)]
           f0 == CHOOSE f : Eqn(f)
<1>1. /\ n \in Nat /\ m \in Nat /\ Len(b) \in Nat /\ m = n + Len(b) /\ DOMAIN b = 1 .. Len(b)
      /\ \A i \in 1 .. n : a[i] \in Int
      /\ \A i \in 1 .. Len(b) : b[i] \in Int
  BY WordsProperties
<1>2. GradeSchoolMul(a, b) = f0[n]
  BY DEF GradeSchoolMul, NextRow, Row
<1> HIDE DEF n, m
<1>3. ASSUME NEW p \in S, NEW i \in 1 .. n PROVE NextRow(a, b, p, i) \in S
  <2> DEFINE col == [j \in DOMAIN b |-> a[i] * b[j] + p[i + j - 1]]
             words == Ripple(col, 0).words
             out == Ripple(col, 0).out
  <2>1. col \in Seq(Int) /\ Len(col) = Len(b)
    <3>1. ASSUME NEW j \in 1 .. Len(b) PROVE a[i] * b[j] + p[i + j - 1] \in Int
      <4> DEFINE x == a[i]
                 y == b[j]
                 z == p[i + j - 1]
      <4>1. i + j - 1 \in 1 .. m
        BY <1>1
      <4>2. x \in Int /\ y \in Int /\ z \in Int
        BY <1>1, <4>1
      <4> HIDE DEF x, y, z
      <4>3. x * y + z \in Int
        BY <4>2
      <4>4. QED
        BY <4>3 DEF x, y, z
    <3>2. QED
      BY <1>1, <3>1, SMTT(40)
  <2>2. words \in Seq(Word) /\ Len(words) = Len(b) /\ out \in Int
    <3> HIDE DEF col
    <3>1. QED
      BY <2>1, RippleExact
  <2>3. NextRow(a, b, p, i) =
          [k \in DOMAIN p |-> IF k \in i .. i + Len(b) - 1 THEN words[k - i + 1]
                              ELSE IF k = i + Len(b) THEN out ELSE p[k]]
    BY DEF NextRow, Row
  <2> HIDE DEF words, out, col
  <2>4. ASSUME NEW k \in i .. i + Len(b) - 1 PROVE words[k - i + 1] \in Int
    <3>1. k - i + 1 \in 1 .. Len(b)
      BY <1>1
    <3>2. QED
      BY <2>2, <3>1, WordsProperties
  <2>5. QED
    BY <2>2, <2>3, <2>4
<1>4. base \in S /\ step \in [S \X (1 .. n) -> S]
  <2>1. base \in S
    BY <1>1
  <2> HIDE DEF S
  <2>2. QED
    BY <1>3, <2>1
<1>5. PICK f \in [0 .. n -> S] : Unfolds(f, n, base, step)
  <2> HIDE DEF S, base, step
  <2>1. QED
    BY <1>1, <1>4, Recursion
<1>6. Eqn(f)
  <2>1. f[0] = base /\ \A i \in 1 .. n : f[i] = step[<<f[i - 1], i>>]
    <3> HIDE DEF base, step, S
    <3>1. QED
      BY <1>5 DEF Unfolds
  <2>2. ASSUME NEW i \in 1 .. n PROVE f[i] = NextRow(a, b, f[i - 1], i)
    <3>1. f[i - 1] \in S
      <4>1. i - 1 \in 0 .. n
        BY <1>1
      <4> HIDE DEF S
      <4>2. QED
        BY <1>5, <4>1
    <3> HIDE DEF S, base
    <3>2. QED
      BY <2>1, <3>1
  <2> HIDE DEF base, S, step
  <2>3. \A i \in 0 .. n : f[i] = IF i = 0 THEN base ELSE NextRow(a, b, f[i - 1], i)
    BY <1>1, <2>1, <2>2
  <2>4. QED
    BY <1>5, <2>3
<1>7. Eqn(f0)
  <2> HIDE DEF Eqn
  <2>1. QED
    BY <1>6
<1> HIDE DEF f0, S, step
<1>8. \A i \in 0 .. n : f0[i] = IF i = 0 THEN base ELSE NextRow(a, b, f0[i - 1], i)
  <2> HIDE DEF base
  <2>1. QED
    BY <1>7
<1>9. f0[0] = base /\ \A i \in 1 .. n : f0[i] = NextRow(a, b, f0[i - 1], i)
  <2> HIDE DEF base
  <2>1. QED
    BY <1>1, <1>8
<1>10. RowsOf(a, b, f0)
  BY <1>2, <1>9 DEF RowsOf, n, m
<1>11. QED
  BY <1>10

(* The grade-school multiplication.                                        *)
LEMMA GradeSchoolMulExact ==
  ASSUME NEW a \in Seq(Word), NEW b \in Seq(Word)
  PROVE  LET r == GradeSchoolMul(a, b)
         IN  /\ r \in Seq(Word) /\ Len(r) = Len(a) + Len(b)
             /\ ToNat(r) = ToNat(a) * ToNat(b)
<1> DEFINE n == Len(a)
           l == Len(b)
           low(i) == ToNat(Part(a, 0, i))
           V == ToNat(b)
<1>1. n \in Nat /\ l \in Nat /\ a \in Seq(Int) /\ b \in Seq(Int)
  BY WordsProperties
<1>2. PICK rows : RowsOf(a, b, rows)
  BY RowsUnfold
<1>3. PICK w : Weights(w, n)
  BY <1>1, WeightsExist
<1>4. V \in Int /\ \A i \in 1 .. n : a[i] \in Int
  BY <1>1, ToNatType
<1>5. ASSUME NEW i \in 0 .. n - 1
      PROVE  low(i + 1) = low(i) + w[i] * a[i + 1] /\ low(i) \in Int
  <2> DEFINE c == Part(a, 0, i + 1)
             lo == Part(c, 0, i)
             hi == Part(c, i, 1)
             i1 == i + 1
             zero == 0
             one == 1
  <2>1. i \in Nat /\ i1 \in Nat /\ i1 = i + 1 /\ zero + i1 <= n /\ zero + i <= n /\ zero \in Nat /\ i <= n
    BY <1>1
  <2> HIDE DEF i1, zero
  <2>2. /\ Part(a, zero, i1) \in Seq(Int) /\ Len(Part(a, zero, i1)) = i1
        /\ \A k \in 1 .. i1 : Part(a, zero, i1)[k] = a[zero + k]
    BY <1>1, <2>1, IntPart
  <2>3. /\ Part(a, zero, i) \in Seq(Int) /\ Len(Part(a, zero, i)) = i
        /\ \A k \in 1 .. i : Part(a, zero, i)[k] = a[zero + k]
    BY <1>1, <2>1, IntPart
  <2> DEFINE p == Part(a, zero, i1)
             q == Part(a, zero, i)
             t == <<a[i1]>>
  <2>4. t \in Seq(Int) /\ Len(t) = 1 /\ t[1] = a[i1]
    BY <1>1, <1>4, <2>1 DEF zero
  <2> HIDE DEF p, q, t
  <2>5. Parts(p, q, t)
    <3>1. /\ p \in Seq(Int) /\ Len(p) = i1 /\ \A k \in 1 .. i1 : p[k] = a[k]
      BY <2>2 DEF p, zero
    <3>2. /\ q \in Seq(Int) /\ Len(q) = i /\ \A k \in 1 .. i : q[k] = a[k]
      BY <2>3 DEF q, zero
    <3>6. \A k \in 1 .. i : k \in 1 .. i1
      BY <2>1
    <3>3. \A k \in 1 .. i : p[k] = q[k]
      BY <3>1, <3>2, <3>6
    <3>4. \A k \in 1 .. 1 : p[i + k] = t[k]
      BY <2>1, <2>4, <3>1
    <3>5. QED
      BY <2>1, <2>4, <3>1, <3>2, <3>3, <3>4 DEF Parts
  <2>6. Len(q) = i /\ q \in Seq(Int)
    BY <2>3 DEF q
  <2>7. ToNat(p) = ToNat(q) + w[i] * ToNat(t)
    BY <1>1, <1>3, <2>1, <2>5, <2>6, ToNatParts
  <2>8. ToNat(t) = a[i1]
    BY <2>4, ToNatSingle
  <2>9. ToNat(q) \in Int
    BY <2>6, ToNatType
  <2>10. QED
    BY <2>7, <2>8, <2>9 DEF p, q, i1, zero
<1>6. low(0) = 0
  <2>1. Part(a, 0, 0) = << >>
    BY DEF Part
  <2>2. QED
    BY <2>1, ToNatEmpty
<1>7. low(n) = ToNat(a)
  <2>1. \A k \in 1 .. n : a[0 + k] = a[k]
    OBVIOUS
  <2>2. Part(a, 0, n) = a
    BY <1>1, <2>1 DEF Part
  <2>3. QED
    BY <2>2
<1>8. ASSUME NEW i \in 0 .. n - 1 PROVE w[i] \in Int
  <2>1. i \in 0 .. n
    BY <1>1
  <2>2. w \in [0 .. n -> Int]
    BY <1>3 DEF Weights
  <2>3. QED
    BY <2>1, <2>2
<1> DEFINE L == [i \in 0 .. n |-> low(i)]
<1>9. /\ L[0] = 0 /\ L[n] = ToNat(a)
      /\ \A i \in 0 .. n - 1 : L[i + 1] = L[i] + w[i] * a[i + 1] /\ L[i] \in Int
  <2>1. ASSUME NEW i \in 0 .. n - 1 PROVE L[i + 1] = L[i] + w[i] * a[i + 1] /\ L[i] \in Int
    <3>1. i \in 0 .. n /\ i + 1 \in 0 .. n
      BY <1>1
    <3> HIDE DEF low
    <3>2. QED
      BY <1>5, <3>1
  <2>2. 0 \in 0 .. n /\ n \in 0 .. n
    BY <1>1
  <2> HIDE DEF low
  <2>3. L[0] = 0 /\ L[n] = ToNat(a)
    BY <1>6, <1>7, <2>2
  <2> HIDE DEF L
  <2>4. QED
    BY <2>1, <2>3
<1> HIDE DEF L, low, V
<1> DEFINE T == {i \in 0 .. n : RowsTo(rows[i], n, l, i) /\ ToNat(rows[i]) = L[i] * V}
<1>10. 0 \in T
  <2> DEFINE r == rows[0]
  <2>1. r = [k \in 1 .. n + l |-> 0] /\ 0 \in Word
    BY <1>2, BaseProperties DEF RowsOf, Word
  <2>2. r \in Seq(Word) /\ r \in Seq(Int) /\ Len(r) = n + l /\ \A k \in 1 .. n + l : r[k] = 0
    BY <1>1, <2>1
  <2> HIDE DEF r
  <2>3. ToNat(r) = 0
    BY <2>2, ToNatZeros
  <2>4. RowsTo(r, n, l, 0)
    BY <1>1, <2>2 DEF RowsTo
  <2>5. L[0] * V = 0
    BY <1>4, <1>9
  <2>6. QED
    BY <1>1, <2>3, <2>4, <2>5 DEF r
<1>11. ASSUME NEW i \in 0 .. n - 1, i \in T PROVE i + 1 \in T
  <2> DEFINE i1 == i + 1
             prev == rows[i]
  <2>1. i1 \in 1 .. n /\ i1 - 1 = i /\ i1 \in 0 .. n /\ i1 <= n
    BY <1>1
  <2>2. rows[i1] = NextRow(a, b, prev, i1)
    BY <1>2, <2>1 DEF RowsOf, n
  <2>3. RowsTo(prev, n, l, i1 - 1) /\ ToNat(prev) = L[i] * V
    BY <1>11, <2>1
  <2> HIDE DEF i1, prev
  <2>4. /\ RowsTo(rows[i1], n, l, i1)
        /\ ToNat(rows[i1]) = ToNat(prev) + w[i1 - 1] * (a[i1] * V)
    <3>1. /\ a \in Seq(Word) /\ b \in Seq(Word) /\ i1 \in 1 .. Len(a) /\ n \in Nat
          /\ RowsTo(prev, Len(a), Len(b), i1 - 1) /\ Weights(w, n) /\ i1 <= n
      BY <1>1, <1>3, <2>1, <2>3 DEF n, l
    <3>2. /\ RowsTo(NextRow(a, b, prev, i1), Len(a), Len(b), i1)
          /\ ToNat(NextRow(a, b, prev, i1)) = ToNat(prev) + w[i1 - 1] * (a[i1] * ToNat(b))
      BY ONLY <3>1, NextRowExact
    <3>3. QED
      BY <2>2, <3>2 DEF n, l, V
  <2> DEFINE x == L[i]
             y == w[i]
             z == a[i1]
  <2>5. x \in Int /\ y \in Int /\ z \in Int /\ L[i1] = x + y * z
    BY <1>4, <1>8, <1>9, <2>1 DEF i1
  <2>6. ToNat(rows[i1]) = x * V + y * (z * V)
    BY <2>1, <2>3, <2>4
  <2> HIDE DEF x, y, z
  <2>7. x * V + y * (z * V) = (x + y * z) * V
    BY <1>4, <2>5
  <2>8. i1 \in T
    BY <2>1, <2>4, <2>5, <2>6, <2>7
  <2>9. QED
    BY <2>8 DEF i1
<1>12. n \in T
  <2> HIDE DEF T
  <2>1. \A i \in 0 .. n : i \in T
    BY <1>1, <1>10, <1>11, UpTo
  <2>2. QED
    BY <1>1, <2>1
<1>13. GradeSchoolMul(a, b) = rows[n]
  BY <1>2 DEF RowsOf, n
<1>14. QED
  BY <1>9, <1>12, <1>13 DEF RowsTo, n, l, V

-----------------------------------------------------------------------------
(* Quotient and remainder are unique.                                      *)
LEMMA DivisionUnique ==
  ASSUME NEW B \in Nat, B >= 1, NEW q \in Int, NEW r \in Int, 0 <= r, r < B
  PROVE  (q * B + r) \div B = q /\ (q * B + r) % B = r
<1> DEFINE v == q * B + r
           d == v \div B
           m == v % B
<1>1. v \in Int /\ d \in Int /\ m \in Int /\ 0 <= m /\ m < B /\ v = d * B + m
  <2>1. v \in Int
    OBVIOUS
  <2> HIDE DEF v
  <2>2. QED
    BY <2>1
<1>2. v = q * B + r
  OBVIOUS
<1> HIDE DEF v, d, m
<1>3. d = q
  <2>1. CASE d < q
    <3>1. (d + 1) * B <= q * B /\ (d + 1) * B = d * B + B
      BY <1>1, <2>1
    <3>2. d * B \in Int /\ q * B \in Int
      BY <1>1
    <3>3. QED
      BY <1>1, <1>2, <3>1, <3>2
  <2>2. CASE q < d
    <3>1. (q + 1) * B <= d * B /\ (q + 1) * B = q * B + B
      BY <1>1, <2>2
    <3>2. d * B \in Int /\ q * B \in Int
      BY <1>1
    <3>3. QED
      BY <1>1, <1>2, <3>1, <3>2
  <2>3. QED
    BY <1>1, <2>1, <2>2
<1>4. m = r
  <2>1. q * B \in Int
    OBVIOUS
  <2>2. QED
    BY <1>1, <1>2, <1>3, <2>1
<1>5. QED
  BY <1>3, <1>4 DEF v, d, m

(* A word is moved by P: so much stays of it, and a part below P leaves it.*)
Splits(B, P, Q) ==
  B \in Nat /\ P \in Nat /\ Q \in Nat /\ P >= 1 /\ Q >= 1 /\ P * Q = B

(* A digit moved up by P: what leaves it at the top, and what stays, with  *)
(* room for what comes from below.                                         *)
Moved(B, P, Q, x, s) ==
  /\ (x * P + s) \div B = x \div Q
  /\ (x * P + s) % B = ((x * P) % B) + s
  /\ x \div Q \in Nat /\ x \div Q < P
  /\ (x * P) % B = (x % Q) * P

(* Every digit of the base is.                                             *)
LEMMA ShiftDigit ==
  ASSUME NEW B, NEW P, NEW Q, Splits(B, P, Q),
         NEW x \in Nat, x < B, NEW s \in Nat, s < P
  PROVE  Moved(B, P, Q, x, s)
<1> DEFINE q == x \div Q
           r == x % Q
<1> USE DEF Splits
<1>1. q \in Int /\ r \in Int /\ 0 <= r /\ r < Q /\ x = q * Q + r
  OBVIOUS
<1> HIDE DEF q, r
<1>2. B >= 1
  OBVIOUS
<1>3. x * P = q * B + r * P
  <2>1. (q * Q + r) * P = q * (P * Q) + r * P
    BY <1>1
  <2>2. QED
    BY <1>1, <2>1
<1>4. 0 <= r * P /\ r * P + s < B /\ r * P \in Int
  <2>1. (r + 1) * P <= Q * P /\ (r + 1) * P = r * P + P /\ 0 <= r * P
    BY <1>1
  <2>2. Q * P = B
    OBVIOUS
  <2>3. r * P \in Int
    BY <1>1
  <2>4. QED
    BY <2>1, <2>2, <2>3
<1>5. q >= 0 /\ q < P
  <2>1. CASE q <= -1
    <3>1. q * Q <= (-1) * Q
      BY <1>1, <2>1
    <3>2. q * Q \in Int /\ (-1) * Q = -Q
      BY <1>1
    <3>3. QED
      BY <1>1, <3>1, <3>2
  <2>2. CASE q >= P
    <3>1. P * Q <= q * Q /\ q * Q \in Int
      BY <1>1, <2>2
    <3>2. QED
      BY <1>1, <3>1
  <2>3. QED
    BY <1>1, <2>1, <2>2
<1> DEFINE y == r * P
           z == r * P + s
<1>6. (q * B + z) \div B = q /\ (q * B + z) % B = z
  <2>1. z \in Int /\ 0 <= z /\ z < B
    BY <1>4
  <2> HIDE DEF z
  <2>2. QED
    BY <1>1, <1>2, <2>1, DivisionUnique
<1>7. (q * B + y) \div B = q /\ (q * B + y) % B = y
  <2>1. y \in Int /\ 0 <= y /\ y < B
    BY <1>4
  <2> HIDE DEF y
  <2>2. QED
    BY <1>1, <1>2, <2>1, DivisionUnique
<1>8. x * P = q * B + y /\ x * P + s = q * B + z
  <2> DEFINE u == x * P
             v == q * B
  <2>1. u \in Int /\ v \in Int /\ y \in Int /\ u = v + y /\ z = y + s
    BY <1>1, <1>3, <1>4
  <2> HIDE DEF u, v, y, z
  <2>2. u = v + y /\ u + s = v + z
    BY <2>1
  <2>3. QED
    BY <2>2 DEF u, v
<1> HIDE DEF y, z
<1>9. (x * P + s) \div B = q /\ (x * P + s) % B = z /\ (x * P) % B = y
  BY <1>6, <1>7, <1>8
<1>10. QED
  BY <1>1, <1>4, <1>5, <1>9 DEF Moved, q, r, y, z

(* The bits of a shift, as the powers they multiply by.                    *)
LEMMA ShiftPowers ==
  ASSUME NEW bits \in 0 .. WordBits - 1
  PROVE  LET P == 2 ^ bits
             Q == 2 ^ (WordBits - bits)
         IN  /\ P \in Nat /\ Q \in Nat /\ P >= 1 /\ Q >= 2 /\ P * Q = Base
             /\ P \in Word /\ P # 0
<1> DEFINE P == 2 ^ bits
           Q == 2 ^ (WordBits - bits)
           half == 2 ^ (WordBits - bits - 1)
<1>1. /\ WordBits \in Nat /\ bits \in 0 .. WordBits /\ WordBits - bits \in 1 .. WordBits
      /\ WordBits - bits \in 0 .. WordBits /\ WordBits - bits - 1 \in 0 .. WordBits
      /\ bits + (WordBits - bits) = WordBits
  BY WordBitsAssumption
<1>2. /\ P \in Nat /\ P >= 1 /\ half \in Nat /\ half >= 1 /\ Q \in Nat /\ Q >= 1
      /\ 2 ^ (bits + (WordBits - bits)) = P * Q
  BY <1>1, PowerAssumption, PowerProperties
<1>3. Q = 2 * half
  BY <1>1, PowerAssumption DEF PowersUpTo
<1>4. P * Q = Base
  BY <1>1, <1>2 DEF Base
<1> HIDE DEF P, Q, half
<1>5. Q >= 2
  BY <1>2, <1>3
<1>6. P < Base
  <2>1. P * 2 <= P * Q /\ P * 2 = P + P
    BY <1>2, <1>5
  <2>2. QED
    BY <1>2, <1>4, <2>1
<1>7. P \in Word
  BY <1>2, <1>6, BaseProperties DEF Word
<1>8. QED
  BY <1>2, <1>4, <1>5, <1>7 DEF P, Q

(* What leaves the digit at place i of a shift by bits.                    *)
Spill(a, bits, i) == Digit(a, i) \div 2 ^ (WordBits - bits)

(* Nothing comes of a digit that is zero.                                  *)
LEMMA ZeroMoves ==
  ASSUME NEW bits \in 0 .. WordBits - 1
  PROVE  (0 * 2 ^ bits) % Base = 0 /\ 0 \div 2 ^ (WordBits - bits) = 0
<1> DEFINE P == 2 ^ bits
           Q == 2 ^ (WordBits - bits)
           B == Base
<1>1. P \in Nat /\ Q \in Nat /\ Q >= 1 /\ B \in Nat /\ B >= 1
  BY BaseProperties, ShiftPowers
<1> HIDE DEF P, Q, B
<1>2. 0 * P = 0 /\ 0 % B = 0 /\ 0 \div Q = 0
  BY <1>1
<1>3. QED
  BY <1>2 DEF P, Q, B

(* The bits are moved as by a multiplication.                              *)
LEMMA ShlBits ==
  ASSUME NEW a \in Seq(Word), NEW bits \in 0 .. WordBits - 1
  PROVE  LET r == Ripple([i \in DOMAIN a |-> a[i] * 2 ^ bits], 0)
         IN  /\ r.words = [i \in 1 .. Len(a) |-> ((a[i] * 2 ^ bits) % Base) + Spill(a, bits, i - 1)]
             /\ r.out = Spill(a, bits, Len(a))
<1> DEFINE n == Len(a)
           B == Base
           P == 2 ^ bits
           Q == 2 ^ (WordBits - bits)
           col == [i \in DOMAIN a |-> a[i] * 2 ^ bits]
           spill(i) == Digit(a, i) \div Q
<1>1. /\ P \in Nat /\ Q \in Nat /\ P >= 1 /\ Q >= 1 /\ B \in Nat /\ Splits(B, P, Q)
  BY BaseProperties, ShiftPowers DEF Splits
<1>2. n \in Nat /\ DOMAIN a = 1 .. n /\ \A i \in 1 .. n : a[i] \in Nat /\ a[i] < B
  BY WordsProperties
<1>3. /\ \A i \in 1 .. n : Spill(a, bits, i) = a[i] \div Q
      /\ Spill(a, bits, 0) = 0
  <2>1. \A i \in 1 .. n : Digit(a, i) = a[i]
    BY <1>2 DEF Digit
  <2>2. Digit(a, 0) = 0
    BY <1>2 DEF Digit
  <2> HIDE DEF Q
  <2>3. 0 \div Q = 0
    BY <1>1
  <2>4. QED
    BY <2>1, <2>2, <2>3 DEF Spill, Q
<1> HIDE DEF n, B, P, Q
<1>4. col = [i \in 1 .. n |-> a[i] * P] /\ col \in Seq(Int) /\ Len(col) = n
  BY <1>1, <1>2 DEF P
<1> HIDE DEF col
<1>5. PICK c : CarryOf(col, 0, c)
  <2> DEFINE zero == 0
  <2>1. zero \in Int
    OBVIOUS
  <2> HIDE DEF zero
  <2>2. \E c : CarryOf(col, zero, c)
    BY <1>4, <2>1, RippleUnfolds
  <2>3. QED
    BY <2>2 DEF zero
<1>6. /\ c[0] = 0 /\ \A i \in 1 .. n : c[i] = (col[i] + c[i - 1]) \div B
  BY <1>4, <1>5 DEF CarryOf, B
<1>14. Ripple(col, 0) = [words |-> [i \in 1 .. n |-> (col[i] + c[i - 1]) % B], out |-> c[n]]
  BY <1>4, <1>5 DEF CarryOf, B
<1> DEFINE T == {i \in 0 .. n : c[i] = Spill(a, bits, i) /\ c[i] \in Nat /\ c[i] < P}
<1>7. 0 \in T
  BY <1>1, <1>2, <1>3, <1>6
<1>8. ASSUME NEW i \in 0 .. n - 1, i \in T
      PROVE  /\ i + 1 \in T
             /\ (col[i + 1] + c[i]) % B = ((a[i + 1] * P) % B) + Spill(a, bits, i)
  <2> DEFINE j == i + 1
             x == a[i + 1]
             s == c[i]
  <2>1. j \in 1 .. n /\ j - 1 = i /\ j \in 0 .. n
    BY <1>2
  <2>2. x \in Nat /\ x < B /\ s \in Nat /\ s < P /\ s = Spill(a, bits, i)
    BY <1>2, <1>8, <2>1
  <2>3. c[j] = (x * P + s) \div B /\ col[j] = x * P /\ Spill(a, bits, j) = x \div Q
    BY <1>3, <1>4, <1>6, <2>1
  <2> HIDE DEF x, s
  <2>4. /\ (x * P + s) \div B = x \div Q /\ (x * P + s) % B = ((x * P) % B) + s
        /\ x \div Q \in Nat /\ x \div Q < P
    <3>1. Moved(B, P, Q, x, s)
      BY ONLY <1>1, <2>2, ShiftDigit
    <3>2. QED
      BY <3>1 DEF Moved
  <2>5. j \in T
    BY <2>1, <2>3, <2>4
  <2>6. (col[j] + s) % B = ((x * P) % B) + Spill(a, bits, i)
    BY <2>2, <2>3, <2>4
  <2>7. QED
    BY <2>5, <2>6 DEF j, x, s
<1>9. \A i \in 0 .. n : i \in T
  <2>1. \A i \in 0 .. n - 1 : i \in T => i + 1 \in T
    BY <1>8
  <2> HIDE DEF T
  <2>2. QED
    BY <1>2, <1>7, <2>1, UpTo
<1>10. ASSUME NEW i \in 1 .. n
       PROVE  (col[i] + c[i - 1]) % B = ((a[i] * P) % B) + Spill(a, bits, i - 1)
  <2> DEFINE j == i - 1
  <2>1. j \in 0 .. n - 1 /\ j + 1 = i /\ j \in 0 .. n
    BY <1>2
  <2> HIDE DEF j
  <2>2. j \in T
    BY <1>9, <2>1
  <2> HIDE DEF T
  <2>3. (col[j + 1] + c[j]) % B = ((a[j + 1] * P) % B) + Spill(a, bits, j)
    BY <1>8, <2>1, <2>2
  <2>4. QED
    BY <2>1, <2>3 DEF j
<1>11. c[n] = Spill(a, bits, n)
  BY <1>2, <1>9
<1> HIDE DEF T
<1>12. /\ Ripple(col, 0).words = [i \in 1 .. n |-> ((a[i] * P) % B) + Spill(a, bits, i - 1)]
       /\ Ripple(col, 0).out = Spill(a, bits, n)
  <2> DEFINE word(i) == (col[i] + c[i - 1]) % B
             moved(i) == ((a[i] * P) % B) + Spill(a, bits, i - 1)
  <2>1. \A i \in 1 .. n : word(i) = moved(i)
    BY <1>10
  <2> DEFINE words == [i \in 1 .. n |-> word(i)]
  <2>5. Ripple(col, 0) = [words |-> words, out |-> c[n]]
    BY <1>14
  <2> HIDE DEF words
  <2>2. Ripple(col, 0).words = words /\ Ripple(col, 0).out = c[n]
    BY ONLY <2>5
  <2> USE DEF words
  <2> HIDE DEF word, moved
  <2>3. Ripple(col, 0).words = [i \in 1 .. n |-> moved(i)]
    BY <2>1, <2>2
  <2>4. QED
    BY <1>11, <2>2, <2>3 DEF moved
<1>13. QED
  BY <1>12 DEF col, n, P, B

(* A digit of the result of a shift by words and bits.                     *)
ShlDigit(a, words, bits, i) ==
  ((Digit(a, i - words) * 2 ^ bits) % Base) + Spill(a, bits, i - words - 1)

(* shlMag writes zero words below the product with the bits' power.        *)
LEMMA ShlMagParts ==
  ASSUME NEW a \in Seq(Word), NEW n \in Nat
  PROVE  LET words == n \div WordBits
             g == GradSchoolMulInplace(a, 2 ^ (n % WordBits))
         IN  /\ Parts(ShlMag(a, n), [i \in 1 .. words |-> 0], g)
             /\ ShlMag(a, n) \in Seq(Word) /\ words \in Nat
<1> DEFINE words == n \div WordBits
           bits == n % WordBits
           m == Len(a)
           P == 2 ^ bits
           Q == 2 ^ (WordBits - bits)
           out == Spill(a, bits, m)
           g == GradSchoolMulInplace(a, P)
           h == Len(g)
           len == m + words + (IF out = 0 THEN 0 ELSE 1)
           r == ShlMag(a, n)
           low == [i \in 1 .. words |-> 0]
           digit(i) == ((a[i] * P) % Base) + Spill(a, bits, i - 1)
<1>1. words \in Nat /\ bits \in 0 .. WordBits - 1
  BY WordBitsAssumption
<1>2. r = [i \in 1 .. len |-> ShlDigit(a, words, bits, i)]
  BY DEF ShlMag, ShlDigit, Spill
<1> HIDE DEF words, bits
<1>3. P \in Word /\ P # 0
  BY <1>1, ShiftPowers
<1>4. g \in Seq(Word) /\ h \in Nat /\ g \in Seq(Int) /\ \A i \in 1 .. h : g[i] \in Word
  <2> HIDE DEF P
  <2>1. g \in Seq(Word)
    BY <1>3, GradSchoolMulInplaceExact
  <2> HIDE DEF g
  <2>2. QED
    BY <2>1, WordsProperties
<1>5. m \in Nat /\ DOMAIN a = 1 .. m
  BY WordsProperties
<1> DEFINE rip == Ripple([i \in DOMAIN a |-> a[i] * 2 ^ bits], 0)
           body == [i \in 1 .. m |-> digit(i)]
<1>6. rip.words = body /\ rip.out = out
  BY <1>1, ShlBits
<1>7. g = IF out = 0 THEN body ELSE Append(body, out)
  <2>1. g = WithCarry(rip)
    BY DEF GradSchoolMulInplace
  <2> HIDE DEF rip, body, out, g
  <2>2. QED
    BY <1>6, <2>1 DEF WithCarry
<1> HIDE DEF rip, out, g, P, h, m
<1>8. body \in Seq(Int) /\ Len(body) = m /\ \A i \in 1 .. m : body[i] = digit(i)
  <2>1. ASSUME NEW i \in 1 .. m PROVE digit(i) \in Int
    <3>1. i - 1 \in Int /\ a[i] \in Nat /\ Digit(a, i - 1) \in Nat
      <4>1. a[i] \in Nat
        BY <1>5, WordsProperties DEF m
      <4>2. CASE i - 1 \in 1 .. m
        <5>1. Digit(a, i - 1) = a[i - 1] /\ a[i - 1] \in Nat
          BY <1>5, <4>2, WordsProperties DEF Digit, m
        <5>2. QED
          BY <4>1, <5>1
      <4>3. CASE i - 1 \notin 1 .. m
        BY <1>5, <4>1, <4>3 DEF Digit
      <4>4. QED
        BY <4>2, <4>3
    <3>2. Base \in Nat /\ Base >= 1 /\ P \in Nat
      BY <1>3, BaseProperties DEF Word
    <3>3. Q \in Nat /\ Q >= 1
      BY <1>1, ShiftPowers
    <3> HIDE DEF Q
    <3>4. Spill(a, bits, i - 1) \in Int
      <4> DEFINE d == Digit(a, i - 1)
      <4>1. d \in Nat /\ Spill(a, bits, i - 1) = d \div Q
        BY <3>1 DEF Spill, Q
      <4> HIDE DEF d
      <4>2. d \div Q \in Int
        BY <3>3, <4>1
      <4>3. QED
        BY <4>1, <4>2
    <3> DEFINE x == a[i] * P
               B == Base
    <3>5. x \in Int /\ B \in Nat /\ B >= 1
      <4> DEFINE y == a[i]
      <4>1. y \in Nat
        BY <3>1
      <4> HIDE DEF y
      <4>2. y * P \in Int
        BY <3>2, <4>1
      <4>3. QED
        BY <3>2, <4>2 DEF y
    <3> HIDE DEF x, B
    <3>6. x % B \in Int
      BY <3>5
    <3>7. QED
      BY <3>4, <3>6 DEF x, B
  <2> HIDE DEF digit
  <2>2. QED
    BY <1>5, <2>1
<1> HIDE DEF body, digit
<1>9. out \in Int
  <2>1. CASE out = 0
    BY <2>1
  <2>2. CASE out # 0
    <3>1. g = Append(body, out) /\ Len(g) = m + 1 /\ g[m + 1] = out
      BY <1>5, <1>7, <1>8, <2>2
    <3>2. m + 1 \in 1 .. Len(g)
      BY <1>5, <3>1
    <3>3. QED
      BY <1>4, <3>1, <3>2
  <2>3. QED
    BY <2>1, <2>2
<1>10. /\ h = m + (IF out = 0 THEN 0 ELSE 1)
       /\ \A i \in 1 .. m : g[i] = digit(i)
       /\ out # 0 => g[m + 1] = out
  <2>1. CASE out = 0
    BY <1>5, <1>7, <1>8, <2>1 DEF h
  <2>2. CASE out # 0
    <3>1. g = Append(body, out)
      BY <1>7, <2>2
    <3>2. QED
      BY <1>5, <1>8, <1>9, <2>2, <3>1 DEF h
  <2>3. QED
    BY <2>1, <2>2
<1>11. len = words + h
  BY <1>1, <1>5, <1>10
<1>12. ASSUME NEW i \in 1 .. words PROVE ShlDigit(a, words, bits, i) = 0
  <2>1. i - words \notin 1 .. m /\ i - words - 1 \notin 1 .. m
    BY <1>1, <1>5
  <2>2. Digit(a, i - words) = 0 /\ Digit(a, i - words - 1) = 0
    BY <1>5, <2>1 DEF Digit
  <2>3. Spill(a, bits, i - words - 1) = 0 /\ (0 * P) % Base = 0
    BY <1>1, <1>3, <2>2, ZeroMoves DEF P, Spill
  <2>4. QED
    BY <2>2, <2>3 DEF ShlDigit, P
<1>13. ASSUME NEW i \in 1 .. h PROVE ShlDigit(a, words, bits, words + i) = g[i]
  <2>1. (words + i) - words = i /\ (words + i) - words - 1 = i - 1
    BY <1>1, <1>4
  <2>2. ShlDigit(a, words, bits, words + i) = ((Digit(a, i) * P) % Base) + Spill(a, bits, i - 1)
    BY <2>1 DEF ShlDigit, P
  <2>3. CASE i \in 1 .. m
    <3>1. Digit(a, i) = a[i]
      BY <1>5, <2>3 DEF Digit
    <3>2. QED
      BY <1>10, <2>2, <2>3, <3>1 DEF digit
  <2>4. CASE i \notin 1 .. m
    <3>1. i = m + 1 /\ out # 0
      BY <1>4, <1>5, <1>10, <2>4
    <3>2. Digit(a, i) = 0 /\ i - 1 = m
      BY <1>5, <2>4, <3>1 DEF Digit
    <3>3. (0 * P) % Base = 0
      BY <1>1, <1>3, ZeroMoves DEF P
    <3>4. ShlDigit(a, words, bits, words + i) = 0 + out
      BY <2>2, <3>2, <3>3 DEF out
    <3>5. QED
      BY <1>9, <1>10, <3>1, <3>4
  <2>5. QED
    BY <2>3, <2>4
<1> HIDE DEF len, r
<1>14. len \in Nat
  BY <1>1, <1>4, <1>11
<1>15. ASSUME NEW i \in 1 .. len PROVE r[i] \in Word
  <2>1. r[i] = ShlDigit(a, words, bits, i)
    BY <1>2
  <2>2. CASE i \in 1 .. words
    BY <1>12, <2>1, <2>2, BaseProperties DEF Word
  <2>3. CASE i \notin 1 .. words
    <3>1. i - words \in 1 .. h /\ words + (i - words) = i
      BY <1>1, <1>4, <1>11, <1>14, <2>3
    <3>2. ShlDigit(a, words, bits, words + (i - words)) = g[i - words]
      BY <1>13, <3>1
    <3>3. QED
      BY <1>4, <2>1, <3>1, <3>2
  <2>4. QED
    BY <2>2, <2>3
<1>16. r \in Seq(Word) /\ Len(r) = len
  BY <1>2, <1>14, <1>15
<1>17. r \in Seq(Int)
  BY <1>16, WordsProperties
<1>18. /\ \A i \in 1 .. words : i \in 1 .. len
       /\ \A i \in 1 .. h : words + i \in 1 .. len
  BY <1>1, <1>4, <1>11
<1>19. Parts(r, low, g)
  <2>1. \A i \in 1 .. words : r[i] = 0
    BY <1>2, <1>12, <1>18
  <2>2. \A i \in 1 .. h : r[words + i] = g[i]
    BY <1>2, <1>13, <1>18
  <2>3. low \in Seq(Int) /\ Len(low) = words /\ \A i \in 1 .. words : low[i] = 0
    BY <1>1
  <2> HIDE DEF low
  <2>4. \A i \in 1 .. Len(low) : r[i] = low[i]
    BY <2>1, <2>3
  <2>5. \A i \in 1 .. Len(g) : r[Len(low) + i] = g[i]
    BY <2>2, <2>3 DEF h
  <2>6. Len(r) = Len(low) + Len(g)
    BY <1>11, <1>16, <2>3 DEF h
  <2>7. QED
    BY <1>4, <1>17, <2>3, <2>4, <2>5, <2>6 DEF Parts
<1>20. QED
  BY <1>1, <1>16, <1>19 DEF r, g, P, bits, words

(* shlMag multiplies by the weight of the words and the power of the bits. *)
LEMMA ShlMagWeighted ==
  ASSUME NEW a \in Seq(Word), NEW n \in Nat,
         NEW m \in Nat, NEW w, Weights(w, m), n \div WordBits <= m
  PROVE  /\ ShlMag(a, n) \in Seq(Word)
         /\ ToNat(ShlMag(a, n)) = w[n \div WordBits] * (ToNat(a) * 2 ^ (n % WordBits))
         /\ Len(ShlMag(a, n)) \in {Len(a) + n \div WordBits, Len(a) + n \div WordBits + 1}
         /\ a # << >> /\ Trimmed(a) => Trimmed(ShlMag(a, n))
<1> DEFINE words == n \div WordBits
           P == 2 ^ (n % WordBits)
           g == GradSchoolMulInplace(a, P)
           low == [i \in 1 .. words |-> 0]
           r == ShlMag(a, n)
<1>1. Parts(r, low, g) /\ r \in Seq(Word) /\ words \in Nat
  BY ShlMagParts
<1>2. n % WordBits \in 0 .. WordBits - 1
  BY WordBitsAssumption
<1>3. P \in Word /\ P # 0
  BY <1>2, ShiftPowers
<1>4. low \in Seq(Int) /\ Len(low) = words /\ \A i \in 1 .. Len(low) : low[i] = 0
  BY <1>1
<1> HIDE DEF words, low, P, r
<1>5. /\ g \in Seq(Word) /\ ToNat(g) = ToNat(a) * P
      /\ Len(g) \in {Len(a), Len(a) + 1}
      /\ Trimmed(a) => Trimmed(g)
  BY <1>3, GradSchoolMulInplaceExact
<1> HIDE DEF g
<1>6. ToNat(low) = 0
  BY <1>4, ToNatZeros
<1>7. Len(low) <= m
  BY <1>4 DEF words
<1>8. ToNat(r) = ToNat(low) + w[Len(low)] * ToNat(g)
  BY ONLY <1>1, <1>7, ToNatParts, Weights(w, m), m \in Nat
<1>9. w[words] \in Nat /\ ToNat(g) \in Int
  <2>1. words \in 0 .. m
    BY <1>1, <1>4, <1>7
  <2>2. g \in Seq(Int)
    BY <1>5, WordsProperties
  <2>3. QED
    BY <2>1, <2>2, WeightsPositive, ToNatType
<1>10. ToNat(r) = w[words] * ToNat(g)
  <2> DEFINE p == w[words] * ToNat(g)
  <2>1. p \in Int
    <3> DEFINE x == w[words]
               y == ToNat(g)
    <3>1. x \in Int /\ y \in Int
      BY <1>9
    <3> HIDE DEF x, y
    <3>2. x * y \in Int
      BY <3>1
    <3>3. QED
      BY <3>2 DEF x, y
  <2>2. ToNat(r) = 0 + p
    BY <1>4, <1>6, <1>8
  <2> HIDE DEF p
  <2>3. ToNat(r) = p
    BY <2>1, <2>2
  <2>4. QED
    BY <2>3 DEF p
<1>11. Len(r) = words + Len(g) /\ Len(a) \in Nat
  BY <1>1, <1>4, WordsProperties DEF Parts
<1>12. Len(r) \in {Len(a) + words, Len(a) + words + 1}
  <2>1. Len(g) = Len(a) => Len(r) = Len(a) + words
    BY <1>1, <1>11
  <2>2. Len(g) = Len(a) + 1 => Len(r) = Len(a) + words + 1
    BY <1>1, <1>11
  <2>3. QED
    BY <1>5, <2>1, <2>2
<1>13. ASSUME a # << >>, Trimmed(a) PROVE Trimmed(r)
  <2>1. Len(g) >= 1 /\ Len(g) \in Nat
    BY <1>5, <1>13
  <2>2. g # << >> /\ g[Len(g)] # 0
    BY <1>5, <1>13, <2>1 DEF Trimmed
  <2>3. \A i \in 1 .. Len(g) : r[Len(low) + i] = g[i]
    BY <1>1 DEF Parts
  <2>4. Len(g) \in 1 .. Len(g)
    BY <2>1
  <2>5. r[words + Len(g)] = g[Len(g)]
    BY <1>4, <2>3, <2>4
  <2>6. QED
    BY <1>11, <2>2, <2>5 DEF Trimmed
<1>14. QED
  BY <1>1, <1>5, <1>10, <1>12, <1>13 DEF words, P, r

(* The weights are powers of two.                                          *)
LEMMA WeightPowers ==
  ASSUME NEW n \in Nat, NEW w, Weights(w, n),
         NEW m \in Nat, PowersUpTo(m), n * WordBits <= m
  PROVE  \A i \in 0 .. n : w[i] = 2 ^ (i * WordBits) /\ i * WordBits \in 0 .. m
<1> DEFINE T == {i \in 0 .. n : w[i] = 2 ^ (i * WordBits)}
<1>1. WordBits \in Nat
  BY WordBitsAssumption
<1>2. \A i \in 0 .. n : i * WordBits \in 0 .. m
  <2>1. ASSUME NEW i \in 0 .. n PROVE i * WordBits \in 0 .. m
    <3> DEFINE B == WordBits
               j == n - i
    <3>1. B \in Nat /\ j \in Nat /\ n = i + j
      BY <1>1
    <3>2. n * B <= m
      BY DEF B
    <3> HIDE DEF B, j
    <3>3. i * B \in Nat /\ j * B \in Nat /\ (i + j) * B = i * B + j * B
      BY <3>1
    <3>4. i * B <= m
      BY <3>1, <3>2, <3>3
    <3>5. QED
      BY <3>3, <3>4 DEF B
  <2>2. QED
    BY <2>1
<1>3. 0 \in T
  <2>1. 0 * WordBits = 0 /\ 0 \in 0 .. n
    BY <1>1
  <2>2. 2 ^ 0 = 1 /\ w[0] = 1
    BY DEF PowersUpTo, Weights
  <2>3. w[0] = 2 ^ (0 * WordBits)
    BY <2>1, <2>2
  <2>4. QED
    BY <2>1, <2>3
<1>4. ASSUME NEW i \in 0 .. n - 1, i \in T PROVE i + 1 \in T
  <2>1. i + 1 \in 1 .. n /\ (i + 1) - 1 = i /\ i \in 0 .. n /\ i + 1 \in 0 .. n
    OBVIOUS
  <2>2. w[i + 1] = w[i] * Base
    BY <2>1 DEF Weights
  <2>3. (i + 1) * WordBits = i * WordBits + WordBits
    BY <1>1
  <2>4. i * WordBits \in 0 .. m /\ i * WordBits + WordBits <= m
    BY <1>2, <2>1, <2>3
  <2>5. WordBits \in 0 .. m
    BY <1>1, <2>4
  <2> DEFINE j == i * WordBits
  <2>6. j \in 0 .. m /\ j + WordBits <= m
    BY <2>4
  <2> HIDE DEF j
  <2>7. 2 ^ (j + WordBits) = 2 ^ j * 2 ^ WordBits
    BY <2>5, <2>6, PowerProperties
  <2>8. w[i] = 2 ^ j
    BY <1>4 DEF j
  <2>9. w[i + 1] = 2 ^ ((i + 1) * WordBits)
    BY <2>2, <2>3, <2>7, <2>8 DEF j, Base
  <2>10. QED
    BY <2>1, <2>9
<1> HIDE DEF T
<1>5. \A i \in 0 .. n : i \in T
  BY <1>3, <1>4, UpTo
<1>6. QED
  BY <1>2, <1>5 DEF T

(* The power of a shift is the weight of its words times that of its bits. *)
LEMMA PowerSplit ==
  ASSUME NEW n \in Nat, PowersUpTo(n), NEW w, Weights(w, n \div WordBits)
  PROVE  /\ n \div WordBits \in Nat /\ n % WordBits \in 0 .. WordBits - 1
         /\ 2 ^ n = w[n \div WordBits] * 2 ^ (n % WordBits)
         /\ w[n \div WordBits] \in Nat /\ w[n \div WordBits] >= 1
         /\ 2 ^ (n % WordBits) \in Nat /\ 2 ^ (n % WordBits) >= 1
<1> DEFINE words == n \div WordBits
           bits == n % WordBits
<1>1. WordBits \in Nat /\ WordBits >= 1
  BY WordBitsAssumption
<1>2. words \in Nat /\ bits \in 0 .. WordBits - 1 /\ n = words * WordBits + bits
  <2> DEFINE B == WordBits
  <2>1. B \in Nat /\ B >= 1
    BY <1>1
  <2> HIDE DEF B
  <2>2. n \div B \in Nat /\ n % B \in 0 .. B - 1 /\ n = (n \div B) * B + (n % B)
    BY <2>1
  <2>3. QED
    BY <2>2 DEF B
<1>3. Weights(w, words)
  OBVIOUS
<1> HIDE DEF words, bits
<1> DEFINE p == words * WordBits
<1>4. p \in 0 .. n /\ bits \in 0 .. n /\ p + bits = n
  <2>1. p \in Nat
    BY <1>1, <1>2
  <2>2. n = p + bits
    BY <1>2
  <2> HIDE DEF p
  <2>3. QED
    BY <1>1, <1>2, <2>1, <2>2
<1>5. w[words] = 2 ^ p
  <2>1. words \in 0 .. words /\ words * WordBits <= n
    BY <1>2, <1>4
  <2>2. QED
    BY <1>2, <1>3, <2>1, WeightPowers
<1> HIDE DEF p
<1>6. 2 ^ (p + bits) = 2 ^ p * 2 ^ bits /\ 2 ^ bits \in Nat /\ 2 ^ bits >= 1
  BY <1>4, PowerProperties
<1>7. 2 ^ n = w[words] * 2 ^ bits
  BY <1>4, <1>5, <1>6
<1>8. w[words] \in Nat /\ w[words] >= 1
  <2>1. words \in 0 .. words
    BY <1>2
  <2>2. QED
    BY <1>2, <1>3, <2>1, WeightsPositive
<1>9. QED
  BY <1>2, <1>6, <1>7, <1>8 DEF words, bits

(* shlMag.                                                                 *)
LEMMA ShlMagExact ==
  ASSUME NEW a \in Seq(Word), NEW n \in Nat, PowersUpTo(n)
  PROVE  /\ ShlMag(a, n) \in Seq(Word)
         /\ ToNat(ShlMag(a, n)) = ToNat(a) * 2 ^ n
         /\ a # << >> /\ Trimmed(a) => Trimmed(ShlMag(a, n))
<1> DEFINE words == n \div WordBits
           bits == n % WordBits
<1>1. words \in Nat /\ words <= words
  BY WordBitsAssumption
<1>2. PICK w : Weights(w, words)
  BY <1>1, WeightsExist
<1>3. 2 ^ n = w[words] * 2 ^ bits /\ w[words] \in Nat /\ 2 ^ bits \in Nat
  BY <1>2, PowerSplit
<1> HIDE DEF words, bits
<1>4. /\ ShlMag(a, n) \in Seq(Word)
      /\ ToNat(ShlMag(a, n)) = w[words] * (ToNat(a) * 2 ^ bits)
      /\ a # << >> /\ Trimmed(a) => Trimmed(ShlMag(a, n))
  BY <1>1, <1>2, ShlMagWeighted DEF words, bits
<1>5. ToNat(a) \in Int
  BY ToNatType, WordsProperties
<1>6. w[words] * (ToNat(a) * 2 ^ bits) = ToNat(a) * (w[words] * 2 ^ bits)
  <2> DEFINE x == w[words]
             y == ToNat(a)
             z == 2 ^ bits
  <2>1. x \in Int /\ y \in Int /\ z \in Int
    BY <1>3, <1>5
  <2> HIDE DEF x, y, z
  <2>2. x * (y * z) = y * (x * z)
    BY <2>1
  <2>3. QED
    BY <2>2 DEF x, y, z
<1>7. QED
  BY <1>3, <1>4, <1>6
-----------------------------------------------------------------------------
(* What k words can hold is less than the weight of the next one.          *)
LEMMA ToNatBound ==
  ASSUME NEW a \in Seq(Word), NEW n \in Nat, NEW w, Weights(w, n),
         NEW k \in 0 .. n, Len(a) <= k
  PROVE  ToNat(a) < w[k]
<1> DEFINE one == 1
           lo == [i \in 1 .. k |-> 0]
           hi == <<one>>
           b == [i \in 1 .. k + 1 |-> IF i = k + 1 THEN 1 ELSE 0]
<1>1. one \in Word /\ 0 \in Word /\ one = 1
  BY BaseProperties DEF Word
<1>2. b \in Seq(Word) /\ Len(b) = k + 1 /\ b[Len(b)] # 0
  BY <1>1
<1>3. Trimmed(b)
  BY <1>2 DEF Trimmed
<1>4. b \in Seq(Int)
  BY <1>2, WordsProperties
<1>5. lo \in Seq(Int) /\ Len(lo) = k /\ \A i \in 1 .. Len(lo) : lo[i] = 0
  OBVIOUS
<1>6. hi \in Seq(Int) /\ Len(hi) = 1 /\ hi[1] = 1
  OBVIOUS
<1>7. /\ \A i \in 1 .. k : b[i] = 0
      /\ \A i \in 1 .. 1 : b[k + i] = 1
  OBVIOUS
<1> HIDE DEF lo, hi, b
<1>8. \A i \in 1 .. Len(lo) : b[i] = lo[i]
  BY <1>5, <1>7
<1>9. \A i \in 1 .. Len(hi) : b[Len(lo) + i] = hi[i]
  BY <1>5, <1>6, <1>7
<1>10. Parts(b, lo, hi)
  BY <1>2, <1>4, <1>5, <1>6, <1>8, <1>9 DEF Parts
<1>11. Len(lo) <= n
  BY <1>5
<1>12. ToNat(b) = ToNat(lo) + w[Len(lo)] * ToNat(hi)
  BY ONLY <1>10, <1>11, ToNatParts, n \in Nat, Weights(w, n)
<1>13. ToNat(lo) = 0 /\ ToNat(hi) = 1
  BY <1>5, <1>6, ToNatZeros, ToNatSingle
<1>14. w[k] \in Int
  BY WeightsPositive
<1>15. ToNat(b) = w[k]
  BY <1>5, <1>12, <1>13, <1>14
<1>16. Len(a) < Len(b)
  BY <1>2, WordsProperties
<1>17. ToNat(a) < ToNat(b)
  BY <1>2, <1>3, <1>16, ShorterLess
<1>18. QED
  BY <1>15, <1>17

(* A digit moved down by P: what stays of it, and the place of what leaves *)
(* it at the top of the next word.                                         *)
LEMMA ShrDigit ==
  ASSUME NEW B, NEW P, NEW Q, Splits(B, Q, P),
         NEW x \in Nat, x < B, NEW y \in Nat, y < B
  PROVE  /\ (y * Q) % B = (y % P) * Q
         /\ x \div P \in Nat /\ y % P \in Nat /\ y % P < P
         /\ (x \div P) + (y % P) * Q \in 0 .. B - 1
         /\ x = (x \div P) * P + (x % P)
<1>1. B \in Nat /\ P \in Nat /\ Q \in Nat /\ P >= 1 /\ Q >= 1 /\ Q * P = B
  BY DEF Splits
<1> DEFINE zero == 0
<1>2. zero \in Nat /\ zero < Q
  BY <1>1
<1> HIDE DEF zero
<1>3. Moved(B, Q, P, x, zero) /\ Moved(B, Q, P, y, zero)
  BY <1>2, ShiftDigit
<1>4. (y * Q) % B = (y % P) * Q
  BY <1>3 DEF Moved
<1>5. x \div P \in Nat /\ x \div P < Q
  BY <1>3 DEF Moved
<1>6. y % P \in Nat /\ y % P < P
  BY <1>1
<1>7. x = (x \div P) * P + (x % P)
  BY <1>1
<1> DEFINE q == x \div P
           r == y % P
<1>8. q \in Nat /\ q < Q /\ r \in Nat /\ r <= P - 1
  BY <1>1, <1>5, <1>6
<1> HIDE DEF q, r
<1>9. r * Q \in Nat /\ r * Q <= Q * P - Q
  <2>1. r * Q <= (P - 1) * Q /\ r * Q \in Nat
    BY <1>1, <1>8
  <2>2. (P - 1) * Q = Q * P - Q
    BY <1>1
  <2>3. QED
    BY <2>1, <2>2
<1> DEFINE t == r * Q
<1>10. t \in Nat /\ t <= B - Q
  BY <1>1, <1>9
<1> HIDE DEF t
<1>11. q + t \in 0 .. B - 1
  BY <1>1, <1>8, <1>10
<1>12. QED
  BY <1>4, <1>5, <1>6, <1>7, <1>11 DEF q, r, t

(* One round of the scheme of a row moved down by P.                       *)
LEMMA ShrRound ==
  ASSUME NEW h \in Int, NEW s \in Int, NEW q \in Int, NEW t \in Int,
         NEW P \in Int, NEW Q \in Int
  PROVE  (h * (Q * P) + (q + s * Q)) * P + t = (h * P + s) * (Q * P) + (q * P + t)
<1> DEFINE B == Q * P
<1>1. B \in Int /\ s * Q \in Int
  OBVIOUS
<1> DEFINE v == s * Q
<1>2. (s * Q) * P = s * (Q * P)
  OBVIOUS
<1>3. v * P = s * B /\ v \in Int
  BY <1>1, <1>2
<1> HIDE DEF B, v
<1>4. (h * B + (q + v)) * P = h * B * P + q * P + v * P
  BY <1>1, <1>3
<1>5. (h * P + s) * B = h * P * B + s * B
  BY <1>1
<1>6. h * B * P = h * P * B
  BY <1>1
<1> DEFINE g == h * B * P
           k == q * P
           l == s * B
<1>7. g \in Int /\ k \in Int /\ l \in Int
  <2>1. h * B \in Int
    BY <1>1
  <2>2. QED
    BY <1>1, <2>1
<1>8. (h * B + (q + v)) * P = g + k + l
  BY <1>3, <1>4
<1>9. (h * P + s) * B = g + l
  BY <1>5, <1>6
<1>10. (h * B + (q + v)) * P + t = (g + k + l) + t
  BY <1>8
<1>11. (h * P + s) * B + (k + t) = (g + l) + (k + t)
  BY <1>9
<1> HIDE DEF g, l
<1>12. (h * B + (q + v)) * P + t = (h * P + s) * B + (k + t)
  <2> HIDE DEF k
  <2>1. (g + k + l) + t = (g + l) + (k + t)
    BY <1>7
  <2>2. QED
    BY <1>10, <1>11, <2>1
<1>13. QED
  BY <1>12 DEF B, v, k

(* The words of shrMag before a zero top word is dropped.                  *)
LEMMA ShrWordsExact ==
  ASSUME NEW a \in Seq(Word), NEW bits \in 0 .. WordBits - 1
  PROVE  LET r == ShrWords(a, bits)
             P == 2 ^ bits
         IN  /\ r \in Seq(Word) /\ Len(r) = Len(a)
             /\ ToNat(r) = ToNat(a) \div P
             /\ Len(a) > 0 => r[Len(a)] = a[Len(a)] \div P
             /\ Len(a) > 1 => r[Len(a) - 1] >= a[Len(a)] % P
<1> DEFINE P == 2 ^ bits
           Q == 2 ^ (WordBits - bits)
           B == Base
           m == Len(a)
           d(i) == Digit(a, i)
           r == ShrWords(a, bits)
<1>1. P \in Nat /\ Q \in Nat /\ P >= 1 /\ Q >= 1 /\ Q * P = B /\ B \in Nat
  <2>1. P \in Nat /\ Q \in Nat /\ P >= 1 /\ Q >= 2 /\ P * Q = B
    BY ShiftPowers
  <2>2. Q * P = P * Q
    BY <2>1
  <2>3. QED
    BY <2>1, <2>2, BaseProperties
<1>2. Splits(B, Q, P)
  BY <1>1 DEF Splits
<1>3. m \in Nat /\ a \in Seq(Int) /\ \A i \in 1 .. m : a[i] \in Nat /\ a[i] < B
  BY WordsProperties
<1>4. \A i \in Int : d(i) \in Nat /\ d(i) < B
  <2>1. ASSUME NEW i \in Int PROVE d(i) \in Nat /\ d(i) < B
    <3>1. CASE i \in 1 .. m
      <4>1. d(i) = a[i]
        BY <1>3, <3>1 DEF Digit
      <4>2. QED
        BY <1>3, <3>1, <4>1
    <3>2. CASE i \notin 1 .. m
      <4>1. d(i) = 0
        BY <1>3, <3>2 DEF Digit
      <4>2. QED
        BY <4>1, BaseProperties
    <3>3. QED
      BY <3>1, <3>2
  <2>2. QED
    BY <2>1
<1>5. \A i \in 1 .. m : d(i) = a[i]
  BY <1>3 DEF Digit
<1>6. d(m + 1) = 0
  BY <1>3 DEF Digit
<1>7. /\ \A i \in DOMAIN r : r[i] = (a[i] \div P) + ((d(i + 1) * Q) % B)
      /\ DOMAIN r = 1 .. m
  BY <1>3 DEF ShrWords
<1> HIDE DEF P, Q, B, d, r
<1>8. ASSUME NEW i \in 1 .. m
      PROVE  /\ r[i] \in 0 .. B - 1 /\ r[i] = (d(i) \div P) + (d(i + 1) % P) * Q
             /\ d(i + 1) % P \in Nat /\ d(i) \div P \in Nat
             /\ d(i) = (d(i) \div P) * P + (d(i) % P)
  <2> DEFINE x == d(i)
             y == d(i + 1)
  <2>1. x \in Nat /\ x < B /\ y \in Nat /\ y < B
    <3>1. i \in Int /\ i + 1 \in Int
      OBVIOUS
    <3>2. QED
      BY <1>4, <3>1
  <2>2. r[i] = (x \div P) + ((y * Q) % B)
    BY <1>5, <1>7
  <2> HIDE DEF x, y
  <2>3. /\ (y * Q) % B = (y % P) * Q
        /\ x \div P \in Nat /\ y % P \in Nat /\ y % P < P
        /\ (x \div P) + (y % P) * Q \in 0 .. B - 1
        /\ x = (x \div P) * P + (x % P)
    BY <1>2, <2>1, ShrDigit
  <2>4. r[i] = (x \div P) + (y % P) * Q
    BY <2>2, <2>3
  <2>5. QED
    BY <2>3, <2>4 DEF x, y
<1>9. r \in Seq(Word) /\ Len(r) = m
  <2>1. \A i \in 1 .. m : r[i] \in Word
    BY <1>8 DEF B, Word, WordMax
  <2>2. r = [i \in 1 .. m |-> r[i]]
    BY <1>3 DEF r, ShrWords
  <2>3. QED
    BY <1>3, <2>1, <2>2
<1>10. r \in Seq(Int)
  BY <1>9, WordsProperties
<1>11. PICK h : HornerOf(a, h)
  BY <1>3, ToNatUnfolds
<1>12. PICK g : HornerOf(r, g)
  BY <1>10, ToNatUnfolds
<1>13. /\ h \in [0 .. m -> Int] /\ h[0] = 0 /\ ToNat(a) = h[m]
       /\ \A i \in 1 .. m : h[i] = h[i - 1] * B + a[m + 1 - i]
  BY <1>11 DEF HornerOf, B
<1>14. /\ g \in [0 .. m -> Int] /\ g[0] = 0 /\ ToNat(r) = g[m]
       /\ \A i \in 1 .. m : g[i] = g[i - 1] * B + r[m + 1 - i]
  BY <1>9, <1>12 DEF HornerOf, B
<1> DEFINE e(i) == d(m + 1 - i) % P
           T == {i \in 0 .. m : g[i] * P + e(i) = h[i]}
<1>15. 0 \in T
  <2>1. d(m + 1 - 0) = 0
    BY <1>3, <1>6
  <2>2. e(0) = 0
    BY <1>1, <2>1
  <2> HIDE DEF e
  <2>3. g[0] * P + e(0) = 0 /\ h[0] = 0 /\ 0 \in 0 .. m
    BY <1>1, <1>3, <1>13, <1>14, <2>2
  <2>4. QED
    BY <2>3
<1>16. ASSUME NEW i \in 0 .. m - 1, i \in T PROVE i + 1 \in T
  <2> DEFINE k == m - i
  <2>1. k \in 1 .. m /\ m + 1 - (i + 1) = k /\ m + 1 - i = k + 1 /\ i + 1 \in 1 .. m
        /\ (i + 1) - 1 = i /\ i + 1 \in 0 .. m /\ i \in 0 .. m
    BY <1>3
  <2> HIDE DEF k
  <2>2. h[i + 1] = h[i] * B + d(k)
    <3>1. h[i + 1] = h[(i + 1) - 1] * B + a[m + 1 - (i + 1)]
      BY <1>13, <2>1
    <3>2. QED
      BY <1>5, <2>1, <3>1
  <2>3. g[i + 1] = g[i] * B + r[k]
    <3>1. g[i + 1] = g[(i + 1) - 1] * B + r[m + 1 - (i + 1)]
      BY <1>14, <2>1
    <3>2. QED
      BY <2>1, <3>1
  <2> DEFINE q == d(k) \div P
             s == d(k + 1) % P
             t == d(k) % P
             G == g[i]
  <2>4. r[k] = q + s * Q /\ d(k) = q * P + t /\ q \in Int /\ s \in Int
    BY <1>8, <2>1
  <2>5. t \in Int
    <3>1. k \in Int
      BY <2>1
    <3> DEFINE x == d(k)
    <3>2. x \in Nat
      BY <1>4, <3>1
    <3> HIDE DEF x
    <3>3. x % P \in Int
      BY <1>1, <3>2
    <3>4. QED
      BY <3>3 DEF x
  <2>6. G \in Int
    BY <1>14, <2>1
  <2>7. G * P + s = h[i]
    BY <1>16, <2>1
  <2>8. g[i + 1] = G * (Q * P) + (q + s * Q)
    BY <1>1, <2>3, <2>4
  <2>9. h[i + 1] = (G * P + s) * (Q * P) + (q * P + t)
    BY <1>1, <2>2, <2>4, <2>7
  <2> HIDE DEF q, s, t, G
  <2>10. (G * (Q * P) + (q + s * Q)) * P + t = (G * P + s) * (Q * P) + (q * P + t)
    BY <1>1, <2>4, <2>5, <2>6, ShrRound
  <2>11. g[i + 1] * P + t = h[i + 1]
    BY <2>8, <2>9, <2>10
  <2>12. t = e(i + 1)
    BY <2>1 DEF t
  <2>13. QED
    BY <2>1, <2>11, <2>12
<1> HIDE DEF T
<1>17. \A i \in 0 .. m : i \in T
  BY <1>3, <1>15, <1>16, UpTo
<1> HIDE DEF e
<1>18. ToNat(r) * P + e(m) = ToNat(a)
  <2>1. m \in T
    BY <1>3, <1>17
  <2>2. QED
    BY <1>13, <1>14, <2>1 DEF T
<1>19. e(m) \in Int /\ 0 <= e(m) /\ e(m) < P
  <2> DEFINE x == d(m + 1 - m)
  <2>1. m + 1 - m \in Int
    BY <1>3
  <2>2. x \in Nat
    BY <1>4, <2>1
  <2> HIDE DEF x
  <2>3. x % P \in Int /\ 0 <= x % P /\ x % P < P
    BY <1>1, <2>2
  <2>4. QED
    BY <2>3 DEF x, e
<1>20. ToNat(r) \in Int
  BY <1>10, ToNatType
<1>21. (ToNat(r) * P + e(m)) \div P = ToNat(r)
  BY <1>1, <1>19, <1>20, DivisionUnique
<1>22. ToNat(r) = ToNat(a) \div P
  BY <1>18, <1>21
<1>23. ASSUME m > 0 PROVE r[m] = a[m] \div P
  <2>1. m \in 1 .. m
    BY <1>3, <1>23
  <2>2. r[m] = (d(m) \div P) + (d(m + 1) % P) * Q /\ d(m) \div P \in Nat
    BY <1>8, <2>1
  <2>3. d(m + 1) % P = 0 /\ 0 * Q = 0
    BY <1>1, <1>6
  <2>4. d(m) = a[m]
    BY <1>5, <2>1
  <2>5. QED
    BY <2>2, <2>3, <2>4
<1>24. ASSUME m > 1 PROVE r[m - 1] >= a[m] % P
  <2>1. m - 1 \in 1 .. m /\ m \in 1 .. m /\ (m - 1) + 1 = m
    BY <1>3, <1>24
  <2> DEFINE s == d(m) % P
             q == d(m - 1) \div P
  <2>2. r[m - 1] = q + s * Q /\ s \in Nat /\ q \in Nat
    BY <1>8, <2>1
  <2>3. s = a[m] % P
    BY <1>5, <2>1
  <2> HIDE DEF s, q
  <2>4. s * Q >= s
    BY <1>1, <2>2
  <2>5. QED
    <3> DEFINE t == s * Q
    <3>1. t \in Int /\ t >= s
      BY <1>1, <2>2, <2>4
    <3>2. r[m - 1] = q + t
      BY <2>2
    <3> HIDE DEF t
    <3>3. r[m - 1] >= s
      BY <2>2, <3>1, <3>2
    <3>4. QED
      BY <2>3, <3>3
<1>25. QED
  BY <1>9, <1>22, <1>23, <1>24 DEF P, r

(* Dividing twice is dividing by the product.                              *)
LEMMA DivisionTwice ==
  ASSUME NEW x \in Nat, NEW p \in Nat, NEW q \in Nat, p >= 1, q >= 1
  PROVE  (x \div p) \div q = x \div (p * q)
<1> DEFINE y == x \div p
           s == x % p
<1>1. y \in Nat /\ s \in Nat /\ s <= p - 1 /\ x = y * p + s
  OBVIOUS
<1> HIDE DEF y, s
<1> DEFINE z == y \div q
           t == y % q
<1>2. z \in Nat /\ t \in Nat /\ t <= q - 1 /\ y = z * q + t
  BY <1>1
<1> HIDE DEF z, t
<1> DEFINE r == t * p + s
           B == p * q
<1>3. r \in Nat /\ r < B
  <2>1. t * p <= (q - 1) * p /\ t * p \in Nat
    BY <1>2
  <2>2. (q - 1) * p = p * q - p
    OBVIOUS
  <2>3. p * q \in Nat
    OBVIOUS
  <2> DEFINE g == t * p
             h == p * q
  <2>4. g \in Nat /\ h \in Nat /\ g <= h - p
    BY <2>1, <2>2, <2>3
  <2> HIDE DEF g, h
  <2>5. g + s \in Nat /\ g + s < h
    BY <1>1, <2>4
  <2>6. QED
    BY <2>5 DEF g, h
<1>4. x = z * B + r
  <2>1. x = (z * q + t) * p + s
    BY <1>1, <1>2
  <2>2. (z * q + t) * p = z * (p * q) + t * p
    BY <1>2
  <2>3. QED
    <3> DEFINE g == t * p
               h == z * (p * q)
    <3>1. g \in Int /\ h \in Int
      BY <1>2
    <3>2. x = (h + g) + s
      BY <2>1, <2>2
    <3>3. z * B + r = h + (g + s)
      OBVIOUS
    <3> HIDE DEF g, h
    <3>4. (h + g) + s = h + (g + s)
      BY <1>1, <3>1
    <3>5. QED
      BY <3>2, <3>3, <3>4
<1>5. B \in Nat /\ B >= 1
  <2>1. p * q \in Nat
    OBVIOUS
  <2>2. B \in Nat
    BY <2>1
  <2> HIDE DEF B
  <2>3. QED
    BY <1>3, <2>2
<1> HIDE DEF B, r
<1>6. (z * B + r) \div B = z
  BY <1>2, <1>3, <1>5, DivisionUnique
<1>7. QED
  BY <1>4, <1>6 DEF B, z, y

(* Dropping words divides by the weight of the lowest that stays.          *)
LEMMA SuffixExact ==
  ASSUME NEW a \in Seq(Word), NEW k \in Nat, NEW n \in Nat, NEW w, Weights(w, n), k <= n
  PROVE  LET r == SubSeq(a, k + 1, Len(a))
         IN  /\ r \in Seq(Word)
             /\ ToNat(r) = ToNat(a) \div w[k]
             /\ Len(r) = IF k <= Len(a) THEN Len(a) - k ELSE 0
             /\ Trimmed(a) => Trimmed(r)
<1> DEFINE r == SubSeq(a, k + 1, Len(a))
           v == w[k]
<1>1. v \in Nat /\ v >= 1
  <2>1. k \in 0 .. n
    OBVIOUS
  <2>2. QED
    BY <2>1, WeightsPositive
<1>2. a \in Seq(Int) /\ a \in Seq(Nat) /\ Len(a) \in Nat
  BY WordsProperties
<1>3. ToNat(a) \in Nat
  BY <1>2, ToNatPositive
<1>4. CASE k <= Len(a)
  <2> DEFINE lo == SubSeq(a, 1, k)
  <2>1. k \in 0 .. Len(a) /\ k \in 0 .. n
    BY <1>2, <1>4
  <2>2. ToNat(a) = ToNat(lo) + v * ToNat(r)
    BY <1>2, <1>4, <2>1, ToNatSplit
  <2>3. lo \in Seq(Word) /\ Len(lo) = k
    BY <1>2, <2>1
  <2>4. r \in Seq(Word) /\ Len(r) = Len(a) - k /\ \A i \in 1 .. Len(a) - k : r[i] = a[k + i]
    BY <1>2, <2>1
  <2> HIDE DEF lo, r, v
  <2>5. Len(lo) <= k
    BY <2>3
  <2>6. ToNat(lo) < v
    BY <2>1, <2>3, <2>5, ToNatBound DEF v
  <2>7. ToNat(lo) \in Nat /\ ToNat(r) \in Nat
    BY <2>3, <2>4, WordsProperties, ToNatPositive
  <2>8. v * ToNat(r) = ToNat(r) * v
    BY <1>1, <2>7
  <2>9. ToNat(a) = ToNat(r) * v + ToNat(lo)
    <3> DEFINE p == v * ToNat(r)
    <3>1. p \in Int
      BY <1>1, <2>7
    <3>2. ToNat(a) = ToNat(lo) + p
      BY <2>2
    <3> HIDE DEF p
    <3>3. ToNat(a) = p + ToNat(lo)
      BY <2>7, <3>1, <3>2
    <3>4. QED
      BY <2>8, <3>3 DEF p
  <2>10. (ToNat(r) * v + ToNat(lo)) \div v = ToNat(r)
    <3> DEFINE q == ToNat(r)
               s == ToNat(lo)
    <3>1. q \in Int /\ s \in Int /\ 0 <= s /\ s < v
      BY <2>6, <2>7
    <3> HIDE DEF q, s
    <3>2. (q * v + s) \div v = q
      BY <1>1, <3>1, DivisionUnique
    <3>3. QED
      BY <3>2 DEF q, s
  <2>11. ASSUME Trimmed(a) PROVE Trimmed(r)
    <3>1. CASE k = Len(a)
      BY <1>2, <2>4, <3>1 DEF Trimmed
    <3>2. CASE k < Len(a)
      <4>1. Len(a) - k \in 1 .. Len(a) - k /\ k + (Len(a) - k) = Len(a)
        BY <1>2, <3>2
      <4>2. r[Len(r)] = a[Len(a)]
        BY <2>4, <4>1
      <4>3. a # << >>
        BY <1>2, <3>2
      <4>4. QED
        BY <2>11, <4>2, <4>3 DEF Trimmed
    <3>3. QED
      BY <1>2, <1>4, <3>1, <3>2
  <2>12. QED
    BY <1>4, <2>4, <2>9, <2>10, <2>11 DEF r, v
<1>5. CASE k > Len(a)
  <2>1. r = << >>
    BY <1>2, <1>5
  <2>2. k \in 0 .. n /\ Len(a) <= k
    BY <1>2, <1>5
  <2>3. ToNat(a) < v
    BY <2>2, ToNatBound
  <2> HIDE DEF v
  <2>4. ToNat(a) \div v = 0
    BY <1>1, <1>3, <2>3
  <2>5. r \in Seq(Word) /\ ToNat(r) = 0 /\ Len(r) = 0 /\ Trimmed(r)
    <3>1. << >> \in Seq(Word) /\ Len(<< >>) = 0
      OBVIOUS
    <3>2. QED
      BY <2>1, <3>1, ToNatEmpty DEF Trimmed
  <2>6. ~(k <= Len(a))
    BY <1>2, <1>5
  <2>7. QED
    BY <2>4, <2>5, <2>6 DEF v
<1>6. QED
  BY <1>2, <1>4, <1>5

(* shrMag, with the zero top word it drops.                                *)
LEMMA ShrMagExact ==
  ASSUME NEW a \in Seq(Word), NEW n \in Nat, PowersUpTo(n)
  PROVE  /\ ShrMag(a, n) \in Seq(Word)
         /\ ToNat(ShrMag(a, n)) = ToNat(a) \div 2 ^ n
         /\ Trimmed(a) => Trimmed(ShrMag(a, n))
<1> DEFINE words == n \div WordBits
           bits == n % WordBits
           P == 2 ^ bits
           kept == SubSeq(a, words + 1, Len(a))
           r == ShrWords(kept, bits)
           s == ShrMag(a, n)
<1>1. words \in Nat /\ words <= words
  BY WordBitsAssumption
<1>2. PICK w : Weights(w, words)
  BY <1>1, WeightsExist
<1>3. /\ bits \in 0 .. WordBits - 1 /\ 2 ^ n = w[words] * P
      /\ w[words] \in Nat /\ w[words] >= 1 /\ P \in Nat /\ P >= 1
  BY <1>2, PowerSplit
<1>4. s = IF bits # 0 /\ r # << >> /\ r[Len(r)] = 0 THEN SubSeq(r, 1, Len(r) - 1) ELSE r
  BY DEF ShrMag
<1> HIDE DEF words, s
<1>5. /\ kept \in Seq(Word) /\ ToNat(kept) = ToNat(a) \div w[words]
      /\ Trimmed(a) => Trimmed(kept)
  BY <1>1, <1>2, SuffixExact
<1> HIDE DEF kept
<1> DEFINE m == Len(kept)
<1>6. /\ r \in Seq(Word) /\ Len(r) = m
      /\ ToNat(r) = ToNat(kept) \div P
      /\ m > 0 => r[m] = kept[m] \div P
      /\ m > 1 => r[m - 1] >= kept[m] % P
  <2> HIDE DEF bits
  <2>1. QED
    BY <1>3, <1>5, ShrWordsExact
<1>7. m \in Nat /\ \A i \in 1 .. m : kept[i] \in Nat
  BY <1>5, WordsProperties
<1> HIDE DEF bits, r, P, m
<1>8. ToNat(r) = ToNat(a) \div 2 ^ n
  <2> DEFINE x == ToNat(a)
             v == w[words]
  <2>1. x \in Nat
    BY WordsProperties, ToNatPositive
  <2>2. v \in Nat /\ v >= 1
    BY <1>3
  <2> HIDE DEF x, v
  <2>3. (x \div v) \div P = x \div (v * P)
    BY <1>3, <2>1, <2>2, DivisionTwice
  <2>4. QED
    BY <1>3, <1>5, <1>6, <2>3 DEF x, v
<1>9. CASE bits # 0 /\ r # << >> /\ r[Len(r)] = 0
  <2>1. s = SubSeq(r, 1, m - 1) /\ m >= 1 /\ r[m] = 0
    BY <1>4, <1>6, <1>7, <1>9
  <2>2. /\ s \in Seq(Word) /\ Len(s) = m - 1
        /\ \A i \in 1 .. m - 1 : s[i] = r[i]
    BY <1>6, <1>7, <2>1
  <2>3. ToNat(r) = ToNat(s)
    <3>1. r \in Seq(Int) /\ s \in Seq(Int)
      <4>1. r \in Seq(Int)
        BY <1>6, WordsProperties
      <4>2. s \in Seq(Int)
        BY <2>2, WordsProperties
      <4>3. QED
        BY <4>1, <4>2
    <3>2. Len(s) <= Len(r)
      BY <1>6, <1>7, <2>2
    <3>3. \A i \in 1 .. Len(s) : r[i] = s[i]
      BY <2>2
    <3>4. \A i \in Len(s) + 1 .. Len(r) : r[i] = 0
      BY <1>6, <1>7, <2>1, <2>2
    <3>5. QED
      BY <3>1, <3>2, <3>3, <3>4, ToNatPadded
  <2>4. ASSUME Trimmed(a) PROVE Trimmed(s)
    <3>1. CASE m = 1
      BY <2>2, <3>1 DEF Trimmed
    <3>2. CASE m # 1
      <4>1. m > 1 /\ m > 0 /\ m \in 1 .. m /\ m - 1 \in 1 .. m - 1 /\ m - 1 \in 1 .. m
        BY <1>7, <2>1, <3>2
      <4>2. kept[m] \in Nat /\ kept[m] # 0
        <5>1. kept # << >>
          BY <1>5, <4>1 DEF m
        <5>2. kept[m] # 0
          BY <1>5, <2>4, <5>1 DEF Trimmed, m
        <5>3. QED
          BY <1>7, <4>1, <5>2
      <4> DEFINE x == kept[m]
      <4>3. x \div P = 0
        BY <1>6, <2>1, <4>1
      <4>4. x \in Nat /\ x # 0
        BY <4>2
      <4> HIDE DEF x
      <4>5. x % P = x
        BY <1>3, <4>3, <4>4
      <4>6. r[m - 1] >= x
        BY <1>6, <4>1, <4>5 DEF x
      <4>7. r[m - 1] # 0
        <5> DEFINE y == r[m - 1]
        <5>1. y >= x /\ y \in Nat
          <6>1. y \in Nat
            BY <1>6, <4>1, WordsProperties
          <6>2. QED
            BY <4>6, <6>1
        <5> HIDE DEF y
        <5>2. y # 0
          BY <4>4, <5>1
        <5>3. QED
          BY <5>2 DEF y
      <4>8. s[m - 1] # 0
        BY <2>2, <4>1, <4>7
      <4>9. QED
        BY <2>2, <4>8 DEF Trimmed
    <3>3. QED
      BY <3>1, <3>2
  <2>5. QED
    BY <1>8, <2>2, <2>3, <2>4 DEF s
<1>10. CASE ~(bits # 0 /\ r # << >> /\ r[Len(r)] = 0)
  <2>1. s = r
    BY <1>4, <1>10
  <2>2. ASSUME Trimmed(a) PROVE Trimmed(r)
    <3>1. CASE r = << >>
      BY <3>1 DEF Trimmed
    <3>2. CASE r # << >> /\ bits # 0
      BY <1>10, <3>2 DEF Trimmed
    <3>3. CASE r # << >> /\ bits = 0
      <4>1. P = 1
        BY <3>3, PowerAssumption DEF P, PowersUpTo
      <4>2. m > 0 /\ m \in 1 .. m
        BY <1>6, <1>7, <3>3
      <4>3. kept[m] # 0 /\ kept[m] \in Nat
        <5>1. kept # << >>
          BY <1>5, <4>2 DEF m
        <5>2. kept[m] # 0
          BY <1>5, <2>2, <5>1 DEF Trimmed, m
        <5>3. QED
          BY <1>7, <4>2, <5>2
      <4> DEFINE x == kept[m]
      <4>4. r[m] = x \div P /\ x \in Nat /\ x # 0
        BY <1>6, <4>2, <4>3
      <4> HIDE DEF x
      <4>5. x \div 1 = x
        BY <4>4
      <4>6. r[m] # 0
        BY <4>1, <4>4, <4>5
      <4>7. QED
        BY <1>6, <4>6 DEF Trimmed
    <3>4. QED
      BY <3>1, <3>2, <3>3
  <2>3. QED
    BY <1>6, <1>8, <2>1, <2>2 DEF s
<1>11. QED
  BY <1>9, <1>10
-----------------------------------------------------------------------------
(* A loop whose rounds are defined only while an invariant holds: I[i] are *)
(* the states it may be in after i rounds.                                 *)
Keeps(I, n, base, step) ==
  base \in I[0] /\ \A i \in 1 .. n : \A s \in I[i - 1] : step[<<s, i>>] \in I[i]

(* Such a loop unfolds too.                                                *)
LEMMA GuardedRecursion ==
  ASSUME NEW n \in Nat, NEW S, NEW I \in [0 .. n -> SUBSET S], NEW base, NEW step,
         Keeps(I, n, base, step)
  PROVE  \E f \in [0 .. n -> S] : Unfolds(f, n, base, step) /\ \A i \in 0 .. n : f[i] \in I[i]
<1> DEFINE g == [p \in S \X (1 .. n) |-> IF p[1] \in I[p[2] - 1] THEN step[p] ELSE p[1]]
<1>1. base \in I[0] /\ \A i \in 1 .. n : \A s \in I[i - 1] : step[<<s, i>>] \in I[i]
  BY DEF Keeps
<1>2. \A i \in 1 .. n : i \in 0 .. n /\ i - 1 \in 0 .. n
  OBVIOUS
<1>3. 0 \in 0 .. n
  OBVIOUS
<1>4. base \in S
  BY <1>1, <1>3
<1>5. g \in [S \X (1 .. n) -> S]
  <2>1. ASSUME NEW p \in S \X (1 .. n) PROVE (IF p[1] \in I[p[2] - 1] THEN step[p] ELSE p[1]) \in S
    <3>1. p[1] \in S /\ p[2] \in 1 .. n /\ p = <<p[1], p[2]>>
      OBVIOUS
    <3>2. ASSUME p[1] \in I[p[2] - 1] PROVE step[p] \in S
      <4>1. step[<<p[1], p[2]>>] \in I[p[2]]
        BY <1>1, <3>1, <3>2
      <4>2. I[p[2]] \subseteq S
        BY <1>2, <3>1
      <4>3. QED
        BY <3>1, <4>1, <4>2
    <3>3. QED
      BY <3>1, <3>2
  <2>2. QED
    BY <2>1
<1>6. PICK f \in [0 .. n -> S] : Unfolds(f, n, base, g)
  <2> HIDE DEF g
  <2>1. QED
    BY <1>4, <1>5, Recursion
<1>7. f[0] = base /\ \A i \in 1 .. n : f[i] = g[<<f[i - 1], i>>]
  <2> HIDE DEF g
  <2>1. QED
    BY <1>6 DEF Unfolds
<1>8. ASSUME NEW i \in 1 .. n, f[i - 1] \in I[i - 1] PROVE f[i] = step[<<f[i - 1], i>>]
  <2>1. f[i - 1] \in S
    BY <1>2, <1>8
  <2>2. g[<<f[i - 1], i>>] = step[<<f[i - 1], i>>]
    BY <1>8, <2>1
  <2>3. QED
    BY <1>7, <2>2
<1> HIDE DEF g
<1> DEFINE T == {i \in 0 .. n : f[i] \in I[i]}
<1>9. 0 \in T
  BY <1>1, <1>3, <1>7
<1>10. ASSUME NEW i \in 0 .. n - 1, i \in T PROVE i + 1 \in T
  <2>1. i + 1 \in 1 .. n /\ (i + 1) - 1 = i /\ i + 1 \in 0 .. n
    OBVIOUS
  <2>2. f[i] \in I[i]
    BY <1>10
  <2>3. f[i + 1] = step[<<f[i], i + 1>>]
    BY <1>8, <2>1, <2>2
  <2>4. step[<<f[i], i + 1>>] \in I[i + 1]
    BY <1>1, <2>1, <2>2
  <2>5. QED
    BY <2>1, <2>3, <2>4
<1> HIDE DEF T
<1>11. \A i \in 0 .. n : i \in T
  BY <1>9, <1>10, UpTo
<1>12. \A i \in 0 .. n : f[i] \in I[i]
  BY <1>11 DEF T
<1>13. \A i \in 1 .. n : f[i] = step[<<f[i - 1], i>>]
  BY <1>2, <1>8, <1>12
<1>14. Unfolds(f, n, base, step)
  BY <1>7, <1>13 DEF Unfolds
<1>15. QED
  BY <1>12, <1>14

(* n rounds of g from base on.                                             *)
Rounds(f, S, n, base, g) ==
  f \in [0 .. n -> S] /\ f[0] = base /\ \A i \in 1 .. n : f[i] = g[f[i - 1]]

(* A loop without an end: what n rounds leave, for every n.                *)
LEMMA Iterate ==
  ASSUME NEW S, NEW base \in S, NEW g \in [S -> S]
  PROVE  \E F \in [Nat -> S] : F[0] = base /\ \A i \in Nat : F[i + 1] = g[F[i]]
<1>1. ASSUME NEW n \in Nat PROVE \E f : Rounds(f, S, n, base, g)
  <2> DEFINE step == [p \in S \X (1 .. n) |-> g[p[1]]]
  <2>1. step \in [S \X (1 .. n) -> S]
    OBVIOUS
  <2>2. \A s \in S, i \in 1 .. n : step[<<s, i>>] = g[s]
    OBVIOUS
  <2> HIDE DEF step
  <2>3. PICK f \in [0 .. n -> S] : Unfolds(f, n, base, step)
    BY <2>1, Recursion
  <2>4. \A i \in 1 .. n : i - 1 \in 0 .. n
    OBVIOUS
  <2>5. ASSUME NEW i \in 1 .. n PROVE f[i] = g[f[i - 1]]
    <3>1. f[i - 1] \in S
      BY <2>4
    <3>2. f[i] = step[<<f[i - 1], i>>]
      BY <2>3 DEF Unfolds
    <3>3. QED
      BY <2>2, <3>1, <3>2
  <2>6. f[0] = base
    BY <2>3 DEF Unfolds
  <2>7. Rounds(f, S, n, base, g)
    BY <2>5, <2>6 DEF Rounds
  <2>8. QED
    BY <2>7
<1> DEFINE run(n) == CHOOSE f : Rounds(f, S, n, base, g)
           F == [n \in Nat |-> run(n)[n]]
<1>2. ASSUME NEW n \in Nat PROVE Rounds(run(n), S, n, base, g)
  BY <1>1
<1> HIDE DEF run
<1>3. ASSUME NEW n \in Nat PROVE run(n)[n] \in S
  <2>1. n \in 0 .. n
    OBVIOUS
  <2>2. QED
    BY <1>2, <2>1 DEF Rounds
<1>4. F \in [Nat -> S]
  BY <1>3
<1>5. ASSUME NEW n \in Nat PROVE run(n + 1)[n] = run(n)[n]
  <2> DEFINE T == {i \in 0 .. n : run(n + 1)[i] = run(n)[i]}
  <2>1. 0 \in T
    BY <1>2 DEF Rounds
  <2>2. ASSUME NEW i \in 0 .. n - 1, i \in T PROVE i + 1 \in T
    <3>1. i + 1 \in 1 .. n /\ i + 1 \in 1 .. n + 1 /\ (i + 1) - 1 = i /\ n + 1 \in Nat
      OBVIOUS
    <3>2. run(n)[i + 1] = g[run(n)[i]]
      BY <1>2, <3>1 DEF Rounds
    <3>3. run(n + 1)[i + 1] = g[run(n + 1)[i]]
      BY <1>2, <3>1 DEF Rounds
    <3>4. QED
      BY <2>2, <3>1, <3>2, <3>3
  <2> HIDE DEF T
  <2>3. \A i \in 0 .. n : i \in T
    BY <2>1, <2>2, UpTo
  <2>4. n \in T
    BY <2>3
  <2>5. QED
    BY <2>4 DEF T
<1>6. F[0] = base
  <2>1. Rounds(run(0), S, 0, base, g)
    BY <1>2
  <2>2. run(0)[0] = base
    BY <2>1 DEF Rounds
  <2>3. QED
    BY <2>2
<1>7. ASSUME NEW i \in Nat PROVE F[i + 1] = g[F[i]]
  <2>1. i + 1 \in Nat /\ i + 1 \in 1 .. i + 1 /\ (i + 1) - 1 = i
    OBVIOUS
  <2>2. run(i + 1)[i + 1] = g[run(i + 1)[i]]
    <3>1. Rounds(run(i + 1), S, i + 1, base, g)
      BY <1>2, <2>1
    <3>2. QED
      BY <2>1, <3>1 DEF Rounds
  <2>3. QED
    BY <1>5, <2>1, <2>2
<1> HIDE DEF F
<1>8. QED
  BY <1>4, <1>6, <1>7
-----------------------------------------------------------------------------
(* A part of an operand of mulKaratsuba: a magnitude with fewer words than *)
(* the longer operand's m.                                                 *)
Smaller(c, m) == c \in Seq(Word) /\ Trimmed(c) /\ Len(c) < m

(* The two blocks of an operand and their sum, and the number they split.  *)
LEMMA BlocksExact ==
  ASSUME NEW a \in Seq(Word), NEW m \in Nat, Len(a) <= m, m >= 4,
         NEW half, half = (m + 1) \div 2, NEW n \in Nat, NEW w, Weights(w, n), half <= n
  PROVE  /\ Smaller(HighBlock(a, half), m) /\ Smaller(LowBlock(a, half), m)
         /\ Smaller(AddMag(HighBlock(a, half), LowBlock(a, half)), m)
         /\ ToNat(a) = ToNat(LowBlock(a, half)) + w[half] * ToNat(HighBlock(a, half))
<1> DEFINE l == Len(a)
           k == IF half <= l THEN half ELSE l
           lo == SubSeq(a, 1, k)
           hi == SubSeq(a, half + 1, l)
           L == LowBlock(a, half)
           H == HighBlock(a, half)
<1>1. half \in Nat /\ half >= 2 /\ half + 1 < m /\ m - half <= half /\ half < m
  <2> DEFINE r == (m + 1) % 2
  <2>1. half \in Nat /\ r \in 0 .. 1 /\ m + 1 = 2 * half + r
    OBVIOUS
  <2> HIDE DEF r
  <2>2. QED
    BY <2>1
<1>2. l \in Nat /\ a \in Seq(Int) /\ l <= m
  BY WordsProperties
<1>3. k \in 0 .. l /\ Min({half, l}) = k
  BY <1>1, <1>2, MinOfTwo
<1>4. L = EraseZerosSuffix(lo) /\ H = EraseZerosSuffix(hi)
  BY <1>3 DEF LowBlock, HighBlock
<1> HIDE DEF k, L, H, l
<1>5. lo \in Seq(Word) /\ Len(lo) = k
  <2>1. k <= l /\ k \in Nat
    BY <1>2, <1>3
  <2>2. \A i \in 1 .. k : i \in 1 .. l
    BY <1>2, <2>1
  <2>3. QED
    BY <2>1, <2>2 DEF l
<1>6. hi \in Seq(Word) /\ Len(hi) = IF half <= l THEN l - half ELSE 0
  BY <1>1, SuffixExact DEF l
<1> HIDE DEF lo, hi
<1>7. L \in Seq(Word) /\ Trimmed(L) /\ Len(L) <= half /\ ToNat(L) = ToNat(lo)
  <2>1. L \in Seq(Word) /\ Trimmed(L) /\ Len(L) \in 0 .. Len(lo) /\ ToNat(L) = ToNat(lo)
    BY <1>4, <1>5, EraseProperties
  <2>2. k <= half /\ k \in Nat
    BY <1>1, <1>2 DEF k
  <2>3. QED
    BY <1>1, <1>5, <2>1, <2>2
<1>8. H \in Seq(Word) /\ Trimmed(H) /\ Len(H) <= half /\ ToNat(H) = ToNat(hi)
  <2>1. H \in Seq(Word) /\ Trimmed(H) /\ Len(H) \in 0 .. Len(hi) /\ ToNat(H) = ToNat(hi)
    BY <1>4, <1>6, EraseProperties
  <2>2. Len(hi) \in Nat /\ Len(hi) <= half
    BY <1>1, <1>2, <1>6
  <2>3. QED
    BY <1>1, <2>1, <2>2
<1>9. Smaller(AddMag(H, L), m)
  <2>1. /\ AddMag(H, L) \in Seq(Word) /\ Trimmed(AddMag(H, L))
        /\ Len(AddMag(H, L)) \in {Max({Len(H), Len(L)}), Max({Len(H), Len(L)}) + 1}
    BY <1>7, <1>8, AddMagExact
  <2>2. Len(H) \in Nat /\ Len(L) \in Nat
    BY <1>7, <1>8
  <2>3. Max({Len(H), Len(L)}) \in {Len(H), Len(L)}
    BY <2>2, MaxOfTwo
  <2> DEFINE x == Max({Len(H), Len(L)})
             y == Len(AddMag(H, L))
  <2>4. x \in Nat /\ x <= half /\ y \in {x, x + 1}
    BY <1>7, <1>8, <2>1, <2>2, <2>3
  <2> HIDE DEF x, y
  <2>5. y < m
    BY <1>1, <2>4
  <2>6. QED
    BY <2>1, <2>5 DEF Smaller, y
<1>10. ToNat(a) = ToNat(lo) + w[half] * ToNat(hi)
  <2>1. CASE half <= l
    <3>1. k = half /\ k \in 0 .. Len(a) /\ k <= n
      BY <1>1, <1>2, <2>1 DEF k, l
    <3>2. ToNat(a) = ToNat(SubSeq(a, 1, k)) + w[k] * ToNat(SubSeq(a, k + 1, Len(a)))
      BY <1>2, <3>1, ToNatSplit
    <3>3. QED
      BY <3>1, <3>2 DEF lo, hi, l
  <2>2. CASE ~(half <= l)
    <3>1. k = l /\ lo = a
      <4>1. k = l
        BY <2>2 DEF k
      <4>2. lo = a
        BY <1>2, <4>1 DEF lo, l
      <4>3. QED
        BY <4>1, <4>2
    <3>2. hi = << >>
      BY <1>6, <2>2
    <3>3. ToNat(hi) = 0
      BY <3>2, ToNatEmpty
    <3>4. w[half] \in Nat /\ ToNat(a) \in Int
      <4>1. half \in 0 .. n
        BY <1>1
      <4>2. QED
        BY <1>2, <4>1, WeightsPositive, ToNatType
    <3>5. QED
      BY <3>1, <3>3, <3>4
  <2>3. QED
    BY <2>1, <2>2
<1>11. Smaller(H, m) /\ Smaller(L, m)
  <2>1. Len(H) \in Nat /\ Len(L) \in Nat
    BY <1>7, <1>8
  <2>2. Len(H) < m /\ Len(L) < m
    BY <1>1, <1>7, <1>8, <2>1
  <2>3. QED
    BY <1>7, <1>8, <2>2 DEF Smaller
<1>12. QED
  BY <1>7, <1>8, <1>9, <1>10, <1>11 DEF H, L

(* A block moved up by whole words; nothing stays nothing.                 *)
Up(x, bits) == IF x = << >> THEN x ELSE ShlMag(x, bits)

(* Moving up by words multiplies by their weight.                          *)
LEMMA UpExact ==
  ASSUME NEW x \in Seq(Word), NEW half \in Nat, NEW n \in Nat, NEW w, Weights(w, n), half <= n
  PROVE  LET r == Up(x, half * WordBits)
         IN  r \in Seq(Word) /\ ToNat(r) = w[half] * ToNat(x) /\ (Trimmed(x) => Trimmed(r))
<1> DEFINE bits == half * WordBits
           r == Up(x, bits)
<1>1. w[half] \in Nat /\ ToNat(x) \in Nat
  <2>1. half \in 0 .. n
    OBVIOUS
  <2>2. QED
    BY <2>1, WeightsPositive, WordsProperties, ToNatPositive
<1>2. CASE x = << >>
  <2>1. r = x
    BY <1>2 DEF Up
  <2>2. ToNat(x) = 0
    BY <1>2, ToNatEmpty
  <2>3. QED
    BY <1>1, <2>1, <2>2
<1>3. CASE x # << >>
  <2>1. r = ShlMag(x, bits)
    BY <1>3 DEF Up
  <2>2. bits \in Nat /\ bits \div WordBits = half /\ bits % WordBits = 0
    <3> DEFINE zero == 0
    <3>1. WordBits \in Nat /\ WordBits >= 1 /\ bits \in Nat /\ bits = half * WordBits + zero
      BY WordBitsAssumption
    <3>2. half \in Int /\ zero \in Int /\ 0 <= zero /\ zero < WordBits
      BY <3>1
    <3> HIDE DEF zero, bits
    <3>3. (half * WordBits + zero) \div WordBits = half /\ (half * WordBits + zero) % WordBits = zero
      BY <3>1, <3>2, DivisionUnique
    <3>4. QED
      BY <3>1, <3>3 DEF zero
  <2>3. 2 ^ 0 = 1
    BY PowerAssumption DEF PowersUpTo
  <2> HIDE DEF bits
  <2>4. /\ ShlMag(x, bits) \in Seq(Word)
        /\ ToNat(ShlMag(x, bits)) = w[half] * (ToNat(x) * 2 ^ 0)
        /\ x # << >> /\ Trimmed(x) => Trimmed(ShlMag(x, bits))
    <3>1. bits \div WordBits <= n
      BY <2>2
    <3> DEFINE q == bits \div WordBits
               t == bits % WordBits
    <3>2. /\ ShlMag(x, bits) \in Seq(Word)
          /\ ToNat(ShlMag(x, bits)) = w[q] * (ToNat(x) * 2 ^ t)
          /\ x # << >> /\ Trimmed(x) => Trimmed(ShlMag(x, bits))
      BY <2>2, <3>1, ShlMagWeighted
    <3>3. q = half /\ t = 0
      BY <2>2
    <3> HIDE DEF q, t
    <3>4. QED
      BY <3>2, <3>3
  <2>5. ToNat(x) * 2 ^ 0 = ToNat(x)
    BY <1>1, <2>3
  <2>6. QED
    BY <1>3, <2>1, <2>4, <2>5 DEF bits
<1>4. QED
  BY <1>2, <1>3

(* A trimmed magnitude that is not the greater number is not the longer.   *)
LEMMA NotLonger ==
  ASSUME NEW a \in Seq(Word), NEW b \in Seq(Word), Trimmed(b), ToNat(b) <= ToNat(a)
  PROVE  Len(b) <= Len(a)
<1>1. ToNat(a) \in Nat /\ ToNat(b) \in Nat /\ Len(a) \in Nat /\ Len(b) \in Nat
  BY WordsProperties, ToNatPositive
<1>2. SUFFICES ASSUME Len(a) < Len(b) PROVE FALSE
  BY <1>1
<1>3. ToNat(a) < ToNat(b)
  BY <1>2, ShorterLess
<1>4. QED
  BY <1>1, <1>3

(* Whatever is subtracted, the words of a difference are words.            *)
LEMMA SubMagWords ==
  ASSUME NEW a \in Seq(Word), NEW b \in Seq(Word)
  PROVE  SubMag(a, b) \in Seq(Word)
<1> DEFINE col == [i \in DOMAIN a |-> a[i] - Digit(b, i)]
<1>1. Len(a) \in Nat /\ DOMAIN a = 1 .. Len(a) /\ \A i \in DOMAIN a : a[i] \in Int
  BY WordsProperties
<1>2. \A i \in DOMAIN a : Digit(b, i) \in Int
  <2>1. DOMAIN b = 1 .. Len(b) /\ \A i \in DOMAIN b : b[i] \in Int
    BY WordsProperties
  <2>2. QED
    BY <2>1 DEF Digit
<1>3. col \in Seq(Int)
  BY <1>1, <1>2
<1>4. SubMag(a, b) = Ripple(col, 0).words
  BY DEF SubMag
<1> HIDE DEF col
<1>5. Ripple(col, 0).words \in Seq(Word)
  BY <1>3, RippleExact
<1>6. QED
  BY <1>4, <1>5

(* The three products put together are a magnitude.                        *)
LEMMA JoinWords ==
  ASSUME NEW p1 \in Seq(Word), NEW p2 \in Seq(Word), NEW p3 \in Seq(Word), NEW half \in Nat
  PROVE  JoinProducts(p1, p2, p3, half * WordBits) \in Seq(Word)
<1> DEFINE first == EraseZerosSuffix(SubMag(p3, p1))
           mid == EraseZerosSuffix(SubMag(first, p2))
           bits == half * WordBits
           high == AddMag(Up(p1, bits), mid)
<1>1. JoinProducts(p1, p2, p3, bits) = AddMag(Up(high, bits), p2)
  BY DEF JoinProducts, Up
<1>2. first \in Seq(Word)
  BY SubMagWords, EraseProperties
<1> HIDE DEF first
<1>3. mid \in Seq(Word)
  BY <1>2, SubMagWords, EraseProperties
<1> HIDE DEF mid
<1>4. PICK w : Weights(w, half)
  BY WeightsExist
<1>5. half <= half
  OBVIOUS
<1>6. Up(p1, bits) \in Seq(Word)
  BY <1>4, <1>5, UpExact
<1> DEFINE u == Up(p1, bits)
<1> HIDE DEF u
<1>7. AddMag(u, mid) \in Seq(Word)
  BY <1>3, <1>6, AddMagExact DEF u
<1>8. high \in Seq(Word)
  BY <1>7 DEF u
<1> HIDE DEF high
<1>9. Up(high, bits) \in Seq(Word)
  BY <1>4, <1>5, <1>8, UpExact
<1> DEFINE v == Up(high, bits)
<1> HIDE DEF v
<1>10. AddMag(v, p2) \in Seq(Word)
  BY <1>9, AddMagExact DEF v
<1>11. QED
  BY <1>1, <1>10 DEF v, bits

(* The number the three should make, split at weight W.                    *)
JoinedNumber(W, p1, p2, p3) == W * (W * p1 + (p3 - p1 - p2)) + p2

(* And the number they should be: the middle product loses the other two,  *)
(* no difference is negative.                                              *)
LEMMA JoinExact ==
  ASSUME NEW p1 \in Seq(Word), NEW p2 \in Seq(Word), NEW p3 \in Seq(Word), NEW half \in Nat,
         Trimmed(p1), Trimmed(p2), Trimmed(p3), ToNat(p1) + ToNat(p2) <= ToNat(p3),
         NEW n \in Nat, NEW w, Weights(w, n), half <= n
  PROVE  LET r == JoinProducts(p1, p2, p3, half * WordBits)
         IN  Trimmed(r) /\ ToNat(r) = JoinedNumber(w[half], ToNat(p1), ToNat(p2), ToNat(p3))
<1> DEFINE first == EraseZerosSuffix(SubMag(p3, p1))
           mid == EraseZerosSuffix(SubMag(first, p2))
           bits == half * WordBits
           u == Up(p1, bits)
           high == AddMag(u, mid)
           v == Up(high, bits)
<1>1. JoinProducts(p1, p2, p3, bits) = AddMag(v, p2)
  BY DEF JoinProducts, Up
<1>2. ToNat(p1) \in Nat /\ ToNat(p2) \in Nat /\ ToNat(p3) \in Nat
  BY WordsProperties, ToNatPositive
<1>3. first \in Seq(Word) /\ Trimmed(first) /\ ToNat(first) = ToNat(p3) - ToNat(p1)
  <2> DEFINE d == SubMag(p3, p1)
  <2>1. ToNat(p1) <= ToNat(p3)
    BY <1>2
  <2>2. Len(p1) <= Len(p3)
    BY <2>1, NotLonger
  <2>3. d \in Seq(Word) /\ ToNat(d) = ToNat(p3) - ToNat(p1)
    BY <2>1, <2>2, SubMagExact
  <2> HIDE DEF d
  <2>4. EraseZerosSuffix(d) \in Seq(Word) /\ Trimmed(EraseZerosSuffix(d))
        /\ ToNat(EraseZerosSuffix(d)) = ToNat(d)
    BY <2>3, EraseProperties
  <2>5. QED
    BY <2>3, <2>4 DEF d
<1> HIDE DEF first
<1>4. mid \in Seq(Word) /\ Trimmed(mid) /\ ToNat(mid) = ToNat(first) - ToNat(p2)
  <2> DEFINE d == SubMag(first, p2)
  <2>1. ToNat(p2) <= ToNat(first)
    BY <1>2, <1>3
  <2>2. Len(p2) <= Len(first)
    BY <1>3, <2>1, NotLonger
  <2>3. d \in Seq(Word) /\ ToNat(d) = ToNat(first) - ToNat(p2)
    BY <1>3, <2>1, <2>2, SubMagExact
  <2> HIDE DEF d
  <2>4. EraseZerosSuffix(d) \in Seq(Word) /\ Trimmed(EraseZerosSuffix(d))
        /\ ToNat(EraseZerosSuffix(d)) = ToNat(d)
    BY <2>3, EraseProperties
  <2>5. QED
    BY <2>3, <2>4 DEF d
<1> HIDE DEF mid
<1>5. u \in Seq(Word) /\ Trimmed(u) /\ ToNat(u) = w[half] * ToNat(p1)
  BY UpExact
<1> HIDE DEF u
<1>6. high \in Seq(Word) /\ Trimmed(high) /\ ToNat(high) = ToNat(u) + ToNat(mid)
  BY <1>4, <1>5, AddMagExact
<1> HIDE DEF high
<1>7. v \in Seq(Word) /\ Trimmed(v) /\ ToNat(v) = w[half] * ToNat(high)
  BY <1>6, UpExact
<1> HIDE DEF v
<1>8. Trimmed(AddMag(v, p2)) /\ ToNat(AddMag(v, p2)) = ToNat(v) + ToNat(p2)
  BY <1>7, AddMagExact
<1>9. ToNat(mid) = ToNat(p3) - ToNat(p1) - ToNat(p2)
  BY <1>3, <1>4
<1>10. QED
  BY <1>1, <1>5, <1>6, <1>7, <1>8, <1>9 DEF bits, JoinedNumber
-----------------------------------------------------------------------------
(* The multiplications below the threshold, on operands that are not       *)
(* empty.                                                                  *)
LEMMA SchoolProductExact ==
  ASSUME NEW a \in Seq(Word), NEW b \in Seq(Word), a # << >>, b # << >>
  PROVE  LET r == SchoolProduct(a, b)
         IN  /\ r \in Seq(Word) /\ ToNat(r) = ToNat(a) * ToNat(b)
             /\ Trimmed(a) /\ Trimmed(b) => Trimmed(r)
<1>1. /\ Len(a) \in Nat /\ Len(b) \in Nat /\ Len(a) >= 1 /\ Len(b) >= 1
      /\ a \in Seq(Int) /\ b \in Seq(Int) /\ 1 \in 1 .. Len(a) /\ 1 \in 1 .. Len(b)
  BY WordsProperties
<1>2. a[1] \in Word /\ b[1] \in Word
  BY <1>1
<1>3. ToNat(a) \in Nat /\ ToNat(b) \in Nat
  BY WordsProperties, ToNatPositive
<1>4. CASE Len(b) = 1
  <2> DEFINE r == GradSchoolMulInplace(a, b[1])
  <2>1. SchoolProduct(a, b) = r
    BY <1>4 DEF SchoolProduct
  <2>2. r \in Seq(Word) /\ ToNat(r) = ToNat(a) * b[1] /\ (b[1] # 0 /\ Trimmed(a) => Trimmed(r))
    BY <1>2, GradSchoolMulInplaceExact
  <2>3. ToNat(b) = b[1]
    BY <1>1, <1>4, ToNatSingle
  <2>4. Trimmed(b) => b[1] # 0
    BY <1>4 DEF Trimmed
  <2> HIDE DEF r
  <2>5. QED
    BY <2>1, <2>2, <2>3, <2>4
<1>5. CASE Len(b) # 1 /\ Len(a) = 1
  <2> DEFINE r == GradSchoolMulInplace(b, a[1])
  <2>1. SchoolProduct(a, b) = r
    BY <1>5 DEF SchoolProduct
  <2>2. r \in Seq(Word) /\ ToNat(r) = ToNat(b) * a[1] /\ (a[1] # 0 /\ Trimmed(b) => Trimmed(r))
    BY <1>2, GradSchoolMulInplaceExact
  <2>3. ToNat(a) = a[1]
    BY <1>1, <1>5, ToNatSingle
  <2>4. Trimmed(a) => a[1] # 0
    BY <1>5 DEF Trimmed
  <2> HIDE DEF r
  <2>5. ToNat(b) * ToNat(a) = ToNat(a) * ToNat(b)
    BY <1>3
  <2>6. QED
    BY <2>1, <2>2, <2>3, <2>4, <2>5
<1>6. CASE Len(b) # 1 /\ Len(a) # 1
  <2> DEFINE r == GradeSchoolMul(a, b)
  <2>1. SchoolProduct(a, b) = EraseZerosSuffix(r)
    BY <1>6 DEF SchoolProduct
  <2>2. r \in Seq(Word) /\ ToNat(r) = ToNat(a) * ToNat(b)
    BY GradeSchoolMulExact
  <2> HIDE DEF r
  <2>3. /\ EraseZerosSuffix(r) \in Seq(Word) /\ Trimmed(EraseZerosSuffix(r))
        /\ ToNat(EraseZerosSuffix(r)) = ToNat(r)
    BY <2>2, EraseProperties
  <2>4. QED
    BY <2>1, <2>2, <2>3
<1>7. QED
  BY <1>4, <1>5, <1>6

(* The words of the longer operand.                                        *)
Longest(a, b) == Max({Len(a), Len(b)})
Half(a, b) == (Longest(a, b) + 1) \div 2

(* One call of mul, the calls it makes itself answered by f.               *)
ProductOf(f, a, b, t) ==
  IF a = << >> \/ b = << >> THEN << >>
  ELSE IF Len(a) < t \/ Len(b) < t THEN SchoolProduct(a, b)
  ELSE JoinProducts(
         f[<<HighBlock(a, Half(a, b)), HighBlock(b, Half(a, b))>>],
         f[<<LowBlock(a, Half(a, b)), LowBlock(b, Half(a, b))>>],
         f[<<AddMag(HighBlock(a, Half(a, b)), LowBlock(a, Half(a, b))),
             AddMag(HighBlock(b, Half(a, b)), LowBlock(b, Half(a, b)))>>],
         Half(a, b) * WordBits)

Pair == Seq(Word) \X Seq(Word)

(* The three calls of mulKaratsuba, of operands c and d each.              *)
Called(a, b, c, d) ==
  Smaller(c, Longest(a, b)) /\ Smaller(d, Longest(a, b))

(* The operands of the calls are shorter than the longer operand.          *)
LEMMA CallsShorten ==
  ASSUME NEW a \in Seq(Word), NEW b \in Seq(Word), NEW t \in Nat, t >= 4, t <= Len(a)
  PROVE  LET h == Half(a, b)
         IN  /\ h \in Nat
             /\ Called(a, b, HighBlock(a, h), HighBlock(b, h))
             /\ Called(a, b, LowBlock(a, h), LowBlock(b, h))
             /\ Called(a, b, AddMag(HighBlock(a, h), LowBlock(a, h)),
                             AddMag(HighBlock(b, h), LowBlock(b, h)))
<1> DEFINE m == Longest(a, b)
           h == Half(a, b)
<1>1. Len(a) \in Nat /\ Len(b) \in Nat
  OBVIOUS
<1>2. m \in Nat /\ Len(a) <= m /\ Len(b) <= m
  BY <1>1, MaxOfTwo DEF Longest
<1>3. h = (m + 1) \div 2
  BY DEF Half
<1> HIDE DEF m, h
<1>4. m >= 4 /\ h \in Nat /\ h <= h
  BY <1>1, <1>2, <1>3
<1>5. PICK w : Weights(w, h)
  BY <1>4, WeightsExist
<1>6. /\ Smaller(HighBlock(a, h), m) /\ Smaller(LowBlock(a, h), m)
      /\ Smaller(AddMag(HighBlock(a, h), LowBlock(a, h)), m)
  BY <1>2, <1>3, <1>4, <1>5, BlocksExact
<1>7. /\ Smaller(HighBlock(b, h), m) /\ Smaller(LowBlock(b, h), m)
      /\ Smaller(AddMag(HighBlock(b, h), LowBlock(b, h)), m)
  BY <1>2, <1>3, <1>4, <1>5, BlocksExact
<1>8. QED
  BY <1>4, <1>6, <1>7 DEF Called, m, h

(* A call is of a pair, and of a shorter one.                              *)
LEMMA CallPair ==
  ASSUME NEW a, NEW b, NEW c, NEW d, Called(a, b, c, d), Longest(a, b) \in Nat
  PROVE  <<c, d>> \in Pair /\ Longest(c, d) \in Nat /\ Longest(c, d) < Longest(a, b)
<1>1. c \in Seq(Word) /\ d \in Seq(Word) /\ Len(c) < Longest(a, b) /\ Len(d) < Longest(a, b)
  BY DEF Called, Smaller
<1>2. Len(c) \in Nat /\ Len(d) \in Nat
  BY <1>1
<1>3. Longest(c, d) \in {Len(c), Len(d)}
  BY <1>2, MaxOfTwo DEF Longest
<1>4. QED
  BY <1>1, <1>2, <1>3 DEF Pair

(* A call depends on no longer pair, and its answer is a magnitude.        *)
LEMMA ProductLocal ==
  ASSUME NEW f, NEW g \in [Pair -> Seq(Word)],
         NEW a \in Seq(Word), NEW b \in Seq(Word), NEW t \in Nat, t >= 4,
         \A c, d \in Seq(Word) : Longest(c, d) < Longest(a, b) => f[<<c, d>>] = g[<<c, d>>]
  PROVE  ProductOf(f, a, b, t) \in Seq(Word) /\ ProductOf(f, a, b, t) = ProductOf(g, a, b, t)
<1>1. CASE a = << >> \/ b = << >>
  <2>1. ProductOf(f, a, b, t) = << >> /\ ProductOf(g, a, b, t) = << >>
    BY <1>1 DEF ProductOf
  <2>2. QED
    BY <2>1
<1>2. CASE ~(a = << >> \/ b = << >>) /\ (Len(a) < t \/ Len(b) < t)
  <2>1. ProductOf(f, a, b, t) = SchoolProduct(a, b) /\ ProductOf(g, a, b, t) = SchoolProduct(a, b)
    BY <1>2 DEF ProductOf
  <2>2. SchoolProduct(a, b) \in Seq(Word)
    BY <1>2, SchoolProductExact
  <2>3. QED
    BY <2>1, <2>2
<1>3. CASE ~(a = << >> \/ b = << >>) /\ ~(Len(a) < t \/ Len(b) < t)
  <2> DEFINE h == Half(a, b)
             p1 == <<HighBlock(a, h), HighBlock(b, h)>>
             p2 == <<LowBlock(a, h), LowBlock(b, h)>>
             p3 == <<AddMag(HighBlock(a, h), LowBlock(a, h)), AddMag(HighBlock(b, h), LowBlock(b, h))>>
  <2>1. Len(a) \in Nat /\ Len(b) \in Nat /\ t <= Len(a)
    BY <1>3
  <2>2. Longest(a, b) \in Nat
    BY <2>1, MaxOfTwo DEF Longest
  <2>3. /\ h \in Nat
        /\ Called(a, b, HighBlock(a, h), HighBlock(b, h))
        /\ Called(a, b, LowBlock(a, h), LowBlock(b, h))
        /\ Called(a, b, AddMag(HighBlock(a, h), LowBlock(a, h)),
                        AddMag(HighBlock(b, h), LowBlock(b, h)))
    BY <2>1, CallsShorten
  <2>4. ASSUME NEW c, NEW d, Called(a, b, c, d)
        PROVE  f[<<c, d>>] \in Seq(Word) /\ f[<<c, d>>] = g[<<c, d>>]
    <3>1. <<c, d>> \in Pair /\ Longest(c, d) < Longest(a, b)
      BY <2>2, <2>4, CallPair
    <3>2. c \in Seq(Word) /\ d \in Seq(Word)
      BY <3>1 DEF Pair
    <3>3. f[<<c, d>>] = g[<<c, d>>]
      BY <3>1, <3>2
    <3>4. QED
      BY <3>1, <3>3
  <2>5. /\ f[p1] \in Seq(Word) /\ f[p1] = g[p1] /\ f[p2] \in Seq(Word) /\ f[p2] = g[p2]
        /\ f[p3] \in Seq(Word) /\ f[p3] = g[p3]
    BY <2>3, <2>4
  <2>6. /\ ProductOf(f, a, b, t) = JoinProducts(f[p1], f[p2], f[p3], h * WordBits)
        /\ ProductOf(g, a, b, t) = JoinProducts(g[p1], g[p2], g[p3], h * WordBits)
    BY <1>3 DEF ProductOf
  <2> HIDE DEF p1, p2, p3, h
  <2>7. JoinProducts(f[p1], f[p2], f[p3], h * WordBits) \in Seq(Word)
    BY <2>3, <2>5, JoinWords
  <2>8. QED
    BY <2>5, <2>6, <2>7
<1>4. QED
  BY <1>1, <1>2, <1>3

(* f answers every call of mul as one call does.                           *)
Multiplies(f, t) ==
  f \in [Pair -> Seq(Word)] /\ \A c, d \in Seq(Word) : f[<<c, d>>] = ProductOf(f, c, d, t)

(* The recursion of mul ends: from four words on every call is of a        *)
(* shorter pair.  Depth n answers all pairs of fewer than n words, and     *)
(* any depth beyond the same.                                              *)
LEMMA ProductExists ==
  ASSUME NEW t \in Nat, t >= 4
  PROVE  \E f : Multiplies(f, t)
<1> DEFINE S == [Pair -> Seq(Word)]
           base == [p \in Pair |-> << >>]
           next(f) == [p \in Pair |-> ProductOf(f, p[1], p[2], t)]
           g == [f \in S |-> next(f)]
<1>1. ASSUME NEW f \in S PROVE next(f) \in S
  <2>1. ASSUME NEW p \in Pair PROVE ProductOf(f, p[1], p[2], t) \in Seq(Word)
    <3>1. p[1] \in Seq(Word) /\ p[2] \in Seq(Word)
      BY DEF Pair
    <3>2. \A c, d \in Seq(Word) : Longest(c, d) < Longest(p[1], p[2]) => f[<<c, d>>] = f[<<c, d>>]
      OBVIOUS
    <3>3. QED
      BY <3>1, <3>2, ProductLocal
  <2>2. QED
    BY <2>1
<1>2. base \in S
  OBVIOUS
<1>3. g \in [S -> S]
  <2> HIDE DEF next, S
  <2>1. QED
    BY <1>1
<1>4. \A f \in S : g[f] = next(f)
  OBVIOUS
<1> HIDE DEF base, g
<1>5. PICK F \in [Nat -> S] : F[0] = base /\ \A i \in Nat : F[i + 1] = g[F[i]]
  <2> HIDE DEF S
  <2>1. QED
    BY <1>2, <1>3, Iterate
<1>6. ASSUME NEW i \in Nat
      PROVE  F[i] \in S /\ \A c, d \in Seq(Word) : F[i + 1][<<c, d>>] = ProductOf(F[i], c, d, t)
  <2>1. F[i] \in S
    BY Zenon
  <2>2. F[i + 1] = next(F[i])
    <3> HIDE DEF next, S
    <3>1. QED
      BY <1>4, <1>5, <2>1
  <2>3. ASSUME NEW c \in Seq(Word), NEW d \in Seq(Word)
        PROVE  F[i + 1][<<c, d>>] = ProductOf(F[i], c, d, t)
    <3>1. <<c, d>> \in Pair /\ <<c, d>>[1] = c /\ <<c, d>>[2] = d
      BY DEF Pair
    <3>2. QED
      BY <2>2, <3>1
  <2>4. QED
    BY <2>1, <2>3
<1> DEFINE Stable(n) == \A c, d \in Seq(Word) : Longest(c, d) < n => F[n + 1][<<c, d>>] = F[n][<<c, d>>]
<1>7. ASSUME NEW c \in Seq(Word), NEW d \in Seq(Word) PROVE Longest(c, d) \in Nat
  <2>1. Len(c) \in Nat /\ Len(d) \in Nat
    OBVIOUS
  <2>2. QED
    BY <2>1, MaxOfTwo DEF Longest
<1> HIDE DEF S
<1>8. ASSUME NEW n \in Nat PROVE \A i \in 0 .. n : Stable(i)
  <2> DEFINE T == {i \in 0 .. n : Stable(i)}
  <2>1. 0 \in T
    <3>1. \A c, d \in Seq(Word) : ~(Longest(c, d) < 0)
      BY <1>7
    <3>2. Stable(0)
      BY <3>1
    <3> HIDE DEF Stable
    <3>3. QED
      BY <3>2
  <2>2. ASSUME NEW i \in 0 .. n - 1, i \in T PROVE i + 1 \in T
    <3>1. Stable(i) /\ i \in Nat /\ i + 1 \in Nat
      BY <2>2
    <3>2. ASSUME NEW c \in Seq(Word), NEW d \in Seq(Word), Longest(c, d) < i + 1
          PROVE  F[(i + 1) + 1][<<c, d>>] = F[i + 1][<<c, d>>]
      <4>1. F[(i + 1) + 1][<<c, d>>] = ProductOf(F[i + 1], c, d, t)
        BY <1>6, <3>1
      <4>2. F[i + 1][<<c, d>>] = ProductOf(F[i], c, d, t)
        BY <1>6, <3>1
      <4>3. F[i + 1] \in [Pair -> Seq(Word)] /\ F[i] \in [Pair -> Seq(Word)]
        BY <1>6, <3>1 DEF S
      <4>4. ASSUME NEW x \in Seq(Word), NEW y \in Seq(Word), Longest(x, y) < Longest(c, d)
            PROVE  F[i + 1][<<x, y>>] = F[i][<<x, y>>]
        <5>1. Longest(x, y) < i
          <6> DEFINE lx == Longest(x, y)
                     lc == Longest(c, d)
          <6>1. lx \in Nat /\ lc \in Nat /\ lc < i + 1 /\ lx < lc
            BY <1>7, <3>2, <4>4
          <6> HIDE DEF lx, lc
          <6>2. lx < i
            BY <3>1, <6>1
          <6>3. QED
            BY <6>2 DEF lx
        <5>2. QED
          BY <3>1, <5>1
      <4>5. ProductOf(F[i + 1], c, d, t) = ProductOf(F[i], c, d, t)
        <5> DEFINE f1 == F[i + 1]
                   f0 == F[i]
        <5>1. f1 \in [Pair -> Seq(Word)] /\ f0 \in [Pair -> Seq(Word)]
          BY <4>3
        <5>2. \A x, y \in Seq(Word) : Longest(x, y) < Longest(c, d) => f1[<<x, y>>] = f0[<<x, y>>]
          BY <4>4
        <5> HIDE DEF f1, f0
        <5>3. ProductOf(f1, c, d, t) = ProductOf(f0, c, d, t)
          BY <5>1, <5>2, ProductLocal
        <5>4. QED
          BY <5>3 DEF f1, f0
      <4>6. QED
        BY <4>1, <4>2, <4>5
    <3>3. Stable(i + 1)
      BY <3>2
    <3>4. i + 1 \in 0 .. n
      OBVIOUS
    <3> HIDE DEF Stable
    <3>5. QED
      BY <3>3, <3>4
  <2> HIDE DEF T
  <2>3. \A i \in 0 .. n : i \in T
    BY <2>1, <2>2, UpTo
  <2>4. QED
    BY <2>3 DEF T
<1>9. ASSUME NEW n \in Nat, NEW c \in Seq(Word), NEW d \in Seq(Word), Longest(c, d) < n
      PROVE  F[n][<<c, d>>] = F[Longest(c, d) + 1][<<c, d>>]
  <2> DEFINE k == Longest(c, d) + 1
             T == {i \in 0 .. n - k : F[k + i][<<c, d>>] = F[k][<<c, d>>]}
  <2>1. k \in Nat /\ k <= n /\ Longest(c, d) < k
    BY <1>7, <1>9
  <2>2. n - k \in Nat /\ k + 0 = k /\ k + (n - k) = n /\ n - k \in 0 .. n - k
    BY <2>1
  <2> HIDE DEF k
  <2>3. 0 \in T
    BY <2>2
  <2>4. ASSUME NEW i \in 0 .. (n - k) - 1, i \in T PROVE i + 1 \in T
    <3>1. k + i \in Nat /\ (k + i) + 1 = k + (i + 1) /\ Longest(c, d) < k + i /\ i + 1 \in 0 .. n - k
      BY <1>7, <2>1, <2>2
    <3>2. Stable(k + i)
      <4> HIDE DEF Stable
      <4>1. k + i \in 0 .. k + i
        BY <3>1
      <4>2. QED
        BY <1>8, <3>1, <4>1
    <3>3. F[(k + i) + 1][<<c, d>>] = F[k + i][<<c, d>>]
      BY <3>1, <3>2
    <3>4. F[k + i][<<c, d>>] = F[k][<<c, d>>]
      BY <2>4
    <3>5. QED
      BY <3>1, <3>3, <3>4
  <2> HIDE DEF T
  <2>5. \A i \in 0 .. n - k : i \in T
    BY <2>2, <2>3, <2>4, UpTo
  <2>6. F[k + (n - k)][<<c, d>>] = F[k][<<c, d>>]
    BY <2>2, <2>5 DEF T
  <2>7. QED
    BY <2>2, <2>6 DEF k
<1> DEFINE P == [p \in Pair |-> F[Longest(p[1], p[2]) + 1][p]]
<1>10. ASSUME NEW c \in Seq(Word), NEW d \in Seq(Word)
       PROVE  /\ <<c, d>> \in Pair
              /\ P[<<c, d>>] = F[Longest(c, d) + 1][<<c, d>>]
  BY DEF Pair
<1>11. P \in [Pair -> Seq(Word)]
  <2>1. ASSUME NEW p \in Pair PROVE F[Longest(p[1], p[2]) + 1][p] \in Seq(Word)
    <3>1. p[1] \in Seq(Word) /\ p[2] \in Seq(Word)
      BY DEF Pair
    <3>2. Longest(p[1], p[2]) + 1 \in Nat
      BY <1>7, <3>1
    <3>3. F[Longest(p[1], p[2]) + 1] \in [Pair -> Seq(Word)]
      BY <1>6, <3>2 DEF S
    <3>4. QED
      BY <3>3
  <2>2. QED
    BY <2>1
<1> HIDE DEF P
<1>12. ASSUME NEW c \in Seq(Word), NEW d \in Seq(Word)
       PROVE  P[<<c, d>>] = ProductOf(P, c, d, t)
  <2> DEFINE m == Longest(c, d)
             f == F[m]
  <2>1. m \in Nat /\ f \in [Pair -> Seq(Word)]
    BY <1>6, <1>7 DEF S
  <2>2. P[<<c, d>>] = ProductOf(f, c, d, t)
    BY <1>6, <1>10, <2>1
  <2>3. ASSUME NEW x \in Seq(Word), NEW y \in Seq(Word), Longest(x, y) < Longest(c, d)
        PROVE  f[<<x, y>>] = P[<<x, y>>]
    BY <1>9, <1>10, <2>1, <2>3
  <2>4. \A x, y \in Seq(Word) : Longest(x, y) < Longest(c, d) => f[<<x, y>>] = P[<<x, y>>]
    BY <2>3
  <2> HIDE DEF f
  <2>5. ProductOf(f, c, d, t) = ProductOf(P, c, d, t)
    BY <1>11, <2>4, ProductLocal
  <2>6. QED
    BY <2>2, <2>5
<1>13. Multiplies(P, t)
  BY <1>11, <1>12 DEF Multiplies
<1>14. QED
  BY <1>13

(* Product is such a function's value.                                     *)
LEMMA ProductUnfolds ==
  ASSUME NEW t \in Nat, t >= 4
  PROVE  \E f : Multiplies(f, t) /\ \A x, y \in Seq(Word) : Product(x, y, t) = f[<<x, y>>]
<1> DEFINE body(f) == [p \in Seq(Word) \X Seq(Word) |->
             LET a    == p[1]
                 b    == p[2]
                 half == (Max({Len(a), Len(b)}) + 1) \div 2
             IN  IF a = << >> \/ b = << >> THEN << >>
                 ELSE IF Len(a) < t \/ Len(b) < t THEN SchoolProduct(a, b)
                 ELSE JoinProducts(
                        f[<<HighBlock(a, half), HighBlock(b, half)>>],
                        f[<<LowBlock(a, half), LowBlock(b, half)>>],
                        f[<<AddMag(HighBlock(a, half), LowBlock(a, half)),
                             AddMag(HighBlock(b, half), LowBlock(b, half))>>],
                        half * WordBits)]
           P == CHOOSE f : f = body(f)
<1>1. \A x, y : Product(x, y, t) = P[<<x, y>>]
  BY DEF Product
<1>2. ASSUME NEW f PROVE body(f) = [p \in Pair |-> ProductOf(f, p[1], p[2], t)]
  BY DEF Pair, ProductOf, Half, Longest
<1> HIDE DEF body
<1>3. PICK g : Multiplies(g, t)
  BY ProductExists
<1>4. g = body(g)
  <2>1. g \in [Pair -> Seq(Word)]
    BY <1>3 DEF Multiplies
  <2>2. g = [p \in Pair |-> g[p]]
    BY <2>1
  <2>3. \A p \in Pair : g[p] = ProductOf(g, p[1], p[2], t)
    <3>1. ASSUME NEW p \in Pair PROVE g[p] = ProductOf(g, p[1], p[2], t)
      <4>1. p[1] \in Seq(Word) /\ p[2] \in Seq(Word) /\ p = <<p[1], p[2]>>
        BY DEF Pair
      <4>2. g[<<p[1], p[2]>>] = ProductOf(g, p[1], p[2], t)
        BY <1>3, <4>1 DEF Multiplies
      <4>3. QED
        BY <4>1, <4>2
    <3>2. QED
      BY <3>1
  <2>4. g = [p \in Pair |-> ProductOf(g, p[1], p[2], t)]
    BY <2>2, <2>3
  <2>5. QED
    BY <1>2, <2>4
<1>5. P = body(P)
  BY <1>4
<1> HIDE DEF P
<1>6. P = [p \in Pair |-> ProductOf(P, p[1], p[2], t)]
  BY <1>2, <1>5
<1>7. ASSUME NEW c \in Seq(Word), NEW d \in Seq(Word)
      PROVE  P[<<c, d>>] = ProductOf(P, c, d, t)
  <2>1. <<c, d>> \in Pair /\ <<c, d>>[1] = c /\ <<c, d>>[2] = d
    BY DEF Pair
  <2>2. QED
    BY <1>6, <2>1
<1>8. ASSUME NEW c \in Seq(Word), NEW d \in Seq(Word) PROVE Longest(c, d) \in Nat
  <2>1. Len(c) \in Nat /\ Len(d) \in Nat
    OBVIOUS
  <2>2. QED
    BY <2>1, MaxOfTwo DEF Longest
<1> DEFINE Same(n) == \A c, d \in Seq(Word) : Longest(c, d) < n => P[<<c, d>>] = g[<<c, d>>]
<1>9. ASSUME NEW n \in Nat PROVE Same(n)
  <2> DEFINE T == {i \in 0 .. n : Same(i)}
  <2>1. 0 \in T
    <3>1. \A c, d \in Seq(Word) : ~(Longest(c, d) < 0)
      BY <1>8
    <3>2. Same(0)
      BY <3>1
    <3> HIDE DEF Same
    <3>3. QED
      BY <3>2
  <2>2. ASSUME NEW i \in 0 .. n - 1, i \in T PROVE i + 1 \in T
    <3>1. Same(i)
      BY <2>2
    <3>2. ASSUME NEW c \in Seq(Word), NEW d \in Seq(Word), Longest(c, d) < i + 1
          PROVE  P[<<c, d>>] = g[<<c, d>>]
      <4>1. ASSUME NEW x \in Seq(Word), NEW y \in Seq(Word), Longest(x, y) < Longest(c, d)
            PROVE  P[<<x, y>>] = g[<<x, y>>]
        <5> DEFINE lx == Longest(x, y)
                   lc == Longest(c, d)
        <5>1. lx \in Nat /\ lc \in Nat /\ lc < i + 1 /\ lx < lc
          BY <1>8, <3>2, <4>1
        <5> HIDE DEF lx, lc
        <5>2. lx < i
          BY <5>1
        <5>3. QED
          BY <3>1, <5>2 DEF lx
      <4>2. g \in [Pair -> Seq(Word)] /\ g[<<c, d>>] = ProductOf(g, c, d, t)
        BY <1>3 DEF Multiplies
      <4>3. \A x, y \in Seq(Word) : Longest(x, y) < Longest(c, d) => P[<<x, y>>] = g[<<x, y>>]
        BY <4>1
      <4>4. ProductOf(P, c, d, t) = ProductOf(g, c, d, t)
        BY <4>2, <4>3, ProductLocal
      <4>5. QED
        BY <1>7, <4>2, <4>4
    <3>3. Same(i + 1)
      BY <3>2
    <3>4. i + 1 \in 0 .. n
      OBVIOUS
    <3> HIDE DEF Same
    <3>5. QED
      BY <3>3, <3>4
  <2> HIDE DEF T
  <2>3. \A i \in 0 .. n : i \in T
    BY <2>1, <2>2, UpTo
  <2>4. n \in T
    BY <2>3
  <2>5. QED
    BY <2>4 DEF T
<1>10. ASSUME NEW x \in Seq(Word), NEW y \in Seq(Word) PROVE Product(x, y, t) = g[<<x, y>>]
  <2> DEFINE m == Longest(x, y)
  <2>1. m \in Nat /\ m + 1 \in Nat /\ m < m + 1
    BY <1>8
  <2>2. Same(m + 1)
    <3> HIDE DEF Same, m
    <3>1. QED
      BY <1>9, <2>1
  <2>3. P[<<x, y>>] = g[<<x, y>>]
    BY <2>1, <2>2
  <2>4. QED
    BY <1>1, <2>3
<1>11. QED
  BY <1>3, <1>10

(* What Karatsuba's three products rest on.                                *)
Middle(H, L, K, M, W) ==
  /\ H * K + L * M <= (H + L) * (K + M)
  /\ JoinedNumber(W, H * K, L * M, (H + L) * (K + M)) = (L + W * H) * (M + W * K)

(* (H W + L) (K W + M) = H K W W + (H M + L K) W + L M, and the middle     *)
(* product is what (H + L) (K + M) has more than the other two.            *)
LEMMA Karatsuba ==
  ASSUME NEW H \in Nat, NEW L \in Nat, NEW K \in Nat, NEW M \in Nat, NEW W \in Nat
  PROVE  Middle(H, L, K, M, W)
<1> DEFINE h == H * K
           l == L * M
           x == H * M
           y == L * K
<1>1. h \in Nat /\ l \in Nat /\ x \in Nat /\ y \in Nat
  OBVIOUS
<1>2. (H + L) * (K + M) = h + x + y + l
  OBVIOUS
<1>3. (L + W * H) * (M + W * K) = l + W * y + W * x + W * (W * h)
  <2> DEFINE a == W * H
             b == W * K
  <2>1. (L + a) * (M + b) = L * M + L * b + a * M + a * b
    OBVIOUS
  <2>2. L * b = W * y
    OBVIOUS
  <2>3. a * M = W * x
    OBVIOUS
  <2>4. a * b = W * (W * h)
    OBVIOUS
  <2> HIDE DEF x, y, h
  <2>5. L * M + L * b + a * M + a * b = l + W * y + W * x + W * (W * h)
    BY <2>2, <2>3, <2>4
  <2>6. QED
    BY <2>1, <2>5
<1>4. (H + L) * (K + M) - H * K - L * M = x + y
  <2> HIDE DEF x, y
  <2>1. (h + x + y + l) - h - l = x + y
    <3> HIDE DEF h, l
    <3>1. QED
      BY <1>1
  <2>2. QED
    BY <1>2, <2>1
<1> HIDE DEF x, y
<1>5. H * K + L * M <= (H + L) * (K + M)
  <2>1. h + l <= h + x + y + l
    <3> HIDE DEF h, l
    <3>1. QED
      BY <1>1
  <2>2. QED
    BY <1>2, <2>1
<1> HIDE DEF h, l
<1>6. W * (W * h + (x + y)) + l = l + W * y + W * x + W * (W * h)
  <2> DEFINE g == W * h
  <2>1. g \in Nat
    BY <1>1
  <2> HIDE DEF g
  <2>2. W * (g + (x + y)) = W * g + W * x + W * y
    BY <1>1, <2>1
  <2> DEFINE p == W * g
             q == W * x
             r == W * y
  <2>3. p \in Nat /\ q \in Nat /\ r \in Nat /\ W * (g + (x + y)) = p + q + r
    BY <1>1, <2>1, <2>2
  <2> HIDE DEF p, q, r
  <2>4. W * (g + (x + y)) + l = l + r + q + p
    BY <1>1, <2>3
  <2>5. QED
    BY <2>4 DEF p, q, r, g
<1>7. QED
  <2>1. JoinedNumber(W, H * K, L * M, (H + L) * (K + M))
          = W * (W * (H * K) + ((H + L) * (K + M) - H * K - L * M)) + L * M
    BY DEF JoinedNumber
  <2>2. W * (W * (H * K) + ((H + L) * (K + M) - H * K - L * M)) + L * M
          = W * (W * h + (x + y)) + l
    BY <1>4 DEF h, l
  <2>3. QED
    BY <1>3, <1>5, <1>6, <2>1, <2>2 DEF Middle

(* A product: the number, and no leading zero word.                        *)
IsProduct(r, a, b) == r \in Seq(Word) /\ Trimmed(r) /\ ToNat(r) = ToNat(a) * ToNat(b)

(* One call of mul is exact if the calls it makes are.                     *)
LEMMA ProductRound ==
  ASSUME NEW f, NEW a \in Seq(Word), NEW b \in Seq(Word), Trimmed(a), Trimmed(b),
         NEW t \in Nat, t >= 4,
         \A c, d : Called(a, b, c, d) => IsProduct(f[<<c, d>>], c, d)
  PROVE  IsProduct(ProductOf(f, a, b, t), a, b)
<1>1. /\ ToNat(a) \in Nat /\ ToNat(b) \in Nat /\ Len(a) \in Nat /\ Len(b) \in Nat
  BY WordsProperties, ToNatPositive
<1>2. CASE a = << >> \/ b = << >>
  <2>1. ProductOf(f, a, b, t) = << >>
    BY <1>2 DEF ProductOf
  <2>2. ToNat(a) * ToNat(b) = 0
    <3>1. ToNat(a) = 0 \/ ToNat(b) = 0
      BY <1>2, ToNatEmpty
    <3>2. QED
      BY <1>1, <3>1
  <2>3. << >> \in Seq(Word) /\ Trimmed(<< >>) /\ ToNat(<< >>) = 0
    BY ToNatEmpty DEF Trimmed
  <2>4. QED
    BY <2>1, <2>2, <2>3 DEF IsProduct
<1>3. CASE ~(a = << >> \/ b = << >>) /\ (Len(a) < t \/ Len(b) < t)
  <2>1. ProductOf(f, a, b, t) = SchoolProduct(a, b)
    BY <1>3 DEF ProductOf
  <2>2. IsProduct(SchoolProduct(a, b), a, b)
    BY <1>3, SchoolProductExact DEF IsProduct
  <2>3. QED
    BY <2>1, <2>2
<1>4. CASE ~(a = << >> \/ b = << >>) /\ ~(Len(a) < t \/ Len(b) < t)
  <2> DEFINE h == Half(a, b)
             m == Longest(a, b)
             ah == HighBlock(a, h)
             al == LowBlock(a, h)
             as == AddMag(ah, al)
             bh == HighBlock(b, h)
             bl == LowBlock(b, h)
             bs == AddMag(bh, bl)
             p1 == f[<<ah, bh>>]
             p2 == f[<<al, bl>>]
             p3 == f[<<as, bs>>]
             r == JoinProducts(p1, p2, p3, h * WordBits)
  <2>1. ProductOf(f, a, b, t) = r
    BY <1>4 DEF ProductOf
  <2>2. t <= Len(a)
    BY <1>1, <1>4
  <2>3. h \in Nat /\ Called(a, b, ah, bh) /\ Called(a, b, al, bl) /\ Called(a, b, as, bs)
    BY <2>2, CallsShorten
  <2>4. m \in Nat /\ Len(a) <= m /\ Len(b) <= m
    BY <1>1, MaxOfTwo DEF Longest
  <2>5. h = (m + 1) \div 2
    BY DEF Half
  <2>6. m >= 4 /\ h <= h
    <3> HIDE DEF m, h
    <3>1. QED
      BY <1>1, <2>2, <2>3, <2>4
  <2>7. IsProduct(p1, ah, bh) /\ IsProduct(p2, al, bl) /\ IsProduct(p3, as, bs)
    BY <2>3
  <2> HIDE DEF h, m
  <2>8. PICK w : Weights(w, h)
    BY <2>3, WeightsExist
  <2>9. ToNat(a) = ToNat(al) + w[h] * ToNat(ah)
    BY <2>3, <2>4, <2>5, <2>6, <2>8, BlocksExact
  <2>10. ToNat(b) = ToNat(bl) + w[h] * ToNat(bh)
    BY <2>3, <2>4, <2>5, <2>6, <2>8, BlocksExact
  <2>11. /\ ah \in Seq(Word) /\ al \in Seq(Word) /\ bh \in Seq(Word) /\ bl \in Seq(Word)
    BY <2>3 DEF Called, Smaller
  <2> HIDE DEF ah, al, bh, bl
  <2>12. ToNat(as) = ToNat(ah) + ToNat(al) /\ ToNat(bs) = ToNat(bh) + ToNat(bl)
    BY <2>11, AddMagExact
  <2> DEFINE H == ToNat(ah)
             L == ToNat(al)
             K == ToNat(bh)
             M == ToNat(bl)
             W == w[h]
  <2>13. H \in Nat /\ L \in Nat /\ K \in Nat /\ M \in Nat
    BY <2>11, WordsProperties, ToNatPositive
  <2>14. W \in Nat
    <3>1. h \in 0 .. h
      BY <2>3
    <3>2. QED
      BY <2>3, <2>8, <3>1, WeightsPositive
  <2>15. ToNat(as) = H + L /\ ToNat(bs) = K + M /\ ToNat(a) = L + W * H /\ ToNat(b) = M + W * K
    BY <2>9, <2>10, <2>12
  <2> HIDE DEF as, bs, p1, p2, p3
  <2>16. /\ p1 \in Seq(Word) /\ p2 \in Seq(Word) /\ p3 \in Seq(Word)
         /\ Trimmed(p1) /\ Trimmed(p2) /\ Trimmed(p3)
         /\ ToNat(p1) = H * K /\ ToNat(p2) = L * M /\ ToNat(p3) = ToNat(as) * ToNat(bs)
    BY <2>7 DEF IsProduct
  <2> HIDE DEF H, L, K, M, W
  <2>17. ToNat(p3) = (H + L) * (K + M)
    BY <2>15, <2>16
  <2>18. /\ H * K + L * M <= (H + L) * (K + M)
         /\ JoinedNumber(W, H * K, L * M, (H + L) * (K + M)) = (L + W * H) * (M + W * K)
    <3>1. Middle(H, L, K, M, W)
      BY <2>13, <2>14, Karatsuba
    <3>2. QED
      BY <3>1 DEF Middle
  <2>19. ToNat(p1) + ToNat(p2) <= ToNat(p3)
    BY <2>16, <2>17, <2>18
  <2>20. r \in Seq(Word)
    BY <2>3, <2>16, JoinWords
  <2>21. /\ Trimmed(r)
         /\ ToNat(r) = JoinedNumber(w[h], ToNat(p1), ToNat(p2), ToNat(p3))
    <3>1. /\ p1 \in Seq(Word) /\ p2 \in Seq(Word) /\ p3 \in Seq(Word) /\ h \in Nat
          /\ Trimmed(p1) /\ Trimmed(p2) /\ Trimmed(p3) /\ h <= h
      BY <2>3, <2>6, <2>16
    <3>2. QED
      BY ONLY <2>8, <2>19, <3>1, JoinExact
  <2> HIDE DEF r
  <2>22. ToNat(r) = ToNat(a) * ToNat(b)
    BY <2>15, <2>16, <2>17, <2>18, <2>21 DEF W
  <2>23. QED
    BY <2>1, <2>20, <2>21, <2>22 DEF IsProduct
<1>5. QED
  BY <1>2, <1>3, <1>4

(* mul, with mulKaratsuba from any threshold of at least four words on.    *)
LEMMA ProductExact ==
  ASSUME NEW x \in Seq(Word), NEW y \in Seq(Word), Trimmed(x), Trimmed(y),
         NEW t \in Nat, t >= 4
  PROVE  IsProduct(Product(x, y, t), x, y)
<1>1. PICK f : Multiplies(f, t) /\ \A c, d \in Seq(Word) : Product(c, d, t) = f[<<c, d>>]
  BY ProductUnfolds
<1>2. ASSUME NEW c \in Seq(Word), NEW d \in Seq(Word) PROVE f[<<c, d>>] = ProductOf(f, c, d, t)
  BY <1>1 DEF Multiplies
<1>3. ASSUME NEW c \in Seq(Word), NEW d \in Seq(Word) PROVE Longest(c, d) \in Nat
  <2>1. Len(c) \in Nat /\ Len(d) \in Nat
    OBVIOUS
  <2>2. QED
    BY <2>1, MaxOfTwo DEF Longest
<1> DEFINE Exact(n) == \A c, d \in Seq(Word) :
             Trimmed(c) /\ Trimmed(d) /\ Longest(c, d) < n => IsProduct(f[<<c, d>>], c, d)
           n == Longest(x, y) + 1
           T == {i \in 0 .. n : Exact(i)}
<1>4. n \in Nat /\ Longest(x, y) < n
  BY <1>3
<1>5. 0 \in T
  <2>1. ASSUME NEW c \in Seq(Word), NEW d \in Seq(Word) PROVE ~(Longest(c, d) < 0)
    <3>1. Longest(c, d) \in Nat
      BY <1>3
    <3>2. QED
      BY <3>1
  <2>2. Exact(0)
    BY <2>1
  <2> HIDE DEF Exact, n
  <2>3. QED
    BY <1>4, <2>2
<1> HIDE DEF n
<1>6. ASSUME NEW i \in 0 .. n - 1, i \in T PROVE i + 1 \in T
  <2>1. Exact(i)
    BY <1>6
  <2>2. ASSUME NEW c \in Seq(Word), NEW d \in Seq(Word),
               Trimmed(c), Trimmed(d), Longest(c, d) < i + 1
        PROVE  IsProduct(f[<<c, d>>], c, d)
    <3>1. ASSUME NEW p, NEW q, Called(c, d, p, q) PROVE IsProduct(f[<<p, q>>], p, q)
      <4>1. Longest(c, d) \in Nat
        BY <1>3
      <4>2. <<p, q>> \in Pair /\ Longest(p, q) \in Nat /\ Longest(p, q) < Longest(c, d)
        BY <3>1, <4>1, CallPair
      <4>3. p \in Seq(Word) /\ q \in Seq(Word)
        BY <4>2 DEF Pair
      <4>4. Trimmed(p) /\ Trimmed(q)
        BY <3>1 DEF Called, Smaller
      <4> DEFINE lp == Longest(p, q)
                 lc == Longest(c, d)
      <4>5. lp \in Nat /\ lc \in Nat /\ lp < lc /\ lc < i + 1
        BY <2>2, <4>1, <4>2
      <4> HIDE DEF lp, lc
      <4>6. lp < i
        BY <1>4, <4>5
      <4>7. QED
        BY <2>1, <4>3, <4>4, <4>6 DEF lp
    <3>2. IsProduct(ProductOf(f, c, d, t), c, d)
      BY <2>2, <3>1, ProductRound
    <3>3. QED
      BY <1>2, <3>2
  <2>3. Exact(i + 1)
    BY <2>2
  <2>4. i + 1 \in 0 .. n
    BY <1>4
  <2> HIDE DEF Exact
  <2>5. QED
    BY <2>3, <2>4
<1> HIDE DEF T
<1>7. \A i \in 0 .. n : i \in T
  BY <1>4, <1>5, <1>6, UpTo
<1>8. n \in T
  BY <1>4, <1>7
<1>9. Exact(n)
  BY <1>8 DEF T
<1>10. QED
  BY <1>1, <1>4, <1>9

-----------------------------------------------------------------------------
(* The complement of a magnitude keeps its first non-zero word where it is.*)
FirstAt(a, f) ==
  /\ f \in 0 .. Len(a) - 1 /\ a[f + 1] # 0
  /\ \A i \in 1 .. f : a[i] = 0

(* getFirstNonZeroU32Index finds the first word that is not zero.          *)
LEMMA FirstNonZeroProperties ==
  ASSUME NEW a \in Seq(Word), a # << >>, Trimmed(a)
  PROVE  FirstAt(a, FirstNonZero(a))
<1> DEFINE n == Len(a)
           T == {i - 1 : i \in {k \in DOMAIN a : a[k] # 0}}
           S == {n} \cup T
<1>1. n \in Nat /\ n >= 1 /\ DOMAIN a = 1 .. n /\ a[n] # 0
  BY DEF Trimmed
<1>2. S \subseteq 0 .. n /\ S # {} /\ n - 1 \in T
  BY <1>1
<1>3. Min(S) \in S /\ \A y \in S : Min(S) <= y
  <2> HIDE DEF S
  <2>1. QED
    BY <1>1, <1>2, MinProperties
<1>4. Min(S) <= n - 1
  BY <1>2, <1>3
<1>5. Min(S) \in T
  BY <1>1, <1>3, <1>4
<1>6. PICK k \in 1 .. n : a[k] # 0 /\ Min(S) = k - 1
  BY <1>1, <1>5
<1>7. ASSUME NEW i \in 1 .. k - 1 PROVE a[i] = 0
  <2>1. i \in 1 .. n /\ i - 1 < k - 1
    BY <1>1, <1>6
  <2>2. a[i] # 0 => i - 1 \in S
    BY <1>1, <2>1
  <2>3. i - 1 \in S => k - 1 <= i - 1
    BY <1>3, <1>6
  <2>4. k \in Int /\ i \in Int
    BY <1>1
  <2> HIDE DEF S
  <2>5. QED
    BY <2>1, <2>2, <2>3, <2>4
<1>8. k - 1 \in 0 .. n - 1 /\ (k - 1) + 1 = k
  BY <1>1, <1>6
<1>9. FirstNonZero(a) = k - 1
  BY <1>6 DEF FirstNonZero
<1>10. QED
  BY <1>6, <1>7, <1>8, <1>9 DEF FirstAt

(* There is only one first word that is not zero.                          *)
LEMMA FirstNonZeroIs ==
  ASSUME NEW a \in Seq(Word), NEW f, FirstAt(a, f)
  PROVE  FirstNonZero(a) = f
<1> DEFINE n == Len(a)
           T == {i - 1 : i \in {k \in DOMAIN a : a[k] # 0}}
           S == {n} \cup T
<1>1. n \in Nat /\ DOMAIN a = 1 .. n /\ f \in 0 .. n - 1 /\ f + 1 \in 1 .. n /\ a[f + 1] # 0
  BY DEF FirstAt
<1>2. S \subseteq Int /\ f \in S
  <2>1. f + 1 \in {k \in DOMAIN a : a[k] # 0} /\ f = (f + 1) - 1
    BY <1>1
  <2>2. f \in T
    BY <2>1
  <2>3. ASSUME NEW y \in T PROVE y \in Int
    <3>1. PICK k \in 1 .. n : y = k - 1
      BY <1>1, <2>3
    <3>2. QED
      BY <3>1
  <2> HIDE DEF T
  <2>4. T \subseteq Int /\ n \in Int
    BY <1>1, <2>3
  <2>5. QED
    BY <2>2, <2>4
<1>3. ASSUME NEW y \in S PROVE f <= y
  <2>1. CASE y = n
    BY <1>1, <2>1
  <2>2. CASE y \in T
    <3>1. PICK k \in 1 .. n : a[k] # 0 /\ y = k - 1
      BY <1>1, <2>2
    <3>2. k \notin 1 .. f
      BY <3>1 DEF FirstAt
    <3>3. QED
      BY <1>1, <3>1, <3>2
  <2>3. QED
    BY <2>1, <2>2
<1> HIDE DEF S
<1>4. Min(S) = f
  BY <1>2, <1>3, MinIs
<1>5. QED
  BY <1>4 DEF FirstNonZero, S

(* ~s + 1 in place, done twice, changes nothing.                           *)
LEMMA ComplementProperties ==
  ASSUME NEW a \in Seq(Word), NEW f, FirstAt(a, f)
  PROVE  LET c == NotPlusOne(a, f)
         IN  /\ c \in Seq(Word) /\ Len(c) = Len(a)
             /\ \A i \in 1 .. Len(a) : c[i] = IF i <= f THEN 0 ELSE IF i = f + 1 THEN Base - a[i]
                                              ELSE Base - 1 - a[i]
             /\ FirstAt(c, f)
             /\ NotPlusOne(c, f) = a
<1> DEFINE n == Len(a)
           B == Base
           c == NotPlusOne(a, f)
           d == NotPlusOne(c, f)
<1>1. /\ n \in Nat /\ DOMAIN a = 1 .. n /\ f \in 0 .. n - 1 /\ a[f + 1] # 0
      /\ \A i \in 1 .. f : a[i] = 0
      /\ a = [i \in 1 .. n |-> a[i]]
  BY DEF FirstAt
<1>2. B \in Nat /\ B >= 2 /\ Word = 0 .. B - 1 /\ WordMax = B - 1
  BY BaseProperties DEF Word
<1>3. \A i \in 1 .. n : a[i] \in 0 .. B - 1
  <2>1. \A i \in 1 .. n : a[i] \in Word
    BY <1>1
  <2>2. QED
    BY <1>2, <2>1
<1>4. c = [i \in 1 .. n |-> IF i <= f THEN a[i] ELSE IF i = f + 1 THEN (- a[i]) % B
                            ELSE (B - 1) - a[i]]
  BY <1>1, <1>2 DEF NotPlusOne
<1> HIDE DEF B
<1>5. ASSUME NEW x \in 0 .. B - 1, x # 0
      PROVE  (- x) % B = B - x /\ (- (B - x)) % B = x
  <2>1. - x = (-1) * B + (B - x) /\ - (B - x) = (-1) * B + x
    BY <1>2
  <2>2. -1 \in Int /\ B - x \in Int /\ x \in Int /\ 0 <= B - x /\ B - x < B /\ 0 <= x /\ x < B /\ B >= 1
    BY <1>2, <1>5
  <2>3. ((-1) * B + (B - x)) % B = B - x
    BY <1>2, <2>2, DivisionUnique
  <2>4. ((-1) * B + x) % B = x
    BY <1>2, <2>2, DivisionUnique
  <2>5. QED
    BY <2>1, <2>3, <2>4
<1>6. a[f + 1] \in 0 .. B - 1 /\ a[f + 1] # 0
  BY <1>1, <1>3
<1>7. (- a[f + 1]) % B = B - a[f + 1] /\ (- (B - a[f + 1])) % B = a[f + 1]
  BY <1>5, <1>6
<1>8. \A i \in 1 .. n : c[i] = IF i <= f THEN 0 ELSE IF i = f + 1 THEN B - a[i] ELSE B - 1 - a[i]
  <2>1. ASSUME NEW i \in 1 .. n
        PROVE  c[i] = IF i <= f THEN 0 ELSE IF i = f + 1 THEN B - a[i] ELSE B - 1 - a[i]
    <3>1. CASE i <= f
      <4>1. i \in 1 .. f
        BY <1>1, <3>1
      <4>2. QED
        BY <1>1, <1>4, <3>1, <4>1
    <3>2. CASE i = f + 1
      BY <1>1, <1>4, <1>7, <3>2
    <3>3. CASE ~(i <= f) /\ i # f + 1
      BY <1>2, <1>3, <1>4, <3>3
    <3>4. QED
      BY <3>1, <3>2, <3>3
  <2>2. QED
    BY <2>1
<1>9. DOMAIN c = 1 .. n /\ \A i \in 1 .. n : c[i] \in 0 .. B - 1
  <2>1. DOMAIN c = 1 .. n
    BY <1>4
  <2>2. ASSUME NEW i \in 1 .. n PROVE c[i] \in 0 .. B - 1
    <3>1. a[i] \in 0 .. B - 1 /\ (i = f + 1 => a[i] # 0)
      BY <1>1, <1>3
    <3>2. c[i] = IF i <= f THEN 0 ELSE IF i = f + 1 THEN B - a[i] ELSE B - 1 - a[i]
      BY <1>8
    <3>3. QED
      BY <1>2, <3>1, <3>2
  <2>3. QED
    BY <2>1, <2>2
<1>10. c \in Seq(Word) /\ Len(c) = n
  <2>1. c = [i \in 1 .. n |-> c[i]]
    BY <1>4
  <2>2. c \in [1 .. n -> Word]
    BY <1>2, <1>9, <2>1
  <2>3. QED
    BY <1>1, <2>2, <2>1, SeqDef
<1>11. FirstAt(c, f)
  <2>1. f + 1 \in 1 .. n /\ c[f + 1] = B - a[f + 1]
    BY <1>1, <1>8
  <2>2. c[f + 1] # 0
    BY <1>2, <1>6, <2>1
  <2>3. \A i \in 1 .. f : c[i] = 0
    BY <1>1, <1>8
  <2>4. QED
    BY <1>1, <1>10, <2>2, <2>3 DEF FirstAt
<1>12. d = a
  <2>1. d = [i \in 1 .. n |-> IF i <= f THEN c[i] ELSE IF i = f + 1 THEN (- c[i]) % B
                              ELSE (B - 1) - c[i]]
    BY <1>9, <1>2 DEF NotPlusOne, B
  <2> HIDE DEF d, c
  <2>2. ASSUME NEW i \in 1 .. n PROVE d[i] = a[i]
    <3>1. CASE i <= f
      <4>1. i \in 1 .. f
        BY <1>1, <3>1
      <4>2. QED
        BY <1>1, <1>8, <2>1, <3>1, <4>1
    <3>2. CASE i = f + 1
      BY <1>1, <1>7, <1>8, <2>1, <3>2
    <3>3. CASE ~(i <= f) /\ i # f + 1
      BY <1>2, <1>3, <1>8, <2>1, <3>3
    <3>4. QED
      BY <3>1, <3>2, <3>3
  <2>3. d = [i \in 1 .. n |-> d[i]]
    BY <2>1
  <2>4. QED
    BY <1>1, <2>2, <2>3
<1>13. QED
  BY <1>8, <1>10, <1>11, <1>12 DEF B

(* All but the two lowest words of a magnitude count in steps of Base^2.   *)
LEMMA LowWords ==
  ASSUME NEW a \in Seq(Word)
  PROVE  \E q \in Int : ToNat(a) = q * (Base * Base) + (Digit(a, 2) * Base + Digit(a, 1))
<1> DEFINE n == Len(a)
           B == Base
<1>1. n \in Nat /\ DOMAIN a = 1 .. n /\ a \in Seq(Int) /\ \A i \in 1 .. n : a[i] \in Nat
  BY WordsProperties
<1>2. B \in Nat
  BY BaseProperties
<1>3. CASE n = 0
  <2>1. a = << >> /\ Digit(a, 1) = 0 /\ Digit(a, 2) = 0
    BY <1>1, <1>3 DEF Digit
  <2>2. ToNat(a) = 0 * (B * B) + (Digit(a, 2) * B + Digit(a, 1))
    BY <1>2, <2>1, ToNatEmpty
  <2>3. QED
    BY <2>2
<1>4. CASE n = 1
  <2>1. Digit(a, 1) = a[1] /\ Digit(a, 2) = 0 /\ a[1] \in Nat
    BY <1>1, <1>4 DEF Digit
  <2>2. ToNat(a) = a[1]
    BY <1>1, <1>4, ToNatSingle
  <2> HIDE DEF B
  <2>3. ToNat(a) = 0 * (B * B) + (Digit(a, 2) * B + Digit(a, 1))
    BY <1>2, <2>1, <2>2
  <2>4. QED
    BY <2>3 DEF B
<1>5. CASE n >= 2
  <2>1. Digit(a, 1) = a[1] /\ Digit(a, 2) = a[2] /\ a[1] \in Nat /\ a[2] \in Nat
    BY <1>1, <1>5 DEF Digit
  <2>2. PICK h : HornerOf(a, h)
    BY <1>1, ToNatUnfolds
  <2>3. /\ ToNat(a) = h[n]
        /\ \A i \in 1 .. n : h[i] = h[i - 1] * B + a[n + 1 - i]
        /\ h \in [0 .. n -> Int]
    BY <2>2 DEF HornerOf
  <2>4. n \in 1 .. n /\ n - 1 \in 1 .. n /\ n - 2 \in 0 .. n /\ (n - 1) - 1 = n - 2
        /\ n + 1 - n = 1 /\ n + 1 - (n - 1) = 2
    BY <1>1, <1>5
  <2>5. h[n] = h[n - 1] * B + a[1]
    BY <2>3, <2>4
  <2>6. h[n - 1] = h[n - 2] * B + a[2]
    BY <2>3, <2>4
  <2>7. h[n - 2] \in Int
    BY <2>3, <2>4
  <2>8. PICK q \in Int : q = h[n - 2]
    BY <2>7
  <2> HIDE DEF B, n
  <2>9. (q * B + a[2]) * B + a[1] = q * (B * B) + (a[2] * B + a[1])
    BY <1>2, <2>1
  <2>10. ToNat(a) = q * (B * B) + (Digit(a, 2) * B + Digit(a, 1))
    BY <2>1, <2>3, <2>5, <2>6, <2>8, <2>9
  <2>11. QED
    BY <2>10 DEF B
<1>6. QED
  BY <1>1, <1>3, <1>4, <1>5

(* The two lowest digits of a number that has them.                        *)
LEMMA LowPart ==
  ASSUME NEW e \in Int, NEW p \in Word, NEW r \in Word
  PROVE  (e * (Base * Base) + (p + Base * r)) % (Base * Base) = p + Base * r
<1> DEFINE B == Base
           z == p + B * r
           BB == B * B
<1>1. B \in Nat /\ B >= 2 /\ p \in 0 .. B - 1 /\ r \in 0 .. B - 1
  BY BaseProperties DEF Word
<1>2. z \in Int /\ 0 <= z /\ z < BB /\ BB \in Nat /\ BB >= 1
  <2> HIDE DEF B
  <2>1. B * r <= B * (B - 1) /\ B * (B - 1) = BB - B /\ 0 <= B * r /\ BB >= 2 * B
    BY <1>1
  <2>2. QED
    BY <1>1, <2>1
<1> HIDE DEF z, BB
<1>3. (e * BB + z) % BB = z
  BY <1>2, DivisionUnique
<1>4. QED
  BY <1>3 DEF z, BB

-----------------------------------------------------------------------------
(* A power of two that a word can hold is half the next one.               *)
LEMMA HalfBase == \E half \in Nat : Base = 2 * half /\ half >= 2
<1> DEFINE k == WordBits - 2
<1>1. WordBits \in Nat /\ k \in 0 .. WordBits /\ k + 1 \in 1 .. WordBits /\ (k + 1) + 1 = WordBits
      /\ WordBits \in 1 .. WordBits /\ (k + 1) - 1 = k /\ WordBits - 1 = k + 1
  BY WordBitsAssumption
<1> HIDE DEF k
<1>2. 2 ^ WordBits = 2 * 2 ^ (WordBits - 1) /\ 2 ^ (k + 1) = 2 * 2 ^ ((k + 1) - 1)
  BY <1>1, PowerAssumption DEF PowersUpTo
<1>3. 2 ^ k \in Nat /\ 2 ^ k >= 1
  BY <1>1, PowerAssumption, PowerProperties
<1>4. Base = 2 * (2 * 2 ^ k)
  BY <1>1, <1>2 DEF Base
<1>5. 2 * 2 ^ k \in Nat /\ 2 * 2 ^ k >= 2
  <2> DEFINE p == 2 ^ k
  <2>1. p \in Nat /\ p >= 1
    BY <1>3
  <2> HIDE DEF p
  <2>2. 2 * p \in Nat /\ 2 * p >= 2
    BY <2>1
  <2>3. QED
    BY <2>2 DEF p
<1>6. QED
  BY <1>4, <1>5

(* The starts of a sequence of two words.                                  *)
LEMMA StartsOfTwo ==
  ASSUME NEW S, NEW x \in S, NEW y \in S
  PROVE  /\ <<x, y>> \in Seq(S) /\ <<x>> \in Seq(S)
         /\ SubSeq(<<x, y>>, 1, 0) = << >>
         /\ SubSeq(<<x, y>>, 1, 1) = <<x>>
         /\ SubSeq(<<x, y>>, 1, 2) = <<x, y>>
<1> DEFINE p == <<x, y>>
<1>1. p \in Seq(S) /\ Len(p) = 2 /\ p[1] = x /\ p[2] = y
  OBVIOUS
<1>2. SubSeq(p, 1, 1) = <<x>>
  <2> DEFINE q == SubSeq(p, 1, 1)
  <2>1. q \in Seq(S) /\ Len(q) = 1 /\ q[1] = x
    <3> HIDE DEF p
    <3>1. QED
      BY <1>1
  <2> HIDE DEF q
  <2>2. q = [k \in 1 .. 1 |-> x]
    BY <2>1
  <2>3. <<x>> = [k \in 1 .. 1 |-> x]
    OBVIOUS
  <2>4. QED
    BY <2>2, <2>3 DEF q
<1>3. SubSeq(p, 1, 2) = p
  <2> DEFINE q == SubSeq(p, 1, 2)
  <2>1. q \in Seq(S) /\ Len(q) = 2 /\ q[1] = x /\ q[2] = y
    <3> HIDE DEF p
    <3>1. QED
      BY <1>1
  <2> HIDE DEF q
  <2>2. q = [k \in 1 .. 2 |-> IF k = 1 THEN x ELSE y]
    BY <2>1
  <2>3. <<x, y>> = [k \in 1 .. 2 |-> IF k = 1 THEN x ELSE y]
    OBVIOUS
  <2>4. QED
    BY <2>2, <2>3 DEF q
<1>4. SubSeq(p, 1, 0) = << >>
  BY <1>1
<1>5. QED
  BY <1>1, <1>2, <1>3, <1>4

(* The function the bits of a word operation are summed by.                *)
LowBits(op, a, b, low) ==
  /\ low[0] = 0
  /\ \A k \in 1 .. WordBits :
       low[k] = low[k - 1] + BitOp(op, BitOf(a, k - 1), BitOf(b, k - 1)) * 2 ^ (k - 1)
  /\ WordOp(op, a, b) = low[WordBits]

(* There is one when the bits of the result are numbers.                   *)
LEMMA WordOpUnfolds ==
  ASSUME NEW op, NEW a \in Nat, NEW b \in Nat,
         \A k \in 0 .. WordBits - 1 : BitOp(op, BitOf(a, k), BitOf(b, k)) \in Nat
  PROVE  \E low \in [0 .. WordBits -> Nat] : LowBits(op, a, b, low)
<1> DEFINE n == WordBits
           bit(k) == BitOp(op, BitOf(a, k), BitOf(b, k)) * 2 ^ k
           step == [p \in Nat \X (1 .. n) |-> p[1] + bit(p[2] - 1)]
           Eqn(f) == f = [k \in 0 .. n |-> IF k = 0 THEN 0 ELSE f[k - 1] + bit(k - 1)]
           low == CHOOSE f : Eqn(f)
<1>1. n \in Nat /\ 0 \in Nat
  BY WordBitsAssumption
<1>2. \A k \in 0 .. n - 1 : bit(k) \in Nat
  <2>1. ASSUME NEW k \in 0 .. n - 1 PROVE bit(k) \in Nat
    <3>1. k \in 0 .. n
      BY <1>1
    <3>2. 2 ^ k \in Nat
      BY <1>1, <3>1, PowerAssumption, PowerProperties
    <3>3. BitOp(op, BitOf(a, k), BitOf(b, k)) \in Nat
      BY <1>1
    <3> DEFINE x == BitOp(op, BitOf(a, k), BitOf(b, k))
               y == 2 ^ k
    <3> HIDE DEF x, y
    <3>4. x \in Nat /\ y \in Nat
      BY <3>2, <3>3 DEF x, y
    <3>5. x * y \in Nat
      BY <3>4
    <3>6. QED
      BY <3>5 DEF x, y
  <2>2. QED
    BY <2>1
<1> HIDE DEF bit
<1>3. step \in [Nat \X (1 .. n) -> Nat]
  <2>1. ASSUME NEW p \in Nat \X (1 .. n) PROVE p[1] + bit(p[2] - 1) \in Nat
    <3>1. p[1] \in Nat /\ p[2] \in 1 .. n /\ p[2] - 1 \in 0 .. n - 1
      BY <1>1
    <3>2. QED
      BY <1>2, <3>1
  <2>2. QED
    BY <2>1
<1>4. \E f \in [0 .. n -> Nat] : Unfolds(f, n, 0, step)
  <2> DEFINE zero == 0
  <2>1. zero \in Nat
    OBVIOUS
  <2> HIDE DEF step, zero
  <2>2. \E f \in [0 .. n -> Nat] : Unfolds(f, n, zero, step)
    BY <1>1, <1>3, <2>1, Recursion
  <2>3. QED
    BY <2>2 DEF zero
<1>5. PICK g \in [0 .. n -> Nat] : Unfolds(g, n, 0, step)
  BY <1>4
<1>6. Eqn(g)
  <2>1. g[0] = 0 /\ \A k \in 1 .. n : g[k] = step[<<g[k - 1], k>>]
    BY <1>5 DEF Unfolds
  <2>2. ASSUME NEW k \in 0 .. n PROVE g[k] = IF k = 0 THEN 0 ELSE g[k - 1] + bit(k - 1)
    <3>1. CASE k = 0
      BY <2>1, <3>1
    <3>2. CASE k # 0
      <4>1. k \in 1 .. n /\ k - 1 \in 0 .. n
        BY <1>1, <3>2
      <4>2. <<g[k - 1], k>> \in Nat \X (1 .. n)
        BY <4>1
      <4>3. QED
        BY <2>1, <3>2, <4>1, <4>2
    <3>3. QED
      BY <3>1, <3>2
  <2>3. g = [k \in 0 .. n |-> g[k]]
    OBVIOUS
  <2>4. QED
    BY <2>2, <2>3
<1>7. Eqn(low)
  BY <1>6
<1>8. WordOp(op, a, b) = low[n]
  BY DEF WordOp, bit
<1> HIDE DEF low
<1>9. /\ low[0] = 0
      /\ \A k \in 1 .. n : low[k] = low[k - 1] + bit(k - 1)
  BY <1>1, <1>7
<1>10. \A k \in 0 .. n : low[k] \in Nat
  <2> DEFINE T == {k \in 0 .. n : low[k] \in Nat}
  <2>1. 0 \in T
    BY <1>1, <1>9
  <2>2. ASSUME NEW k \in 0 .. n - 1, k \in T PROVE k + 1 \in T
    <3>1. k + 1 \in 1 .. n /\ (k + 1) - 1 = k /\ k + 1 \in 0 .. n
      BY <1>1
    <3>2. low[k + 1] = low[k] + bit(k) /\ bit(k) \in Nat /\ low[k] \in Nat
      BY <1>2, <1>9, <2>2, <3>1
    <3>3. QED
      BY <3>1, <3>2
  <2> HIDE DEF T
  <2>3. \A k \in 0 .. n : k \in T
    BY <1>1, <2>1, <2>2, UpTo
  <2>4. QED
    BY <2>3 DEF T
<1>11. low \in [0 .. n -> Nat]
  <2>1. low = [k \in 0 .. n |-> IF k = 0 THEN 0 ELSE low[k - 1] + bit(k - 1)]
    BY <1>7
  <2>2. low = [k \in 0 .. n |-> low[k]]
    BY <2>1
  <2>3. QED
    BY <1>10, <2>2
<1>12. LowBits(op, a, b, low)
  BY <1>8, <1>9 DEF LowBits, bit
<1>13. QED
  BY <1>11, <1>12

(* One more bit of a remainder.                                            *)
LEMMA NextBit ==
  ASSUME NEW a \in Nat, NEW P \in Nat, P >= 1
  PROVE  /\ a \div P \in Int /\ (a \div P) % 2 \in {0, 1}
         /\ a % (2 * P) = (a % P) + ((a \div P) % 2) * P
<1> DEFINE q == a \div P
           r == a % P
           h == q \div 2
           b == q % 2
<1>1. q \in Int /\ r \in Int /\ 0 <= r /\ r < P /\ a = q * P + r
  OBVIOUS
<1> HIDE DEF q, r
<1>2. h \in Int /\ b \in {0, 1} /\ q = h * 2 + b
  BY <1>1
<1> HIDE DEF h, b
<1> DEFINE z == b * P + r
           D == 2 * P
<1>3. z \in Int /\ 0 <= z /\ z < D /\ D \in Nat /\ D >= 1
  BY <1>1, <1>2
<1>4. (h * 2 + b) * P + r = h * (2 * P) + (b * P + r)
  BY <1>1, <1>2
<1>5. a = h * D + z
  BY <1>1, <1>2, <1>4
<1> HIDE DEF z, D
<1>6. (h * D + z) % D = z
  BY <1>2, <1>3, DivisionUnique
<1>7. a % D = r + b * P
  BY <1>1, <1>2, <1>5, <1>6 DEF z
<1>8. QED
  BY <1>1, <1>2, <1>7 DEF D, q, r, b

(* Setting the last bit of an even word adds one.                          *)
LEMMA OrOne ==
  ASSUME NEW a \in Word, a % 2 = 0
  PROVE  WordOp("or", a, 1) = a + 1
<1> DEFINE n == WordBits
           bit(k) == BitOp("or", BitOf(a, k), BitOf(1, k))
           pow(k) == 2 ^ k
<1>1. /\ n \in Nat /\ n >= 2 /\ PowersUpTo(n) /\ a \in Nat /\ a < pow(n)
  <2>1. n \in Nat /\ n >= 2 /\ PowersUpTo(n)
    BY WordBitsAssumption, PowerAssumption
  <2>2. Word = 0 .. Base - 1 /\ Base \in Nat /\ Base = pow(n)
    BY BaseProperties DEF Word, Base
  <2> HIDE DEF pow, n
  <2>3. QED
    BY <2>1, <2>2
<1>2. /\ pow(0) = 1
      /\ \A k \in 0 .. n - 1 : pow(k + 1) = 2 * pow(k)
      /\ \A k \in 0 .. n : pow(k) \in Nat /\ pow(k) >= 1
  <2>1. pow(0) = 1
    BY <1>1 DEF PowersUpTo
  <2>2. \A k \in 0 .. n : pow(k) \in Nat /\ pow(k) >= 1
    BY <1>1, PowerProperties
  <2>3. ASSUME NEW k \in 0 .. n - 1 PROVE pow(k + 1) = 2 * pow(k)
    <3>1. k + 1 \in 1 .. n /\ (k + 1) - 1 = k
      BY <1>1
    <3>2. pow(k + 1) = 2 * 2 ^ ((k + 1) - 1)
      BY <1>1, <3>1 DEF PowersUpTo
    <3>3. QED
      BY <3>1, <3>2
  <2>4. QED
    BY <2>1, <2>2, <2>3
<1>3. \A k \in 0 .. n - 1 : BitOf(a, k) = (a \div pow(k)) % 2 /\ BitOf(1, k) = (1 \div pow(k)) % 2
  BY DEF BitOf
<1> HIDE DEF pow
<1>4. \A p \in {0, 1} : BitOp("or", p, 0) = p /\ BitOp("or", p, 1) = 1
  <2>1. ASSUME NEW p \in Nat, NEW r \in Nat PROVE BitOp("or", p, r) = Max({p, r})
    BY DEF BitOp
  <2>2. ASSUME NEW p \in {0, 1} PROVE BitOp("or", p, 0) = p /\ BitOp("or", p, 1) = 1
    <3> DEFINE zero == 0
               one == 1
    <3>1. p \in Nat /\ zero \in Nat /\ one \in Nat
      OBVIOUS
    <3>2. BitOp("or", p, zero) = Max({p, zero}) /\ BitOp("or", p, one) = Max({p, one})
      BY <2>1, <3>1
    <3>3. zero = 0 /\ one = 1
      OBVIOUS
    <3> HIDE DEF zero, one
    <3>4. Max({p, zero}) \in {p, zero} /\ p <= Max({p, zero}) /\ zero <= Max({p, zero})
      BY <3>1, MaxOfTwo
    <3>5. Max({p, one}) \in {p, one} /\ p <= Max({p, one}) /\ one <= Max({p, one})
      BY <3>1, MaxOfTwo
    <3>6. Max({p, zero}) = p /\ Max({p, one}) = 1
      BY <2>2, <3>3, <3>4, <3>5
    <3>7. QED
      BY <3>2, <3>3, <3>6
  <2>3. QED
    BY <2>2
<1>5. bit(0) = 1
  <2>1. 0 \in 0 .. n - 1 /\ pow(0) = 1
    BY <1>1, <1>2
  <2>2. BitOf(a, 0) = (a \div 1) % 2 /\ BitOf(1, 0) = (1 \div 1) % 2
    BY <1>3, <2>1
  <2>3. BitOf(a, 0) = 0 /\ BitOf(1, 0) = 1
    BY <1>1, <2>2
  <2>4. BitOp("or", 0, 1) = 1
    BY <1>4
  <2>5. QED
    BY <2>3, <2>4
<1>6. \A k \in 1 .. n - 1 : bit(k) = (a \div pow(k)) % 2 /\ bit(k) \in {0, 1}
  <2>1. ASSUME NEW k \in 1 .. n - 1 PROVE bit(k) = (a \div pow(k)) % 2 /\ bit(k) \in {0, 1}
    <3>1. k - 1 \in 0 .. n - 1 /\ k \in 0 .. n /\ (k - 1) + 1 = k /\ k \in 0 .. n - 1 /\ k - 1 \in 0 .. n
      BY <1>1
    <3>2. pow(k) = 2 * pow(k - 1) /\ pow(k - 1) \in Nat /\ pow(k - 1) >= 1
      BY <1>2, <3>1
    <3>3. pow(k) \in Nat /\ pow(k) > 1
      BY <3>2
    <3>4. (1 \div pow(k)) = 0
      <4> DEFINE D == pow(k)
      <4>1. D \in Nat /\ D >= 1 /\ 1 < D /\ 0 \in Int /\ 1 \in Int /\ 0 <= 1
        BY <3>3
      <4> HIDE DEF D
      <4>2. (0 * D + 1) \div D = 0
        BY <4>1, DivisionUnique
      <4>3. 0 * D + 1 = 1
        BY <4>1
      <4>4. QED
        BY <4>2, <4>3 DEF D
    <3>5. BitOf(1, k) = 0
      BY <1>3, <3>1, <3>4
    <3>6. (a \div pow(k)) % 2 \in {0, 1}
      <4> DEFINE D == pow(k)
      <4>1. D \in Nat /\ D >= 1 /\ a \in Nat
        BY <1>1, <3>3
      <4> HIDE DEF D
      <4>2. (a \div D) % 2 \in {0, 1}
        BY <4>1, NextBit
      <4>3. QED
        BY <4>2 DEF D
    <3>7. BitOf(a, k) = (a \div pow(k)) % 2
      BY <1>3, <3>1
    <3> DEFINE x == (a \div pow(k)) % 2
    <3> HIDE DEF x
    <3>8. x \in {0, 1} /\ BitOf(a, k) = x
      BY <3>6, <3>7 DEF x
    <3>9. bit(k) = x
      BY <1>4, <3>5, <3>8
    <3>10. QED
      BY <3>8, <3>9 DEF x
  <2>2. QED
    BY <2>1
<1>7. \A k \in 0 .. n - 1 : bit(k) \in Nat
  <2>1. ASSUME NEW k \in 0 .. n - 1 PROVE bit(k) \in Nat
    <3>1. k = 0 \/ k \in 1 .. n - 1
      BY <1>1
    <3> HIDE DEF bit
    <3>2. QED
      BY <1>5, <1>6, <3>1
  <2>2. QED
    BY <2>1
<1>8. PICK low \in [0 .. n -> Nat] : LowBits("or", a, 1, low)
  <2> DEFINE one == 1
             or == "or"
  <2>1. one \in Nat /\ a \in Nat
    BY <1>1
  <2>2. \A k \in 0 .. n - 1 : BitOp(or, BitOf(a, k), BitOf(one, k)) \in Nat
    BY <1>7
  <2> HIDE DEF one, or
  <2>3. \E low \in [0 .. n -> Nat] : LowBits(or, a, one, low)
    BY <2>1, <2>2, WordOpUnfolds
  <2>4. QED
    BY <2>3 DEF one, or
<1>9. /\ low[0] = 0
      /\ \A k \in 1 .. n : low[k] = low[k - 1] + bit(k - 1) * pow(k - 1)
      /\ WordOp("or", a, 1) = low[n]
  BY <1>8 DEF LowBits, pow
<1> HIDE DEF bit
<1>10. \A k \in 0 .. n : k = 0 \/ low[k] = (a % pow(k)) + 1
  <2> DEFINE T == {k \in 0 .. n : k = 0 \/ low[k] = (a % pow(k)) + 1}
  <2>1. 0 \in T
    BY <1>1
  <2>2. ASSUME NEW k \in 0 .. n - 1, k \in T PROVE k + 1 \in T
    <3>1. k + 1 \in 1 .. n /\ (k + 1) - 1 = k /\ k + 1 \in 0 .. n /\ k \in 0 .. n
      BY <1>1
    <3>2. low[k + 1] = low[k] + bit(k) * pow(k)
      BY <1>9, <3>1
    <3>3. pow(k + 1) = 2 * pow(k) /\ pow(k) \in Nat /\ pow(k) >= 1
      BY <1>2, <3>1
    <3>4. CASE k = 0
      <4>1. low[k] = 0 /\ bit(k) = 1 /\ pow(k) = 1
        BY <1>2, <1>5, <1>9, <3>4
      <4>2. low[k + 1] = 1 /\ pow(k + 1) = 2
        BY <3>2, <3>3, <4>1
      <4>3. QED
        BY <3>1, <4>2
    <3>5. CASE k # 0
      <4>1. k \in 1 .. n - 1
        BY <3>5
      <4>2. low[k] = (a % pow(k)) + 1 /\ bit(k) = (a \div pow(k)) % 2
        BY <1>6, <2>2, <3>5, <4>1
      <4> DEFINE P == pow(k)
      <4>3. P \in Nat /\ P >= 1
        BY <3>3
      <4> HIDE DEF P
      <4>4. a % (2 * P) = (a % P) + ((a \div P) % 2) * P /\ a \div P \in Int /\ (a \div P) % 2 \in {0, 1}
        BY <1>1, <4>3, NextBit
      <4> DEFINE x == (a \div P) % 2
                 y == a % P
                 z == a % (2 * P)
      <4>5. x \in {0, 1} /\ y \in Int /\ z = y + x * P
        BY <1>1, <4>3, <4>4
      <4>6. low[k + 1] = (y + 1) + x * P
        BY <3>2, <4>2 DEF P
      <4>7. z = a % pow(k + 1)
        BY <3>3 DEF P
      <4> HIDE DEF x, y, z
      <4>8. (y + 1) + x * P = (y + x * P) + 1
        BY <4>3, <4>5
      <4>9. low[k + 1] = z + 1
        BY <4>5, <4>6, <4>8
      <4>10. QED
        BY <3>1, <4>7, <4>9
    <3>6. QED
      BY <3>4, <3>5
  <2> HIDE DEF T
  <2>3. \A k \in 0 .. n : k \in T
    BY <1>1, <2>1, <2>2, UpTo
  <2>4. QED
    BY <2>3 DEF T
<1>11. low[n] = (a % pow(n)) + 1
  <2>1. n \in 0 .. n /\ n # 0
    BY <1>1
  <2>2. QED
    BY <1>10, <2>1
<1>12. a % pow(n) = a
  <2> DEFINE P == pow(n)
  <2>1. P \in Nat /\ P >= 1 /\ a < P /\ a \in Int /\ 0 <= a /\ 0 \in Int
    BY <1>1, <1>2
  <2> HIDE DEF P
  <2>2. (0 * P + a) % P = a
    BY <2>1, DivisionUnique
  <2>3. 0 * P + a = a
    BY <2>1
  <2>4. QED
    BY <2>2, <2>3 DEF P
<1>13. QED
  BY <1>9, <1>11, <1>12

-----------------------------------------------------------------------------
(* Division of magnitudes: by one word (DivideByWord) and by Algorithm D   *)
(* (KnuthLoop), for words of any width and operands of any length.          *)

(* y are the remainders of a short division, from the top word down.       *)
RemaindersOf(a, x, y) ==
  /\ y[0] = 0 /\ \A i \in 1 .. Len(a) : y[i] = (y[i - 1] * Base + a[Len(a) + 1 - i]) % x
  /\ DivideByWord(a, x) = [q |-> [i \in 1 .. Len(a) |->
                                    ((y[Len(a) - i] * Base + a[i]) \div x) % Base],
                           r |-> y[Len(a)]]

(* The loop of the short division is such a sequence.                      *)
LEMMA DivideByWordUnfolds ==
  ASSUME NEW a \in Seq(Int), NEW x \in Nat, x >= 1
  PROVE  \E y : RemaindersOf(a, x, y)
<1> DEFINE n == Len(a)
           B == Base
           step == [p \in Int \X (1 .. n) |-> (p[1] * B + a[n + 1 - p[2]]) % x]
           Eqn(f) == f = [i \in 0 .. n |-> IF i = 0 THEN 0 ELSE (f[i - 1] * B + a[n + 1 - i]) % x]
           y == CHOOSE f : Eqn(f)
<1>1. n \in Nat /\ B \in Nat /\ \A i \in 1 .. n : a[n + 1 - i] \in Int
  BY BaseProperties
<1>2. DivideByWord(a, x) = [q |-> [i \in DOMAIN a |-> ((y[n - i] * B + a[i]) \div x) % B],
                            r |-> y[n]]
  BY DEF DivideByWord
<1>3. DOMAIN a = 1 .. n
  OBVIOUS
<1> HIDE DEF n, B
<1>4. step \in [Int \X (1 .. n) -> Int]
  <2>1. ASSUME NEW p \in Int, NEW i \in 1 .. n PROVE (p * B + a[n + 1 - i]) % x \in Int
    <3> DEFINE d == a[n + 1 - i]
               v == p * B + d
    <3>1. d \in Int
      BY <1>1
    <3> HIDE DEF d
    <3>2. v \in Int
      BY <1>1, <3>1
    <3> HIDE DEF v
    <3>3. v % x \in Int
      BY <3>2
    <3>4. QED
      BY <3>3 DEF v, d
  <2>2. QED
    BY <2>1
<1>5. \E f \in [0 .. n -> Int] : Unfolds(f, n, 0, step)
  <2> DEFINE S == Int
             zero == 0
  <2>1. zero \in S /\ step \in [S \X (1 .. n) -> S] /\ n \in Nat
    BY <1>1, <1>4
  <2> HIDE DEF step, S, zero
  <2>2. \E f \in [0 .. n -> S] : Unfolds(f, n, zero, step)
    BY <2>1, Recursion
  <2>3. QED
    BY <2>2 DEF S, zero
<1>6. \E f : Eqn(f)
  <2>1. PICK f \in [0 .. n -> Int] : Unfolds(f, n, 0, step)
    BY <1>5
  <2>2. ASSUME NEW i \in 1 .. n PROVE f[i] = (f[i - 1] * B + a[n + 1 - i]) % x
    <3>1. f[i] = step[<<f[i - 1], i>>]
      <4> HIDE DEF step
      <4>1. QED
        BY <2>1 DEF Unfolds
    <3>2. f[i - 1] \in Int
      BY <1>1
    <3>3. QED
      BY <3>1, <3>2
  <2>3. Eqn(f)
    BY <2>1, <2>2 DEF Unfolds
  <2> HIDE DEF Eqn
  <2>4. QED
    BY <2>3
<1>7. Eqn(y)
  <2> HIDE DEF Eqn
  <2>1. QED
    BY <1>6
<1> HIDE DEF y
<1>8. \A i \in 0 .. n : y[i] = IF i = 0 THEN 0 ELSE (y[i - 1] * B + a[n + 1 - i]) % x
  BY <1>7
<1>9. y[0] = 0 /\ \A i \in 1 .. n : y[i] = (y[i - 1] * B + a[n + 1 - i]) % x
  BY <1>1, <1>8
<1>10. RemaindersOf(a, x, y)
  BY <1>2, <1>3, <1>9 DEF RemaindersOf, n, B
<1>11. QED
  BY <1>10

(* What a round of it makes of the number v of the remainder and a word.   *)
RoundOf(B, x, v) ==
  /\ (v \div x) % B = v \div x /\ v \div x \in 0 .. B - 1
  /\ v % x \in Nat /\ v % x < x /\ v = (v \div x) * x + (v % x)

(* One round: the quotient digit is a word, the remainder stays below x.   *)
LEMMA DivideRound ==
  ASSUME NEW B \in Nat, NEW x \in Nat, x >= 1, NEW y \in Nat, y < x, NEW d \in Nat, d < B
  PROVE  RoundOf(B, x, y * B + d)
<1> DEFINE v == y * B + d
<1>1. v \in Nat /\ v < x * B
  <2>1. y * B <= (x - 1) * B /\ y * B \in Nat
    OBVIOUS
  <2>2. (x - 1) * B = x * B - B /\ x * B \in Nat
    OBVIOUS
  <2> DEFINE p == y * B
             q == x * B
  <2>3. p \in Nat /\ q \in Nat /\ p <= q - B
    BY <2>1, <2>2
  <2> HIDE DEF p, q
  <2>4. p + d \in Nat /\ p + d < q
    BY <2>3
  <2>5. QED
    BY <2>4 DEF p, q
<1> HIDE DEF v
<1> DEFINE q == v \div x
           r == v % x
<1>2. q \in Nat /\ r \in Nat /\ r < x /\ v = q * x + r
  BY <1>1
<1> HIDE DEF q, r
<1>3. q < B
  <2>1. SUFFICES ASSUME q >= B PROVE FALSE
    BY <1>2
  <2>2. q * x >= B * x /\ B * x = x * B
    BY <1>2, <2>1
  <2> DEFINE s == q * x
             t == x * B
  <2>3. s \in Nat /\ t \in Nat /\ s >= t /\ v = s + r /\ v < t
    BY <1>1, <1>2, <2>2
  <2> HIDE DEF s, t
  <2>4. QED
    BY <1>2, <2>3
<1>4. q % B = q /\ q \in 0 .. B - 1
  BY <1>2, <1>3
<1>5. QED
  BY <1>2, <1>4 DEF v, q, r, RoundOf

(* Short division.                                                         *)
LEMMA DivideByWordExact ==
  ASSUME NEW a \in Seq(Word), NEW x \in Nat, x >= 1
  PROVE  LET d == DivideByWord(a, x)
         IN  /\ d.q \in Seq(Word) /\ Len(d.q) = Len(a)
             /\ d.r \in 0 .. x - 1
             /\ ToNat(d.q) = ToNat(a) \div x /\ d.r = ToNat(a) % x
             /\ ToNat(a) = ToNat(d.q) * x + d.r
<1> DEFINE m == Len(a)
           B == Base
<1>1. m \in Nat /\ a \in Seq(Int) /\ B \in Nat /\ \A i \in 1 .. m : a[i] \in Nat /\ a[i] < B
  BY WordsProperties, BaseProperties
<1>2. PICK y : RemaindersOf(a, x, y)
  BY <1>1, DivideByWordUnfolds
<1>3. /\ y[0] = 0
      /\ \A i \in 1 .. m : y[i] = (y[i - 1] * B + a[m + 1 - i]) % x
  BY <1>2 DEF RemaindersOf
<1> DEFINE q == [i \in 1 .. m |-> ((y[m - i] * B + a[i]) \div x) % B]
<1>4. DivideByWord(a, x) = [q |-> q, r |-> y[m]]
  BY <1>2 DEF RemaindersOf
<1>5. \A i \in 1 .. m : q[i] = ((y[m - i] * B + a[i]) \div x) % B
  OBVIOUS
<1>6. q = [i \in 1 .. m |-> q[i]]
  OBVIOUS
<1> HIDE DEF m, B, q
<1> DEFINE T == {i \in 0 .. m : y[i] \in Nat /\ y[i] < x}
<1>7. \A i \in 0 .. m : y[i] \in Nat /\ y[i] < x
  <2>1. 0 \in T
    BY <1>1, <1>3
  <2>2. ASSUME NEW i \in 0 .. m - 1, i \in T PROVE i + 1 \in T
    <3>1. i + 1 \in 1 .. m /\ (i + 1) - 1 = i /\ i + 1 \in 0 .. m /\ m + 1 - (i + 1) \in 1 .. m
      BY <1>1
    <3> DEFINE d == a[m + 1 - (i + 1)]
               z == y[i]
    <3>2. y[i + 1] = (z * B + d) % x
      BY <1>3, <3>1
    <3>3. d \in Nat /\ d < B /\ z \in Nat /\ z < x
      BY <1>1, <2>2, <3>1
    <3> HIDE DEF d, z
    <3>4. (z * B + d) % x \in Nat /\ (z * B + d) % x < x
      <4>1. RoundOf(B, x, z * B + d)
        BY <1>1, <3>3, DivideRound
      <4>2. QED
        BY <4>1 DEF RoundOf
    <3>5. QED
      BY <3>1, <3>2, <3>4
  <2> HIDE DEF T
  <2>3. \A i \in 0 .. m : i \in T
    BY <1>1, <2>1, <2>2, UpTo
  <2>4. QED
    BY <2>3 DEF T
<1>8. ASSUME NEW i \in 1 .. m
      PROVE  /\ q[m + 1 - i] \in 0 .. B - 1
             /\ y[i - 1] * B + a[m + 1 - i] = q[m + 1 - i] * x + y[i]
  <2> DEFINE k == m + 1 - i
             d == a[k]
             z == y[i - 1]
  <2>1. k \in 1 .. m /\ m - k = i - 1 /\ i - 1 \in 0 .. m
    BY <1>1
  <2>2. d \in Nat /\ d < B /\ z \in Nat /\ z < x
    BY <1>1, <1>7, <2>1
  <2>3. q[k] = ((z * B + d) \div x) % B
    BY <1>5, <2>1
  <2>4. y[i] = (z * B + d) % x
    BY <1>3
  <2> HIDE DEF d, z
  <2>5. /\ ((z * B + d) \div x) % B = (z * B + d) \div x
        /\ (z * B + d) \div x \in 0 .. B - 1
        /\ z * B + d = ((z * B + d) \div x) * x + ((z * B + d) % x)
    <3>1. RoundOf(B, x, z * B + d)
      BY <1>1, <2>2, DivideRound
    <3>2. QED
      BY <3>1 DEF RoundOf
  <2>6. QED
    BY <2>3, <2>4, <2>5 DEF d, z
<1>9. q \in Seq(Word) /\ Len(q) = m
  <2>1. ASSUME NEW j \in 1 .. m PROVE q[j] \in Word
    <3>1. m + 1 - j \in 1 .. m /\ m + 1 - (m + 1 - j) = j
      BY <1>1
    <3>2. q[m + 1 - (m + 1 - j)] \in 0 .. B - 1
      BY <1>8, <3>1
    <3>3. QED
      BY <3>1, <3>2 DEF Word, WordMax, B
  <2>2. QED
    BY <1>1, <1>6, <2>1
<1>10. q \in Seq(Int)
  BY <1>9, WordsProperties
<1>11. PICK h : HornerOf(a, h)
  BY <1>1, ToNatUnfolds
<1>12. PICK g : HornerOf(q, g)
  BY <1>10, ToNatUnfolds
<1>13. /\ h \in [0 .. m -> Int] /\ h[0] = 0 /\ ToNat(a) = h[m]
       /\ \A i \in 1 .. m : h[i] = h[i - 1] * B + a[m + 1 - i]
  BY <1>11 DEF HornerOf, B, m
<1>14. /\ g \in [0 .. m -> Int] /\ g[0] = 0 /\ ToNat(q) = g[m]
       /\ \A i \in 1 .. m : g[i] = g[i - 1] * B + q[m + 1 - i]
  BY <1>9, <1>12 DEF HornerOf, B
<1> DEFINE U == {i \in 0 .. m : h[i] = g[i] * x + y[i]}
<1>15. 0 \in U
  BY <1>1, <1>3, <1>13, <1>14
<1>16. ASSUME NEW i \in 0 .. m - 1, i \in U PROVE i + 1 \in U
  <2>1. i + 1 \in 1 .. m /\ (i + 1) - 1 = i /\ i + 1 \in 0 .. m /\ m + 1 - (i + 1) \in 1 .. m
        /\ i \in 0 .. m
    BY <1>1
  <2> DEFINE d == a[m + 1 - (i + 1)]
             e == q[m + 1 - (i + 1)]
             G == g[i]
             z == y[i]
             s == y[i + 1]
  <2>2. h[i + 1] = h[i] * B + d
    BY <1>13, <2>1
  <2>3. g[i + 1] = G * B + e
    BY <1>14, <2>1
  <2>4. z * B + d = e * x + s
    BY <1>8, <2>1
  <2>5. h[i] = G * x + z
    BY <1>16
  <2>6. d \in Int /\ G \in Int /\ z \in Int /\ s \in Int
    <3>1. d \in Int
      BY <1>1, <2>1
    <3>2. z \in Int /\ s \in Int
      BY <1>7, <2>1
    <3>3. G \in Int
      BY <1>14, <2>1
    <3>4. QED
      BY <3>1, <3>2, <3>3
  <2>7. e \in Int
    BY <1>8, <2>1
  <2> HIDE DEF d, e, G, z, s
  <2>8. (G * x + z) * B + d = (G * B) * x + (z * B + d)
    BY <1>1, <2>6
  <2>9. (G * B + e) * x + s = (G * B) * x + (e * x + s)
    BY <1>1, <2>6, <2>7
  <2>10. h[i + 1] = g[i + 1] * x + s
    BY <2>2, <2>3, <2>4, <2>5, <2>8, <2>9
  <2>11. QED
    BY <2>1, <2>10 DEF s
<1> HIDE DEF U
<1>17. \A i \in 0 .. m : i \in U
  BY <1>1, <1>15, <1>16, UpTo
<1>18. ToNat(a) = ToNat(q) * x + y[m]
  <2>1. m \in U
    BY <1>1, <1>17
  <2>2. QED
    BY <1>13, <1>14, <2>1 DEF U
<1>19. y[m] \in Nat /\ y[m] < x
  BY <1>1, <1>7
<1>20. ToNat(q) \in Int
  BY <1>10, ToNatType
<1>21. ToNat(q) = ToNat(a) \div x /\ y[m] = ToNat(a) % x
  <2> DEFINE r == y[m]
             t == ToNat(q)
  <2>1. r \in Int /\ 0 <= r /\ r < x /\ t \in Int
    BY <1>19, <1>20
  <2>2. ToNat(a) = t * x + r
    BY <1>18
  <2> HIDE DEF r, t
  <2>3. (t * x + r) \div x = t /\ (t * x + r) % x = r
    BY <2>1, DivisionUnique
  <2>4. QED
    BY <2>2, <2>3 DEF r, t
<1>22. y[m] \in 0 .. x - 1
  BY <1>19
<1>23. DivideByWord(a, x).q = q /\ DivideByWord(a, x).r = y[m]
  BY <1>4
<1>24. QED
  BY <1>9, <1>18, <1>21, <1>22, <1>23 DEF m
-----------------------------------------------------------------------------
(* The number of two words.                                                *)
LEMMA ToNatTwo ==
  ASSUME NEW a \in Seq(Int), Len(a) = 2
  PROVE  ToNat(a) = a[2] * Base + a[1]
<1>1. PICK h : HornerOf(a, h)
  BY ToNatUnfolds
<1>2. /\ h[0] = 0 /\ ToNat(a) = h[2]
      /\ \A i \in 1 .. 2 : h[i] = h[i - 1] * Base + a[2 + 1 - i]
  BY <1>1 DEF HornerOf
<1>3. 1 \in 1 .. 2 /\ 2 \in 1 .. 2 /\ 2 + 1 - 1 = 2 /\ 2 + 1 - 2 = 1 /\ 1 - 1 = 0 /\ 2 - 1 = 1
  OBVIOUS
<1>4. h[1] = 0 * Base + a[2]
  BY <1>2, <1>3
<1>5. h[2] = h[1] * Base + a[1]
  BY <1>2, <1>3
<1>6. a[2] \in Int /\ Base \in Nat
  BY <1>3, BaseProperties
<1>7. h[1] = a[2]
  BY <1>4, <1>6
<1>8. QED
  BY <1>2, <1>5, <1>7

(* The number of three words.                                              *)
LEMMA ToNatThree ==
  ASSUME NEW a \in Seq(Int), Len(a) = 3
  PROVE  ToNat(a) = (a[3] * Base + a[2]) * Base + a[1]
<1>1. PICK h : HornerOf(a, h)
  BY ToNatUnfolds
<1>2. /\ h[0] = 0 /\ ToNat(a) = h[3]
      /\ \A i \in 1 .. 3 : h[i] = h[i - 1] * Base + a[3 + 1 - i]
  BY <1>1 DEF HornerOf
<1>3. /\ 1 \in 1 .. 3 /\ 2 \in 1 .. 3 /\ 3 \in 1 .. 3
      /\ 3 + 1 - 1 = 3 /\ 3 + 1 - 2 = 2 /\ 3 + 1 - 3 = 1
      /\ 1 - 1 = 0 /\ 2 - 1 = 1 /\ 3 - 1 = 2
  OBVIOUS
<1>4. h[1] = 0 * Base + a[3]
  BY <1>2, <1>3
<1>5. h[2] = h[1] * Base + a[2] /\ h[3] = h[2] * Base + a[1]
  BY <1>2, <1>3
<1>6. a[3] \in Int /\ Base \in Nat
  BY <1>3, BaseProperties
<1>7. h[1] = a[3]
  BY <1>4, <1>6
<1>8. QED
  BY <1>2, <1>5, <1>7
-----------------------------------------------------------------------------
(* What is known of a multiple of a number is known of their upper parts.  *)
LEMMA UpperParts ==
  ASSUME NEW B \in Nat, NEW P \in Nat, P >= 1, NEW x \in Nat, NEW v \in Nat,
         NEW lx \in Nat, lx < P, NEW lv \in Nat, lv < P, NEW t \in Nat,
         t * (v * P + lv) <= x * P + lx, x * P + lx < B * (v * P + lv)
  PROVE  t * v <= x /\ x < B * (v + 1)
<1>1. t * v \in Nat /\ t * lv \in Nat /\ v * P \in Nat /\ x * P \in Nat /\ (t * v) * P \in Nat
  <2>1. t * v \in Nat
    OBVIOUS
  <2> DEFINE y == t * v
  <2>2. y \in Nat
    BY <2>1
  <2> HIDE DEF y
  <2>3. y * P \in Nat
    BY <2>2
  <2>4. QED
    BY <2>1, <2>3 DEF y
<1>2. t * v <= x
  <2> DEFINE y == t * v
  <2>1. t * (v * P + lv) = (t * v) * P + t * lv
    OBVIOUS
  <2>2. y * P <= x * P + lx
    <3> DEFINE g == y * P
               h == t * lv
    <3>1. g \in Nat /\ h \in Nat /\ g + h <= x * P + lx
      BY <1>1, <2>1
    <3>2. g <= g + h
      BY <3>1
    <3> DEFINE k == x * P + lx
    <3>3. k \in Nat
      BY <1>1
    <3> HIDE DEF g, h, k
    <3>4. g <= k
      BY <3>1, <3>2, <3>3 DEF k
    <3>5. QED
      BY <3>4 DEF g, k
  <2>3. y \in Nat
    BY <1>1
  <2> HIDE DEF y
  <2>4. SUFFICES ASSUME y >= x + 1 PROVE FALSE
    BY <2>3 DEF y
  <2>5. y * P >= (x + 1) * P /\ (x + 1) * P = x * P + P
    BY <2>3, <2>4
  <2>6. QED
    <3> DEFINE g == y * P
               h == x * P
    <3>1. g \in Nat /\ h \in Nat /\ g >= h + P /\ g <= h + lx
      BY <1>1, <2>2, <2>3, <2>5
    <3> HIDE DEF g, h
    <3>2. QED
      BY <3>1
<1>3. x < B * (v + 1)
  <2> DEFINE y == B * (v + 1)
  <2>1. y \in Nat
    OBVIOUS
  <2>2. y * P = B * (v * P + P)
    BY <1>1
  <2>3. B * (v * P + lv) <= B * (v * P + P)
    <3> DEFINE g == v * P + lv
               h == v * P + P
    <3>1. g \in Nat /\ h \in Nat /\ g <= h
      BY <1>1
    <3> HIDE DEF g, h
    <3>2. B * g <= B * h
      BY <3>1
    <3>3. QED
      BY <3>2 DEF g, h
  <2>4. x * P + lx < y * P
    <3> DEFINE g == B * (v * P + lv)
               h == B * (v * P + P)
               k == x * P + lx
    <3>1. g \in Nat /\ h \in Nat /\ k \in Nat
      <4> DEFINE d == v * P + lv
                 e == v * P + P
      <4>1. d \in Nat /\ e \in Nat
        BY <1>1
      <4> HIDE DEF d, e
      <4>2. B * d \in Nat /\ B * e \in Nat
        BY <4>1
      <4>3. QED
        BY <1>1, <4>2 DEF d, e
    <3>2. k < g /\ g <= h
      BY <2>3
    <3> HIDE DEF g, h, k
    <3>3. k < h
      BY <3>1, <3>2
    <3>4. QED
      BY <2>2, <3>3 DEF h, k
  <2> HIDE DEF y
  <2>5. SUFFICES ASSUME y <= x PROVE FALSE
    BY <2>1 DEF y
  <2>6. y * P <= x * P
    BY <2>1, <2>5
  <2>7. QED
    <3> DEFINE g == y * P
               h == x * P
    <3>1. g \in Nat /\ h \in Nat /\ g <= h /\ h + lx < g
      BY <1>1, <2>1, <2>4, <2>6
    <3> HIDE DEF g, h
    <3>2. QED
      BY <3>1
<1>4. QED
  BY <1>2, <1>3

(* The digit estimated from the two top words of the dividend and the top  *)
(* one of the divisor, corrected once by the next ones: not below the true *)
(* digit t, and at most the base.                                          *)
Estimate(B, top, u3, v1, v2) ==
  IF top \div v1 = B \/ ((top \div v1) * v2) % (B * B) > ((top % v1) * B + u3) % (B * B)
  THEN top \div v1 - 1 ELSE top \div v1

(* It is exact enough, if the top bit of the divisor is set.               *)
LEMMA EstimateBounds ==
  ASSUME NEW B \in Nat, B >= 2, NEW v1 \in Nat, v1 < B, 2 * v1 >= B, NEW v2 \in Nat, v2 < B,
         NEW top \in Nat, NEW u3 \in Nat, u3 < B, NEW t \in Nat, t < B,
         t * (v1 * B + v2) <= top * B + u3, top * B + u3 < B * ((v1 * B + v2) + 1)
  PROVE  Estimate(B, top, u3, v1, v2) \in t .. B
<1> DEFINE q == top \div v1
           r == top % v1
           c == v1 * B
<1>1. v1 >= 1 /\ q \in Nat /\ r \in Nat /\ r < v1 /\ top = q * v1 + r
  OBVIOUS
<1>2. Estimate(B, top, u3, v1, v2) =
        IF q = B \/ (q * v2) % (B * B) > (r * B + u3) % (B * B) THEN q - 1 ELSE q
  BY DEF Estimate
<1> HIDE DEF q, r
<1>3. c \in Nat /\ q * v1 \in Nat /\ q * v2 \in Nat /\ r * B \in Nat /\ t * v1 \in Nat
  BY <1>1
<1>4. top <= c + v2
  <2>1. SUFFICES ASSUME top >= (c + v2) + 1 PROVE FALSE
    BY <1>3
  <2> DEFINE x == (c + v2) + 1
  <2>2. x \in Nat /\ top >= x /\ top * B + u3 < B * x
    BY <1>3, <2>1
  <2> HIDE DEF x
  <2>3. top * B >= x * B /\ x * B = B * x /\ top * B \in Nat /\ x * B \in Nat
    BY <2>2
  <2> DEFINE g == top * B
             h == x * B
  <2>4. g \in Nat /\ h \in Nat /\ g >= h /\ g + u3 < h
    BY <2>2, <2>3
  <2> HIDE DEF g, h
  <2>5. QED
    BY <2>4
<1>5. t <= q
  <2>1. t * v1 <= top
    <3>1. SUFFICES ASSUME t * v1 >= top + 1 PROVE FALSE
      BY <1>3
    <3> DEFINE y == t * v1
    <3>2. y \in Nat /\ y >= top + 1
      BY <1>3, <3>1
    <3>3. t * (v1 * B + v2) = y * B + t * v2 /\ t * v2 \in Nat
      OBVIOUS
    <3> HIDE DEF y
    <3>4. y * B >= (top + 1) * B /\ (top + 1) * B = top * B + B /\ y * B \in Nat /\ top * B \in Nat
      BY <3>2
    <3> DEFINE g == y * B
               h == top * B
               k == t * v2
    <3>5. g \in Nat /\ h \in Nat /\ k \in Nat /\ g >= h + B /\ g + k <= h + u3
      BY <3>3, <3>4
    <3> HIDE DEF g, h, k
    <3>6. QED
      BY <3>5
  <2>2. SUFFICES ASSUME t >= q + 1 PROVE FALSE
    BY <1>1
  <2>3. t * v1 >= (q + 1) * v1 /\ (q + 1) * v1 = q * v1 + v1
    BY <1>1, <2>2
  <2> DEFINE g == t * v1
             h == q * v1
  <2>4. g \in Nat /\ h \in Nat /\ g >= h + v1 /\ g <= h + r
    BY <1>1, <1>3, <2>1, <2>3
  <2> HIDE DEF g, h
  <2>5. QED
    BY <1>1, <2>4
<1>6. q <= B + 1
  <2>1. SUFFICES ASSUME q >= B + 2 PROVE FALSE
    BY <1>1
  <2>2. q * v1 >= (B + 2) * v1 /\ (B + 2) * v1 = c + 2 * v1
    BY <1>1, <2>1
  <2> DEFINE g == q * v1
  <2>3. g \in Nat /\ g >= c + 2 * v1 /\ g + r <= c + v2
    BY <1>1, <1>3, <1>4, <2>2
  <2> HIDE DEF g, c
  <2>4. QED
    BY <1>1, <1>3, <2>3
<1>7. B * B \in Nat /\ B <= B * B
  OBVIOUS
<1>8. ASSUME NEW x \in Nat, x < B * B PROVE x % (B * B) = x
  <2> DEFINE M == B * B
  <2>1. M \in Nat /\ x < M
    BY <1>7, <1>8
  <2> HIDE DEF M
  <2>2. x % M = x
    BY <2>1
  <2>3. QED
    BY <2>2 DEF M
<1>9. CASE q = B
  BY <1>2, <1>9
<1>10. CASE q = B + 1
  <2>1. q * v2 = B * v2 + v2 /\ q * v1 = c + v1
    BY <1>10
  <2>2. r + v1 <= v2
    <3> DEFINE g == q * v1
    <3>1. g = c + v1 /\ g \in Nat /\ g + r <= c + v2
      BY <1>1, <1>3, <1>4, <2>1
    <3> HIDE DEF g, c
    <3>2. QED
      BY <1>1, <1>3, <3>1
  <2>3. r * B + u3 < q * v2
    <3>1. (r + 1) * B <= v2 * B /\ (r + 1) * B = r * B + B /\ v2 * B = B * v2
      <4> DEFINE s == r + 1
      <4>1. s \in Nat /\ s <= v2
        BY <1>1, <2>2
      <4> HIDE DEF s
      <4>2. s * B <= v2 * B
        BY <4>1
      <4>3. QED
        BY <1>1, <4>2 DEF s
    <3> DEFINE g == r * B
               h == B * v2
    <3>2. g \in Nat /\ h \in Nat /\ g + B <= h
      BY <1>3, <3>1
    <3> HIDE DEF g, h
    <3>3. g + u3 < h + v2
      BY <3>2
    <3>4. QED
      BY <2>1, <3>3 DEF g, h
  <2>4. q * v2 < B * B
    <3>1. (B + 1) * v2 <= (B + 1) * (B - 1) /\ (B + 1) * (B - 1) = B * B - 1
      <4> DEFINE s == B + 1
                 d == B - 1
      <4>1. s \in Nat /\ d \in Nat /\ v2 <= d
        OBVIOUS
      <4> HIDE DEF s, d
      <4>2. s * v2 <= s * d
        BY <4>1
      <4>3. QED
        BY <4>2 DEF s, d
    <3> DEFINE g == (B + 1) * v2
               h == B * B
    <3>2. g \in Int /\ h \in Int /\ g <= h - 1
      BY <3>1
    <3> HIDE DEF g, h
    <3>3. g < h
      BY <3>2
    <3>4. QED
      BY <1>10, <3>3 DEF g, h
  <2>5. r * B + u3 \in Nat /\ q * v2 \in Nat /\ r * B + u3 < B * B
    <3> DEFINE g == r * B + u3
               h == q * v2
               k == B * B
    <3>1. g \in Nat /\ h \in Nat /\ k \in Nat /\ g < h /\ h < k
      BY <1>3, <1>7, <2>3, <2>4
    <3> HIDE DEF g, h, k
    <3>2. g < k
      BY <3>1
    <3>3. QED
      BY <3>1, <3>2 DEF g, h, k
  <2>6. (q * v2) % (B * B) = q * v2 /\ (r * B + u3) % (B * B) = r * B + u3
    BY <1>8, <2>4, <2>5
  <2>7. Estimate(B, top, u3, v1, v2) = q - 1
    BY <1>2, <2>3, <2>5, <2>6
  <2>8. QED
    BY <1>10, <2>7
<1>11. CASE q < B
  <2>1. q * v2 < B * B
    <3>1. q * v2 <= B * v2 /\ B * v2 <= B * (B - 1) /\ B * (B - 1) = B * B - B
      <4>1. q * v2 <= B * v2
        BY <1>1, <1>11
      <4>2. B * v2 <= B * (B - 1)
        OBVIOUS
      <4>3. QED
        BY <4>1, <4>2
    <3> DEFINE g == q * v2
               h == B * v2
               k == B * B
    <3>2. g \in Nat /\ h \in Nat /\ k \in Nat /\ g <= h /\ h <= k - B
      BY <1>3, <1>7, <3>1
    <3> HIDE DEF g, h, k
    <3>3. g < k
      BY <3>2
    <3>4. QED
      BY <3>3 DEF g, k
  <2>2. r * B + u3 < B * B
    <3>1. (r + 1) * B <= B * B /\ (r + 1) * B = r * B + B
      <4> DEFINE s == r + 1
      <4>1. s \in Nat /\ s <= B
        BY <1>1
      <4> HIDE DEF s
      <4>2. s * B <= B * B
        BY <4>1
      <4>3. QED
        BY <1>1, <4>2 DEF s
    <3> DEFINE g == r * B
               k == B * B
    <3>2. g \in Nat /\ k \in Nat /\ g + B <= k
      BY <1>3, <1>7, <3>1
    <3> HIDE DEF g, k
    <3>3. g + u3 < k
      BY <3>2
    <3>4. QED
      BY <3>3 DEF g, k
  <2>3. r * B + u3 \in Nat /\ q * v2 \in Nat
    BY <1>3
  <2>4. (q * v2) % (B * B) = q * v2 /\ (r * B + u3) % (B * B) = r * B + u3
    BY <1>8, <2>1, <2>2, <2>3
  <2>5. Estimate(B, top, u3, v1, v2) = IF q * v2 > r * B + u3 THEN q - 1 ELSE q
    <3>1. q # B
      BY <1>1, <1>11
    <3>2. QED
      BY <1>2, <2>4, <3>1
  <2>6. ASSUME q * v2 > r * B + u3 PROVE t <= q - 1
    <3>1. SUFFICES ASSUME t = q PROVE FALSE
      BY <1>1, <1>5
    <3>2. q * (v1 * B + v2) = (q * v1) * B + q * v2
      BY <1>1
    <3>3. top * B = (q * v1) * B + r * B
      BY <1>1
    <3>4. (q * v1) * B \in Nat
      <4> DEFINE s == q * v1
      <4>1. s \in Nat
        BY <1>3
      <4> HIDE DEF s
      <4>2. s * B \in Nat
        BY <4>1
      <4>3. QED
        BY <4>2 DEF s
    <3>5. q * (v1 * B + v2) <= top * B + u3
      BY <3>1
    <3> DEFINE g == (q * v1) * B
               h == q * v2
               k == r * B
    <3>6. g \in Nat /\ h \in Nat /\ k \in Nat /\ h > k + u3
      BY <1>3, <2>6, <3>4
    <3>7. g + h <= (g + k) + u3
      BY <3>2, <3>3, <3>5
    <3> HIDE DEF g, h, k
    <3>8. QED
      BY <3>6, <3>7
  <2>7. CASE q * v2 > r * B + u3
    BY <1>1, <1>11, <2>5, <2>6, <2>7
  <2>8. CASE ~(q * v2 > r * B + u3)
    BY <1>1, <1>5, <1>11, <2>5, <2>8
  <2>9. QED
    BY <2>7, <2>8
<1>12. QED
  BY <1>1, <1>6, <1>9, <1>10, <1>11

(* The two top words of a number, above what is less than their unit.      *)
LEMMA TopTwo ==
  ASSUME NEW a \in Seq(Word), NEW k \in Nat, Len(a) = k + 2, NEW w, Weights(w, k)
  PROVE  /\ w[k] \in Nat /\ w[k] >= 1 /\ a[k + 2] \in Word /\ a[k + 1] \in Word
         /\ \E lo \in Nat : lo < w[k] /\ ToNat(a) = (a[k + 2] * Base + a[k + 1]) * w[k] + lo
<1> DEFINE hi == SubSeq(a, k + 1, Len(a))
           lo == SubSeq(a, 1, k)
<1>1. a \in Seq(Int) /\ k \in 0 .. Len(a) /\ k <= k
  BY WordsProperties
<1>2. ToNat(a) = ToNat(lo) + w[k] * ToNat(hi)
  BY <1>1, ToNatSplit
<1>3. lo \in Seq(Word) /\ Len(lo) = k
  BY <1>1
<1>4. hi \in Seq(Word) /\ Len(hi) = 2 /\ hi[1] = a[k + 1] /\ hi[2] = a[k + 2]
  BY <1>1
<1> HIDE DEF hi, lo
<1>5. ToNat(lo) \in Nat /\ ToNat(lo) < w[k]
  <2>1. k \in 0 .. k /\ Len(lo) <= k
    BY <1>3
  <2>2. QED
    BY <1>3, <2>1, ToNatBound, WordsProperties, ToNatPositive
<1>6. ToNat(hi) = a[k + 2] * Base + a[k + 1] /\ ToNat(hi) \in Int
  <2>1. hi \in Seq(Int)
    BY <1>4, WordsProperties
  <2>2. QED
    BY <1>4, <2>1, ToNatTwo, ToNatType
<1>7. w[k] \in Nat /\ w[k] >= 1
  <2>1. k \in 0 .. k
    OBVIOUS
  <2>2. QED
    BY <2>1, WeightsPositive
<1>8. ToNat(a) = ToNat(hi) * w[k] + ToNat(lo)
  <2> DEFINE x == ToNat(hi)
             y == w[k]
             z == ToNat(lo)
  <2>1. x \in Int /\ y \in Int /\ z \in Int /\ ToNat(a) = z + y * x
    BY <1>2, <1>5, <1>6, <1>7
  <2> HIDE DEF x, y, z
  <2>2. y * x = x * y /\ x * y \in Int
    BY <2>1
  <2> DEFINE p == x * y
  <2>3. ToNat(a) = z + p /\ p \in Int
    BY <2>1, <2>2
  <2> HIDE DEF p
  <2>4. ToNat(a) = p + z
    BY <2>1, <2>3
  <2>5. QED
    BY <2>4 DEF p, x, y, z
<1>9. a[k + 2] \in Word /\ a[k + 1] \in Word
  OBVIOUS
<1>10. QED
  BY <1>5, <1>6, <1>7, <1>8, <1>9

(* The three top words of a number.                                        *)
LEMMA TopThree ==
  ASSUME NEW a \in Seq(Word), NEW k \in Nat, Len(a) = k + 3, NEW w, Weights(w, k)
  PROVE  /\ a[k + 3] \in Word /\ a[k + 2] \in Word /\ a[k + 1] \in Word
         /\ \E lo \in Nat :
              /\ lo < w[k]
              /\ ToNat(a) = ((a[k + 3] * Base + a[k + 2]) * Base + a[k + 1]) * w[k] + lo
<1> DEFINE hi == SubSeq(a, k + 1, Len(a))
           lo == SubSeq(a, 1, k)
<1>1. a \in Seq(Int) /\ k \in 0 .. Len(a) /\ k <= k
  BY WordsProperties
<1>2. ToNat(a) = ToNat(lo) + w[k] * ToNat(hi)
  BY <1>1, ToNatSplit
<1>3. lo \in Seq(Word) /\ Len(lo) = k
  BY <1>1
<1>4. hi \in Seq(Word) /\ Len(hi) = 3 /\ hi[1] = a[k + 1] /\ hi[2] = a[k + 2] /\ hi[3] = a[k + 3]
  BY <1>1
<1> HIDE DEF hi, lo
<1>5. ToNat(lo) \in Nat /\ ToNat(lo) < w[k]
  <2>1. k \in 0 .. k /\ Len(lo) <= k
    BY <1>3
  <2>2. QED
    BY <1>3, <2>1, ToNatBound, WordsProperties, ToNatPositive
<1>6. /\ ToNat(hi) = (a[k + 3] * Base + a[k + 2]) * Base + a[k + 1]
      /\ ToNat(hi) \in Int
  <2>1. hi \in Seq(Int)
    BY <1>4, WordsProperties
  <2>2. QED
    BY <1>4, <2>1, ToNatThree, ToNatType
<1>7. w[k] \in Nat
  <2>1. k \in 0 .. k
    OBVIOUS
  <2>2. QED
    BY <2>1, WeightsPositive
<1>8. ToNat(a) = ToNat(hi) * w[k] + ToNat(lo)
  <2> DEFINE x == ToNat(hi)
             y == w[k]
             z == ToNat(lo)
  <2>1. x \in Int /\ y \in Int /\ z \in Int /\ ToNat(a) = z + y * x
    BY <1>2, <1>5, <1>6, <1>7
  <2> HIDE DEF x, y, z
  <2>2. y * x = x * y /\ x * y \in Int
    BY <2>1
  <2> DEFINE p == x * y
  <2>3. ToNat(a) = z + p /\ p \in Int
    BY <2>1, <2>2
  <2> HIDE DEF p
  <2>4. ToNat(a) = p + z
    BY <2>1, <2>3
  <2>5. QED
    BY <2>4 DEF p, x, y, z
<1>9. a[k + 3] \in Word /\ a[k + 2] \in Word /\ a[k + 1] \in Word
  OBVIOUS
<1>10. QED
  BY <1>5, <1>6, <1>8, <1>9

(* A divisor Algorithm D works with: two words at least, the top bit set.  *)
Divisor(v) == v \in Seq(Word) /\ Len(v) >= 2 /\ 2 * v[Len(v)] >= Base

(* The number in the words of u the next digit is taken from.              *)
Window(u, v, j) == ToNat(Part(u, j, Len(v) + 1))

(* The estimate for the true digit t.                                      *)
LEMMA QHatBounds ==
  ASSUME NEW v, Divisor(v), NEW u \in Seq(Word), NEW j \in Nat, j + (Len(v) + 1) <= Len(u),
         Window(u, v, j) < Base * ToNat(v),
         NEW t \in Nat, t < Base, t * ToNat(v) <= Window(u, v, j)
  PROVE  QHat(u, v, j) \in t .. Base
<1> DEFINE n == Len(v)
           k == n - 2
           B == Base
           W == Part(u, j, n + 1)
           top == u[j + n + 1] * B + u[j + n]
           u3 == u[j + n - 1]
           v1 == v[n]
           v2 == v[n - 1]
<1>1. v \in Seq(Word) /\ n \in Nat /\ n >= 2 /\ 2 * v1 >= B
  BY DEF Divisor
<1>2. k \in Nat /\ n = k + 2 /\ n - 1 = k + 1 /\ n + 1 = k + 3
  BY <1>1
<1>3. QHat(u, v, j) = Estimate(B, top, u3, v1, v2)
  BY DEF QHat, Estimate
<1>4. W \in Seq(Word) /\ Len(W) = n + 1 /\ \A i \in 1 .. n + 1 : W[i] = u[j + i]
  <2>1. n + 1 \in Nat
    BY <1>1
  <2>2. QED
    BY <2>1, WordPart
<1>5. W[k + 3] = u[j + n + 1] /\ W[k + 2] = u[j + n] /\ W[k + 1] = u[j + n - 1]
  <2>1. /\ k + 3 \in 1 .. n + 1 /\ k + 2 \in 1 .. n + 1 /\ k + 1 \in 1 .. n + 1
        /\ j + (k + 3) = j + n + 1 /\ j + (k + 2) = j + n /\ j + (k + 1) = j + n - 1
    BY <1>2
  <2>2. QED
    BY <1>4, <2>1
<1>6. PICK w : Weights(w, k)
  BY <1>2, WeightsExist
<1> HIDE DEF n, k, W
<1>7. /\ w[k] \in Nat /\ w[k] >= 1 /\ v1 \in Word /\ v2 \in Word
      /\ \E lo \in Nat : lo < w[k] /\ ToNat(v) = (v1 * B + v2) * w[k] + lo
  <2>1. Len(v) = k + 2 /\ v1 = v[k + 2] /\ v2 = v[k + 1]
    BY <1>2 DEF n
  <2> HIDE DEF v1, v2
  <2>2. QED
    BY <1>1, <1>2, <1>6, <2>1, TopTwo
<1>8. /\ u[j + n + 1] \in Word /\ u[j + n] \in Word /\ u3 \in Word
      /\ \E lo \in Nat : lo < w[k] /\ ToNat(W) = (top * B + u3) * w[k] + lo
  <2>1. Len(W) = k + 3
    BY <1>2, <1>4
  <2>2. /\ W[k + 3] \in Word /\ W[k + 2] \in Word /\ W[k + 1] \in Word
        /\ \E lo \in Nat :
              /\ lo < w[k]
              /\ ToNat(W) = ((W[k + 3] * Base + W[k + 2]) * Base + W[k + 1]) * w[k] + lo
    BY <1>2, <1>4, <1>6, <2>1, TopThree
  <2>3. QED
    BY <1>5, <2>2
<1>9. B \in Nat /\ B >= 2 /\ WordMax = B - 1
  BY BaseProperties
<1> HIDE DEF B
<1>10. /\ v1 \in Nat /\ v1 < B /\ v2 \in Nat /\ v2 < B /\ u3 \in Nat /\ u3 < B
       /\ u[j + n + 1] \in Nat /\ u[j + n] \in Nat
  <2>1. \A x \in Word : x \in Nat /\ x < B
    BY <1>9 DEF Word
  <2>2. v1 \in Word /\ v2 \in Word /\ u3 \in Word /\ u[j + n + 1] \in Word /\ u[j + n] \in Word
    BY <1>7, <1>8
  <2> HIDE DEF v1, v2, u3
  <2>3. QED
    BY <2>1, <2>2
<1>11. top \in Nat
  <2> DEFINE x == u[j + n + 1]
             y == u[j + n]
  <2>1. x \in Nat /\ y \in Nat
    BY <1>10
  <2> HIDE DEF x, y
  <2>2. x * B + y \in Nat
    BY <1>9, <2>1
  <2>3. QED
    BY <2>2 DEF x, y
<1>12. PICK lv \in Nat : lv < w[k] /\ ToNat(v) = (v1 * B + v2) * w[k] + lv
  BY <1>7
<1>13. PICK lx \in Nat : lx < w[k] /\ ToNat(W) = (top * B + u3) * w[k] + lx
  BY <1>8
<1>14. Window(u, v, j) = ToNat(W)
  BY DEF Window, W, n
<1> HIDE DEF top, u3, v1, v2
<1> DEFINE x == top * B + u3
           y == v1 * B + v2
           P == w[k]
<1>15. x \in Nat /\ y \in Nat /\ P \in Nat /\ P >= 1
  <2>1. x \in Nat
    BY <1>9, <1>10, <1>11
  <2>2. y \in Nat
    BY <1>9, <1>10
  <2>3. QED
    BY <1>7, <2>1, <2>2
<1>16. t * (y * P + lv) <= x * P + lx /\ x * P + lx < B * (y * P + lv)
  BY <1>12, <1>13, <1>14 DEF B
<1>17. lx < P /\ lv < P
  BY <1>12, <1>13
<1> HIDE DEF x, y, P
<1>18. t * y <= x /\ x < B * (y + 1)
  BY <1>9, <1>15, <1>16, <1>17, UpperParts
<1>19. t * (v1 * B + v2) <= top * B + u3 /\ top * B + u3 < B * ((v1 * B + v2) + 1)
  BY <1>18 DEF x, y
<1>20. t < B /\ 2 * v1 >= B
  BY <1>1 DEF B, v1
<1>21. Estimate(B, top, u3, v1, v2) \in t .. B
  BY <1>9, <1>10, <1>11, <1>19, <1>20, EstimateBounds
<1>22. QED
  BY <1>3, <1>21 DEF B, top, u3, v1, v2
-----------------------------------------------------------------------------
(* A row times a factor that is at most the base: the carry is a word.     *)
LEMMA ScaledRow ==
  ASSUME NEW v \in Seq(Word), NEW q \in 0 .. Base
  PROVE  LET r == Ripple([k \in 1 .. Len(v) |-> q * v[k]], 0)
         IN  /\ r.words \in Seq(Word) /\ Len(r.words) = Len(v) /\ r.out \in Word
             /\ Append(r.words, r.out) \in Seq(Word) /\ Len(Append(r.words, r.out)) = Len(v) + 1
             /\ ToNat(Append(r.words, r.out)) = q * ToNat(v)
<1> DEFINE n == Len(v)
           B == Base
           col == [k \in 1 .. n |-> q * v[k]]
           r == Ripple(col, 0)
<1>1. /\ n \in Nat /\ v \in Seq(Int) /\ \A i \in 1 .. n : v[i] \in Nat /\ v[i] < B
      /\ B \in Nat /\ B >= 2 /\ WordMax = B - 1
  BY WordsProperties, BaseProperties
<1>2. q \in Nat /\ q <= B
  BY <1>1
<1> HIDE DEF B
<1>3. ASSUME NEW i \in 1 .. n PROVE q * v[i] \in Int /\ 0 <= q * v[i] /\ q * v[i] <= (B - 1) * B
  <2> DEFINE x == v[i]
  <2>1. x \in Nat /\ x <= B - 1
    BY <1>1
  <2> HIDE DEF x
  <2>2. q * x \in Nat /\ q * x <= B * x
    BY <1>1, <1>2, <2>1
  <2>3. B * x <= B * (B - 1) /\ B * (B - 1) = (B - 1) * B
    BY <1>1, <2>1
  <2> DEFINE f == q * x
             g == B * x
             h == (B - 1) * B
  <2>4. f \in Nat /\ g \in Int /\ h \in Int /\ f <= g /\ g <= h
    BY <1>1, <2>1, <2>2, <2>3
  <2> HIDE DEF f, g, h
  <2>5. f \in Int /\ 0 <= f /\ f <= h
    BY <2>4
  <2>6. QED
    BY <2>5 DEF f, h, x
<1>4. col \in Seq(Int) /\ Len(col) = n /\ \A i \in 1 .. n : col[i] = q * v[i]
  BY <1>1, <1>3
<1>5. \A i \in 1 .. Len(col) : col[i] = v[i] * q
  <2>1. ASSUME NEW i \in 1 .. n PROVE q * v[i] = v[i] * q
    BY <1>1, <1>2
  <2>2. QED
    BY <1>4, <2>1
<1> HIDE DEF col
<1>6. ToNat(col) = ToNat(v) * q
  BY <1>1, <1>2, <1>4, <1>5, ToNatMultiple
<1>7. /\ r.words \in Seq(Word) /\ Len(r.words) = n /\ r.out \in Int
      /\ ToNat(Append(r.words, r.out)) = ToNat(col) + 0
  <2> DEFINE zero == 0
  <2>1. zero \in Int
    OBVIOUS
  <2> HIDE DEF zero
  <2>2. LET s == Ripple(col, zero)
        IN  /\ s.words \in Seq(Word) /\ Len(s.words) = Len(col) /\ s.out \in Int
            /\ ToNat(Append(s.words, s.out)) = ToNat(col) + zero
    BY <1>4, <2>1, RippleExact
  <2>3. QED
    BY <1>4, <2>2 DEF zero
<1>8. 0 <= r.out /\ r.out <= B - 1
  <2> DEFINE l == 0
             u == B - 1
             zero == 0
  <2>1. /\ l \in Int /\ u \in Int /\ zero \in Int /\ l <= zero /\ zero <= u
        /\ l * B - l = 0 /\ u * B + WordMax - u = (B - 1) * B
    BY <1>1
  <2>2. \A i \in 1 .. Len(col) : l * B - l <= col[i] /\ col[i] <= u * B + WordMax - u
    BY <1>3, <1>4, <2>1
  <2> HIDE DEF l, u, zero
  <2>3. l <= Ripple(col, zero).out /\ Ripple(col, zero).out <= u
    BY <1>4, <2>1, <2>2, RippleRange DEF B
  <2>4. QED
    BY <2>3 DEF l, u, zero
<1>9. r.out \in Word
  BY <1>1, <1>7, <1>8 DEF Word
<1> HIDE DEF r
<1>10. /\ Append(r.words, r.out) \in Seq(Word)
       /\ Len(Append(r.words, r.out)) = n + 1
  BY <1>7, <1>9
<1>11. ToNat(v) \in Int
  BY <1>1, ToNatType
<1>12. ToNat(Append(r.words, r.out)) = q * ToNat(v)
  <2> DEFINE x == ToNat(v)
  <2>1. x \in Int /\ ToNat(Append(r.words, r.out)) = x * q + 0
    BY <1>6, <1>7, <1>11
  <2> HIDE DEF x
  <2>2. x * q + 0 = q * x
    BY <1>2, <2>1
  <2>3. QED
    BY <2>1, <2>2 DEF x
<1>13. QED
  BY <1>7, <1>9, <1>10, <1>12 DEF r, col

(* Subtracting a multiple of the divisor from a window: words and a borrow *)
(* of at most one.                                                         *)
LEMMA MulSubExact ==
  ASSUME NEW v \in Seq(Word), NEW u \in Seq(Word), NEW j \in Nat, j + (Len(v) + 1) <= Len(u),
         NEW q \in 0 .. Base
  PROVE  LET r == MulSub(u, v, j, q)
         IN  /\ r.words \in Seq(Word) /\ Len(r.words) = Len(v) + 1 /\ r.out \in {-1, 0}
             /\ ToNat(Append(r.words, r.out)) = Window(u, v, j) - q * ToNat(v)
<1> DEFINE n == Len(v)
           B == Base
           prod == Ripple([k \in 1 .. n |-> q * v[k]], 0)
           P == Append(prod.words, prod.out)
           W == Part(u, j, n + 1)
           col == [k \in 1 .. n + 1 |-> u[j + k] - (IF k <= n THEN prod.words[k] ELSE prod.out)]
           r == MulSub(u, v, j, q)
<1>1. n \in Nat /\ B \in Nat /\ B >= 2 /\ WordMax = B - 1
  BY WordsProperties, BaseProperties
<1>2. /\ prod.words \in Seq(Word) /\ Len(prod.words) = n /\ prod.out \in Word
      /\ P \in Seq(Word) /\ Len(P) = n + 1 /\ ToNat(P) = q * ToNat(v)
  BY ScaledRow
<1>3. r = Ripple(col, 0)
  BY DEF MulSub
<1>4. W \in Seq(Word) /\ Len(W) = n + 1 /\ \A k \in 1 .. n + 1 : W[k] = u[j + k]
  <2>1. n + 1 \in Nat
    BY <1>1
  <2>2. QED
    BY <2>1, WordPart
<1>5. \A k \in 1 .. n + 1 : P[k] = IF k <= n THEN prod.words[k] ELSE prod.out
  <2> HIDE DEF prod
  <2>1. QED
    BY <1>1, <1>2
<1> HIDE DEF prod, P, W, r, B
<1>6. \A k \in 1 .. n + 1 : W[k] \in Int /\ P[k] \in Int /\ 0 <= W[k] /\ W[k] < B /\ 0 <= P[k] /\ P[k] < B
  <2>1. \A k \in 1 .. n + 1 : W[k] \in Nat /\ W[k] < B
    BY <1>4, WordsProperties DEF B
  <2>2. \A k \in 1 .. n + 1 : P[k] \in Nat /\ P[k] < B
    BY <1>2, WordsProperties DEF B
  <2>3. QED
    BY <2>1, <2>2
<1>7. col = [k \in 1 .. n + 1 |-> W[k] - P[k]]
  BY <1>4, <1>5
<1> HIDE DEF col
<1>8. col \in Seq(Int) /\ Len(col) = n + 1 /\ \A k \in 1 .. n + 1 : col[k] = W[k] - P[k]
  BY <1>1, <1>6, <1>7
<1>9. ToNat(col) = ToNat(W) - ToNat(P)
  <2>1. W \in Seq(Int)
    BY <1>4, WordsProperties
  <2>2. P \in Seq(Int)
    BY <1>2, WordsProperties
  <2>3. QED
    <3>1. Len(W) = Len(col) /\ Len(P) = Len(col) /\ col \in Seq(Int)
      BY <1>2, <1>4, <1>8
    <3>2. \A k \in 1 .. Len(col) : col[k] = W[k] - P[k]
      BY <1>8
    <3>3. QED
      BY ONLY <2>1, <2>2, <3>1, <3>2, ToNatDifference
<1>10. /\ r.words \in Seq(Word) /\ Len(r.words) = n + 1 /\ r.out \in Int
       /\ ToNat(Append(r.words, r.out)) = ToNat(col) + 0
  <2> DEFINE zero == 0
  <2>1. zero \in Int
    OBVIOUS
  <2> HIDE DEF zero
  <2>2. LET s == Ripple(col, zero)
        IN  /\ s.words \in Seq(Word) /\ Len(s.words) = Len(col) /\ s.out \in Int
            /\ ToNat(Append(s.words, s.out)) = ToNat(col) + zero
    BY <1>8, <2>1, RippleExact
  <2>3. QED
    BY <1>3, <1>8, <2>2 DEF zero
<1>11. -1 <= r.out /\ r.out <= 0
  <2> DEFINE l == -1
             h == 0
             zero == 0
  <2>1. /\ l \in Int /\ h \in Int /\ zero \in Int /\ l <= zero /\ zero <= h
        /\ l * B - l = 1 - B /\ h * B + WordMax - h = B - 1
    BY <1>1
  <2>2. ASSUME NEW i \in 1 .. Len(col)
        PROVE  l * B - l <= col[i] /\ col[i] <= h * B + WordMax - h
    <3> DEFINE x == W[i]
               y == P[i]
    <3>1. i \in 1 .. n + 1
      BY <1>8
    <3>2. x \in Int /\ y \in Int /\ 0 <= x /\ x < B /\ 0 <= y /\ y < B /\ col[i] = x - y
      BY <1>6, <1>8, <3>1
    <3> HIDE DEF x, y, l, h
    <3>3. 1 - B <= x - y /\ x - y <= B - 1
      BY <1>1, <3>2
    <3>4. QED
      BY <2>1, <3>2, <3>3
  <2> HIDE DEF l, h, zero
  <2>3. l <= Ripple(col, zero).out /\ Ripple(col, zero).out <= h
    BY <1>8, <2>1, <2>2, RippleRange DEF B
  <2>4. QED
    BY <1>3, <2>3 DEF l, h, zero
<1>12. r.out \in {-1, 0}
  BY <1>10, <1>11
<1>13. ToNat(col) \in Int
  BY <1>8, ToNatType
<1>14. ToNat(Append(r.words, r.out)) = ToNat(W) - q * ToNat(v)
  BY <1>2, <1>9, <1>10, <1>13
<1>15. QED
  BY <1>10, <1>12, <1>14 DEF r, W, Window, n
-----------------------------------------------------------------------------
(* One more word on top.                                                   *)
LEMMA ToNatAppend ==
  ASSUME NEW a \in Seq(Int), NEW x \in Int, NEW n \in Nat, NEW w, Weights(w, n), Len(a) <= n
  PROVE  /\ Append(a, x) \in Seq(Int)
         /\ ToNat(Append(a, x)) = ToNat(a) + w[Len(a)] * x
<1> DEFINE hi == <<x>>
           c == Append(a, x)
           one == 1
<1>1. Len(a) \in Nat
  OBVIOUS
<1>2. c \in Seq(Int) /\ Len(c) = Len(a) + 1 /\ c[Len(a) + 1] = x
  OBVIOUS
<1>3. \A i \in 1 .. Len(a) : c[i] = a[i]
  OBVIOUS
<1>4. hi \in Seq(Int) /\ Len(hi) = one /\ hi[1] = x
  OBVIOUS
<1> HIDE DEF c, hi
<1>5. \A i \in 1 .. Len(hi) : c[Len(a) + i] = hi[i]
  <2>1. \A i \in 1 .. Len(hi) : i = 1
    BY <1>4
  <2>2. QED
    BY <1>2, <1>4, <2>1
<1>6. Parts(c, a, hi)
  BY <1>2, <1>3, <1>4, <1>5 DEF Parts
<1>7. ToNat(c) = ToNat(a) + w[Len(a)] * ToNat(hi)
  BY ONLY <1>6, ToNatParts, n \in Nat, Weights(w, n), Len(a) <= n
<1>8. ToNat(hi) = x
  BY <1>4, ToNatSingle
<1>9. QED
  BY <1>2, <1>7, <1>8 DEF c

(* The divisor is added back once.                                         *)
NextBack(v, p) ==
  LET s == Ripple([k \in 1 .. Len(v) + 1 |-> p.words[k] + Digit(v, k)], 0)
  IN  [words |-> s.words, borrow |-> p.borrow + s.out, q |-> p.q - 1]

(* A state of the correction of a digit: x less q times the divisor.       *)
BackState(v, x, q, p) ==
  /\ p \in [words : Seq(Word), borrow : Int, q : Int]
  /\ Len(p.words) = Len(v) + 1 /\ p.q = q
  /\ ToNat(Append(p.words, p.borrow)) = x - q * ToNat(v)

(* Adding back leads from one to the next.                                 *)
LEMMA NextBackExact ==
  ASSUME NEW v \in Seq(Word), NEW x \in Int, NEW q \in Int, NEW p, BackState(v, x, q, p)
  PROVE  BackState(v, x, q - 1, NextBack(v, p))
<1> DEFINE n == Len(v)
           a == p.words
           d == Digits(v, n + 1)
           col == [k \in 1 .. n + 1 |-> p.words[k] + Digit(v, k)]
           s == Ripple(col, 0)
           r == NextBack(v, p)
<1>1. /\ a \in Seq(Word) /\ p.borrow \in Int /\ Len(a) = n + 1 /\ p.q = q /\ n \in Nat
      /\ ToNat(Append(a, p.borrow)) = x - q * ToNat(v)
  BY WordsProperties DEF BackState
<1>2. r = [words |-> s.words, borrow |-> p.borrow + s.out, q |-> p.q - 1]
  BY DEF NextBack
<1>3. /\ d \in Seq(Word) /\ Len(d) = n + 1 /\ ToNat(d) = ToNat(v)
      /\ \A i \in 1 .. n + 1 : d[i] = Digit(v, i)
  <2>1. n + 1 \in Nat /\ n <= n + 1
    BY <1>1
  <2>2. QED
    BY <2>1, DigitsProperties
<1>4. a \in Seq(Int) /\ \A i \in 1 .. n + 1 : a[i] \in Int
  BY <1>1, WordsProperties
<1>5. d \in Seq(Int) /\ \A i \in 1 .. n + 1 : d[i] \in Int
  BY <1>3, WordsProperties
<1>6. col = [k \in 1 .. n + 1 |-> a[k] + d[k]]
  BY <1>3
<1> HIDE DEF col, d, r
<1>7. col \in Seq(Int) /\ Len(col) = n + 1 /\ \A k \in 1 .. n + 1 : col[k] = a[k] + d[k]
  <2>1. \A k \in 1 .. n + 1 : a[k] + d[k] \in Int
    BY <1>4, <1>5
  <2>2. n + 1 \in Nat
    BY <1>1
  <2> HIDE DEF a
  <2>3. QED
    BY <1>6, <2>1, <2>2
<1>8. ToNat(col) = ToNat(a) + ToNat(v) /\ ToNat(col) \in Int
  <2>1. Len(a) = Len(col) /\ Len(d) = Len(col) /\ \A k \in 1 .. Len(col) : col[k] = a[k] + d[k]
    BY <1>1, <1>3, <1>7
  <2>2. col \in Seq(Int)
    BY <1>7
  <2> HIDE DEF a
  <2>3. ToNat(col) = ToNat(a) + ToNat(d)
    BY ONLY <1>4, <1>5, <2>1, <2>2, ToNatSum
  <2>4. QED
    BY <1>3, <2>2, <2>3, ToNatType
<1>9. /\ s.words \in Seq(Word) /\ Len(s.words) = n + 1 /\ s.out \in Int
      /\ ToNat(Append(s.words, s.out)) = ToNat(col) + 0
  <2> DEFINE zero == 0
  <2>1. zero \in Int
    OBVIOUS
  <2> HIDE DEF zero
  <2>2. LET t == Ripple(col, zero)
        IN  /\ t.words \in Seq(Word) /\ Len(t.words) = Len(col) /\ t.out \in Int
            /\ ToNat(Append(t.words, t.out)) = ToNat(col) + zero
    BY <1>7, <2>1, RippleExact
  <2>3. QED
    BY <1>7, <2>2 DEF zero
<1> HIDE DEF s
<1> DEFINE y == s.words
           o == s.out
           c == p.borrow
<1>10. PICK w : Weights(w, n + 1)
  <2>1. n + 1 \in Nat
    BY <1>1
  <2>2. QED
    BY <2>1, WeightsExist
<1>11. y \in Seq(Int)
  BY <1>9, WordsProperties
<1>12. ToNat(a) \in Int /\ ToNat(y) \in Int /\ ToNat(v) \in Int /\ w[n + 1] \in Int
  <2>1. v \in Seq(Int)
    BY WordsProperties
  <2>2. n + 1 \in Nat /\ n + 1 \in 0 .. n + 1
    BY <1>1
  <2>3. w[n + 1] \in Int
    BY <1>10, <2>2, WeightsPositive
  <2>4. QED
    BY <1>4, <1>11, <2>1, <2>3, ToNatType
<1> HIDE DEF a, y, o, c
<1>13. ASSUME NEW e \in Seq(Int), Len(e) = n + 1, NEW z \in Int
       PROVE  ToNat(Append(e, z)) = ToNat(e) + w[n + 1] * z
  <2>1. n + 1 \in Nat /\ Len(e) <= n + 1
    BY <1>1, <1>13
  <2>2. QED
    BY <1>10, <1>13, <2>1, ToNatAppend
<1>14. ToNat(Append(a, c)) = ToNat(a) + w[n + 1] * c /\ c \in Int
  BY <1>1, <1>4, <1>13 DEF c, a
<1>15. ToNat(Append(y, o)) = ToNat(y) + w[n + 1] * o /\ o \in Int
  BY <1>9, <1>11, <1>13 DEF y, o
<1>16. ToNat(Append(y, c + o)) = ToNat(y) + w[n + 1] * (c + o) /\ c + o \in Int
  BY <1>9, <1>11, <1>13, <1>14, <1>15 DEF y
<1>17. ToNat(Append(y, c + o)) = x - (q - 1) * ToNat(v)
  <2> DEFINE W == w[n + 1]
             V == ToNat(v)
             A == ToNat(a)
             Y == ToNat(y)
  <2>1. W \in Int /\ V \in Int /\ A \in Int /\ Y \in Int
    BY <1>12
  <2>2. A + W * c = x - q * V
    BY <1>1, <1>14 DEF a, c
  <2>3. Y + W * o = A + V
    BY <1>8, <1>9, <1>12, <1>15 DEF y, o
  <2>4. ToNat(Append(y, c + o)) = Y + W * (c + o)
    BY <1>16
  <2> HIDE DEF W, V, A, Y
  <2>5. W * (c + o) = W * c + W * o /\ (q - 1) * V = q * V - V
    BY <1>14, <1>15, <2>1
  <2> DEFINE g == W * c
             h == W * o
             k == q * V
  <2>6. g \in Int /\ h \in Int /\ k \in Int
    BY <1>14, <1>15, <2>1
  <2>7. A + g = x - k /\ Y + h = A + V
    BY <2>2, <2>3
  <2>8. Y + W * (c + o) = Y + (g + h) /\ x - (q - 1) * V = x - (k - V)
    BY <2>5
  <2> HIDE DEF g, h, k
  <2>9. Y + (g + h) = x - (k - V)
    BY <2>1, <2>6, <2>7
  <2>10. QED
    BY <2>4, <2>8, <2>9 DEF V
<1>18. r = [words |-> y, borrow |-> c + o, q |-> q - 1]
  BY <1>1, <1>2 DEF y, c, o
<1>19. /\ r \in [words : Seq(Word), borrow : Int, q : Int]
       /\ r.words = y /\ r.borrow = c + o /\ r.q = q - 1
  <2>1. y \in Seq(Word) /\ c + o \in Int /\ q - 1 \in Int
    BY <1>9, <1>16 DEF y
  <2>2. QED
    BY <1>18, <2>1
<1>20. Len(y) = n + 1
  BY <1>9 DEF y
<1>21. BackState(v, x, q - 1, r)
  BY <1>17, <1>19, <1>20 DEF BackState
<1>22. QED
  BY <1>21 DEF r

(* f are the states of the correction of a digit.                          *)
BackOf(rest, v, q, f) ==
  /\ f[0] = [words |-> rest.words, borrow |-> rest.out, q |-> q]
  /\ \A t \in 1 .. Base : f[t] = NextBack(v, f[t - 1])
  /\ AddBack(rest, v, q) = f[Min({t \in 0 .. Base : f[t].borrow >= 0})]

(* The loop of the correction is such a sequence.                          *)
LEMMA AddBackUnfolds ==
  ASSUME NEW v \in Seq(Word), NEW x \in Int, NEW q \in Int, NEW rest,
         BackState(v, x, q, [words |-> rest.words, borrow |-> rest.out, q |-> q])
  PROVE  \E f : BackOf(rest, v, q, f) /\ \A t \in 0 .. Base : BackState(v, x, q - t, f[t])
<1> DEFINE n == Base
           S == [words : Seq(Word), borrow : Int, q : Int]
           base == [words |-> rest.words, borrow |-> rest.out, q |-> q]
           I == [t \in 0 .. n |-> {p \in S : BackState(v, x, q - t, p)}]
           step == [p \in S \X (1 .. n) |-> NextBack(v, p[1])]
           Eqn(f) == f = [t \in 0 .. n |-> IF t = 0 THEN base ELSE NextBack(v, f[t - 1])]
           f0 == CHOOSE f : Eqn(f)
<1>1. AddBack(rest, v, q) = f0[Min({t \in 0 .. n : f0[t].borrow >= 0})]
  BY DEF AddBack, NextBack
<1>2. n \in Nat
  BY BaseProperties
<1> HIDE DEF n, base
<1>3. BackState(v, x, q, base)
  BY DEF base
<1>4. \A y, p : BackState(v, x, y, p) => p \in S
  BY DEF BackState
<1> HIDE DEF S
<1>5. \A t \in 0 .. n : I[t] = {p \in S : BackState(v, x, q - t, p)}
  OBVIOUS
<1>6. I \in [0 .. n -> SUBSET S]
  OBVIOUS
<1> HIDE DEF I
<1>7. base \in I[0]
  <2>1. q - 0 = q /\ 0 \in 0 .. n
    BY <1>2
  <2>2. QED
    BY <1>3, <1>4, <1>5, <2>1
<1>8. ASSUME NEW t \in 1 .. n, NEW p, BackState(v, x, q - (t - 1), p)
      PROVE  BackState(v, x, q - t, NextBack(v, p))
  <2>1. q - (t - 1) \in Int /\ (q - (t - 1)) - 1 = q - t
    BY <1>2
  <2> DEFINE y == q - (t - 1)
  <2>2. y \in Int /\ y - 1 = q - t /\ BackState(v, x, y, p)
    BY <1>8, <2>1
  <2> HIDE DEF y
  <2>3. BackState(v, x, y - 1, NextBack(v, p))
    BY <2>2, NextBackExact
  <2>4. QED
    BY <2>2, <2>3
<1>9. ASSUME NEW t \in 1 .. n, NEW p \in I[t - 1] PROVE step[<<p, t>>] \in I[t]
  <2>1. t - 1 \in 0 .. n /\ t \in 0 .. n
    BY <1>2
  <2>2. p \in S /\ BackState(v, x, q - (t - 1), p)
    BY <1>5, <2>1
  <2>3. step[<<p, t>>] = NextBack(v, p)
    BY <2>2
  <2>4. BackState(v, x, q - t, NextBack(v, p))
    BY <1>8, <2>2
  <2>5. QED
    BY <1>4, <1>5, <2>1, <2>3, <2>4
<1>10. \A p \in S : \A t \in 1 .. n : step[<<p, t>>] = NextBack(v, p)
  OBVIOUS
<1> HIDE DEF step
<1>11. Keeps(I, n, base, step)
  BY <1>7, <1>9 DEF Keeps
<1>12. PICK f \in [0 .. n -> S] : Unfolds(f, n, base, step) /\ \A t \in 0 .. n : f[t] \in I[t]
  BY <1>2, <1>6, <1>11, GuardedRecursion
<1>13. Eqn(f)
  <2>1. \A t \in 1 .. n : f[t - 1] \in S
    <3>1. \A t \in 1 .. n : t - 1 \in 0 .. n
      BY <1>2
    <3>2. QED
      BY <3>1
  <2>2. \A t \in 1 .. n : f[t] = NextBack(v, f[t - 1])
    BY <1>10, <1>12, <2>1 DEF Unfolds
  <2>3. f[0] = base
    BY <1>12 DEF Unfolds
  <2>4. \A t \in 0 .. n : t # 0 => t \in 1 .. n
    BY <1>2
  <2>5. f = [t \in 0 .. n |-> f[t]]
    OBVIOUS
  <2>6. \A t \in 0 .. n : f[t] = IF t = 0 THEN base ELSE NextBack(v, f[t - 1])
    BY <2>2, <2>3, <2>4
  <2>7. QED
    BY <2>5, <2>6
<1>14. Eqn(f0)
  <2> HIDE DEF Eqn
  <2>1. QED
    BY <1>13
<1> HIDE DEF f0
<1>15. f0[0] = base /\ \A t \in 1 .. n : f0[t] = NextBack(v, f0[t - 1])
  <2>1. 0 \in 0 .. n /\ \A t \in 1 .. n : t \in 0 .. n /\ t # 0
    BY <1>2
  <2>2. QED
    BY <1>14, <2>1
<1>16. BackOf(rest, v, q, f0)
  BY <1>1, <1>15 DEF BackOf, n, base
<1> DEFINE T == {t \in 0 .. n : BackState(v, x, q - t, f0[t])}
<1>17. 0 \in T
  <2>1. q - 0 = q /\ 0 \in 0 .. n
    BY <1>2
  <2>2. QED
    BY <1>3, <1>15, <2>1
<1>18. ASSUME NEW t \in 0 .. n - 1, t \in T PROVE t + 1 \in T
  <2>1. t + 1 \in 1 .. n /\ t + 1 \in 0 .. n /\ (t + 1) - 1 = t
    BY <1>2
  <2>2. BackState(v, x, q - ((t + 1) - 1), f0[t])
    BY <1>18, <2>1
  <2>3. f0[t + 1] = NextBack(v, f0[t])
    BY <1>15, <2>1
  <2>4. BackState(v, x, q - (t + 1), f0[t + 1])
    BY <1>8, <2>1, <2>2, <2>3
  <2>5. QED
    BY <2>1, <2>4
<1> HIDE DEF T
<1>19. \A t \in 0 .. n : t \in T
  BY <1>2, <1>17, <1>18, UpTo
<1>20. \A t \in 0 .. n : BackState(v, x, q - t, f0[t])
  BY <1>19 DEF T
<1>21. QED
  BY <1>16, <1>20 DEF n

(* q times the divisor subtracted from x, d the digit of x, and the state  *)
(* in which x is reduced by d.                                             *)
RestOf(rest, v, x, q) ==
  /\ rest.words \in Seq(Word) /\ Len(rest.words) = Len(v) + 1 /\ rest.out \in Int
  /\ ToNat(Append(rest.words, rest.out)) = x - q * ToNat(v)

DigitOf(x, v, d) == d * ToNat(v) <= x /\ x < (d + 1) * ToNat(v)

Corrected(b, v, x, d) ==
  /\ b.q = d /\ b.words \in Seq(Word) /\ Len(b.words) = Len(v) + 1
  /\ ToNat(b.words) = x - d * ToNat(v)
  /\ b.words[Len(v) + 1] = 0

(* The correction ends with the true digit d, and leaves the remainder.    *)
LEMMA AddBackExact ==
  ASSUME NEW v \in Seq(Word), NEW x \in Int, NEW q \in 0 .. Base, NEW d \in 0 .. q,
         NEW rest, RestOf(rest, v, x, q), DigitOf(x, v, d)
  PROVE  Corrected(AddBack(rest, v, q), v, x, d)
<1> DEFINE n == Len(v)
           V == ToNat(v)
           p0 == [words |-> rest.words, borrow |-> rest.out, q |-> q]
           b == AddBack(rest, v, q)
<1>1. Base \in Nat /\ q \in Int /\ q \in Nat /\ q <= Base /\ d \in Nat /\ d <= q /\ n \in Nat
  BY BaseProperties
<1>2. BackState(v, x, q, p0)
  <2>1. p0 \in [words : Seq(Word), borrow : Int, q : Int]
    BY <1>1 DEF RestOf
  <2>2. p0.words = rest.words /\ p0.borrow = rest.out /\ p0.q = q
    OBVIOUS
  <2> HIDE DEF p0
  <2>3. QED
    BY <2>1, <2>2 DEF BackState, RestOf
<1>3. PICK f : BackOf(rest, v, q, f) /\ \A t \in 0 .. Base : BackState(v, x, q - t, f[t])
  BY <1>1, <1>2, AddBackUnfolds
<1> DEFINE S == {t \in 0 .. Base : f[t].borrow >= 0}
           m == q - d
<1>4. V \in Int
  BY WordsProperties, ToNatType
<1> HIDE DEF n, V
<1>5. ASSUME NEW t \in 0 .. Base
      PROVE  /\ f[t].words \in Seq(Word) /\ Len(f[t].words) = n + 1 /\ f[t].borrow \in Int
             /\ f[t].q = q - t
             /\ ToNat(Append(f[t].words, f[t].borrow)) = x - (q - t) * V
  BY <1>3 DEF BackState, n, V
<1>6. PICK w : Weights(w, n + 1)
  <2>1. n + 1 \in Nat
    BY <1>1
  <2>2. QED
    BY <2>1, WeightsExist
<1>7. w[n + 1] \in Nat /\ w[n + 1] >= 1
  <2>1. n + 1 \in Nat /\ n + 1 \in 0 .. n + 1
    BY <1>1
  <2>2. QED
    BY <1>6, <2>1, WeightsPositive
<1>8. V < w[n + 1]
  <2>1. n + 1 \in Nat /\ n + 1 \in 0 .. n + 1 /\ Len(v) <= n + 1
    BY <1>1 DEF n
  <2>2. QED
    BY <1>6, <2>1, ToNatBound DEF V
<1>9. ASSUME NEW t \in 0 .. Base
      PROVE  /\ ToNat(f[t].words) \in Nat
             /\ ToNat(f[t].words) + w[n + 1] * f[t].borrow = x - (q - t) * V
  <2> DEFINE e == f[t].words
             z == f[t].borrow
  <2>1. e \in Seq(Word) /\ Len(e) = n + 1 /\ z \in Int /\ ToNat(Append(e, z)) = x - (q - t) * V
    BY <1>5
  <2> HIDE DEF e, z
  <2>2. e \in Seq(Int) /\ n + 1 \in Nat /\ Len(e) <= n + 1
    BY <1>1, <2>1, WordsProperties
  <2>3. ToNat(Append(e, z)) = ToNat(e) + w[n + 1] * z
    BY <1>6, <2>1, <2>2, ToNatAppend
  <2>4. ToNat(e) \in Nat
    BY <2>1, WordsProperties, ToNatPositive
  <2>5. QED
    BY <2>1, <2>3, <2>4 DEF e, z
<1>10. m \in 0 .. Base /\ q - m = d
  BY <1>1
<1>11. d * V \in Int /\ d * V <= x /\ x < d * V + V
  <2>1. d * V \in Int /\ (d + 1) * V = d * V + V
    BY <1>1, <1>4
  <2>2. QED
    BY <2>1 DEF V, DigitOf
<1>12. f[m].borrow = 0
  <2> DEFINE Y == ToNat(f[m].words)
             z == f[m].borrow
             W == w[n + 1]
             r == x - d * V
  <2>1. Y \in Nat /\ z \in Int /\ Y + W * z = r /\ W \in Nat /\ W >= 1
    BY <1>5, <1>7, <1>9, <1>10
  <2>2. r \in Nat /\ r < W
    <3> DEFINE g == d * V
    <3>1. g \in Int /\ g <= x /\ x < g + V
      BY <1>11
    <3> HIDE DEF g
    <3>2. x - g \in Nat /\ x - g < V
      BY <1>4, <3>1
    <3>3. x - g < w[n + 1]
      BY <1>4, <1>7, <1>8, <3>2
    <3>4. QED
      BY <3>2, <3>3 DEF g
  <2>3. z < 0 => r < 0
    <3>1. SUFFICES ASSUME z < 0 PROVE r < 0
      OBVIOUS
    <3>2. z <= -1
      BY <2>1, <3>1
    <3>3. ToNat(Append(f[m].words, f[m].borrow)) <= -1
      BY <1>5, <1>10, <3>2, NegativeTop
    <3>4. ToNat(Append(f[m].words, f[m].borrow)) = r
      BY <1>5, <1>10
    <3> HIDE DEF r
    <3>5. QED
      BY <2>2, <3>3, <3>4
  <2> HIDE DEF Y, z, W, r
  <2>4. z >= 1 => W * z >= W
    BY <2>1
  <2>5. ~(z < 0)
    BY <2>2, <2>3
  <2>6. ~(z >= 1)
    <3>1. SUFFICES ASSUME z >= 1 PROVE FALSE
      OBVIOUS
    <3> DEFINE g == W * z
    <3>2. g \in Int /\ g >= W /\ Y + g = r
      BY <2>1, <2>4, <3>1
    <3> HIDE DEF g
    <3>3. QED
      BY <2>1, <2>2, <3>2
  <2>7. z = 0
    BY <2>1, <2>5, <2>6
  <2>8. QED
    BY <2>7 DEF z
<1>13. m \in S
  BY <1>10, <1>12
<1>14. ASSUME NEW t \in S PROVE m <= t
  <2>1. t \in 0 .. Base /\ f[t].borrow >= 0
    OBVIOUS
  <2>2. SUFFICES ASSUME t + 1 <= m PROVE FALSE
    BY <1>1, <2>1
  <2> DEFINE Y == ToNat(f[t].words)
             z == f[t].borrow
             W == w[n + 1]
             k == q - t
  <2>3. Y \in Nat /\ z \in Int /\ z >= 0 /\ Y + W * z = x - k * V /\ W \in Nat
    BY <1>5, <1>7, <1>9, <2>1
  <2>4. k \in Int /\ k >= d + 1
    BY <1>1, <2>1, <2>2
  <2> HIDE DEF Y, z, W, k
  <2>5. V >= 1
    <3> DEFINE g == d * V
    <3>1. g \in Int /\ g <= x /\ x < g + V
      BY <1>11
    <3> HIDE DEF g
    <3>2. QED
      BY <1>4, <3>1
  <2>6. k * V >= (d + 1) * V /\ (d + 1) * V = d * V + V /\ k * V \in Int
    BY <1>1, <1>4, <2>4, <2>5
  <2>7. W * z >= 0 /\ W * z \in Int
    BY <2>3
  <2> DEFINE g == W * z
             h == k * V
             e == d * V
  <2>8. g >= 0 /\ g \in Int /\ h \in Int /\ e \in Int /\ h >= e + V /\ x < e + V /\ Y + g = x - h
    BY <1>11, <2>3, <2>6, <2>7
  <2> HIDE DEF g, h, e
  <2>9. QED
    BY <1>4, <2>3, <2>8
<1>15. S \subseteq Int
  BY <1>1
<1>16. Min(S) = m
  <2> HIDE DEF S, m
  <2>1. QED
    BY <1>13, <1>14, <1>15, MinIs
<1>17. b = f[m]
  BY <1>3, <1>16 DEF BackOf
<1>18. /\ b.q = d /\ b.words \in Seq(Word) /\ Len(b.words) = n + 1
       /\ ToNat(b.words) + w[n + 1] * 0 = x - d * V
       /\ ToNat(b.words) \in Nat
  BY <1>5, <1>9, <1>10, <1>12, <1>17
<1>19. ToNat(b.words) = x - d * V
  BY <1>7, <1>18
<1>20. b.words[n + 1] = 0
  <2> DEFINE e == b.words
  <2>1. e \in Seq(Word) /\ Len(e) = n + 1 /\ ToNat(e) = x - d * V /\ ToNat(e) \in Nat
    BY <1>18, <1>19
  <2> HIDE DEF e
  <2>2. SUFFICES ASSUME e[n + 1] # 0 PROVE FALSE
    BY DEF e
  <2>3. Trimmed(e)
    BY <2>1, <2>2 DEF Trimmed
  <2>4. Len(v) < Len(e)
    BY <1>1, <2>1 DEF n
  <2>5. V < ToNat(e)
    BY <2>1, <2>3, <2>4, ShorterLess DEF V
  <2>6. ToNat(e) < V
    <3> DEFINE g == d * V
    <3>1. g \in Int /\ x < g + V /\ ToNat(e) = x - g
      BY <1>11, <2>1
    <3> HIDE DEF g
    <3>2. QED
      BY <1>4, <3>1
  <2>7. QED
    BY <1>4, <2>1, <2>5, <2>6
<1>21. QED
  BY <1>18, <1>19, <1>20 DEF b, n, V, Corrected
-----------------------------------------------------------------------------
(* A word below n words that are less than v: less than v, one place up.   *)
LEMMA WindowBound ==
  ASSUME NEW v \in Seq(Word), NEW u \in Seq(Word), NEW j \in Nat, j + (Len(v) + 1) <= Len(u),
         ToNat(Part(u, j + 1, Len(v))) < ToNat(v)
  PROVE  Window(u, v, j) \in Nat /\ Window(u, v, j) < Base * ToNat(v)
<1> DEFINE n == Len(v)
           W == Part(u, j, n + 1)
           lo == <<u[j + 1]>>
           hi == Part(u, j + 1, n)
           B == Base
<1>1. n \in Nat /\ n + 1 \in Nat /\ j + 1 \in Nat /\ (j + 1) + n <= Len(u) /\ Len(u) \in Nat
  BY WordsProperties
<1>2. W \in Seq(Word) /\ Len(W) = n + 1 /\ \A k \in 1 .. n + 1 : W[k] = u[j + k]
  BY <1>1, WordPart
<1>3. hi \in Seq(Word) /\ Len(hi) = n /\ \A k \in 1 .. n : hi[k] = u[(j + 1) + k]
  BY <1>1, WordPart
<1>4. B \in Nat /\ u[j + 1] \in Nat /\ u[j + 1] < B
  <2>1. j + 1 \in 1 .. Len(u)
    BY <1>1
  <2>2. QED
    BY <2>1, WordsProperties, BaseProperties
<1>5. lo \in Seq(Int) /\ Len(lo) = 1 /\ lo[1] = u[j + 1]
  BY <1>4
<1> HIDE DEF W, hi, lo, n
<1>6. W \in Seq(Int) /\ hi \in Seq(Int)
  <2>1. W \in Seq(Int)
    BY <1>2, WordsProperties
  <2>2. hi \in Seq(Int)
    BY <1>3, WordsProperties
  <2>3. QED
    BY <2>1, <2>2
<1>7. Parts(W, lo, hi)
  <2>1. Len(W) = Len(lo) + Len(hi)
    BY <1>1, <1>2, <1>3, <1>5
  <2>2. \A i \in 1 .. Len(lo) : W[i] = lo[i]
    <3>1. \A i \in 1 .. Len(lo) : i = 1
      BY <1>5
    <3>2. 1 \in 1 .. n + 1
      BY <1>1
    <3>3. QED
      BY <1>2, <1>5, <3>1, <3>2
  <2>3. \A i \in 1 .. Len(hi) : W[Len(lo) + i] = hi[i]
    <3>1. ASSUME NEW i \in 1 .. n PROVE W[1 + i] = hi[i]
      <4>1. 1 + i \in 1 .. n + 1 /\ j + (1 + i) = (j + 1) + i
        BY <1>1
      <4>2. QED
        BY <1>2, <1>3, <4>1
    <3>2. QED
      BY <1>3, <1>5, <3>1
  <2>4. QED
    BY <1>5, <1>6, <2>1, <2>2, <2>3 DEF Parts
<1> DEFINE one == 1
<1>8. one \in Nat /\ Len(lo) <= one
  BY <1>5
<1> HIDE DEF one
<1>9. PICK w : Weights(w, one)
  BY <1>8, WeightsExist
<1>10. ToNat(W) = ToNat(lo) + w[Len(lo)] * ToNat(hi)
  BY ONLY <1>7, <1>8, <1>9, ToNatParts
<1>11. w[1] = B
  <2>1. w[0] = 1 /\ w[1] = w[1 - 1] * Base
    BY <1>9 DEF Weights, one
  <2>2. QED
    BY <1>4, <2>1
<1>12. ToNat(lo) = u[j + 1]
  BY <1>5, ToNatSingle
<1>13. ToNat(hi) \in Nat /\ ToNat(v) \in Nat
  BY <1>3, WordsProperties, ToNatPositive
<1>14. ToNat(hi) < ToNat(v)
  BY DEF hi, n
<1> DEFINE x == ToNat(hi)
           y == ToNat(v)
           z == u[j + 1]
<1>15. x \in Nat /\ y \in Nat /\ x <= y - 1 /\ z \in Nat /\ z < B /\ ToNat(W) = z + B * x
  BY <1>4, <1>5, <1>10, <1>11, <1>12, <1>13, <1>14
<1> HIDE DEF x, y, z, B
<1>16. B * x <= B * (y - 1) /\ B * (y - 1) = B * y - B /\ B * x \in Nat /\ B * y \in Nat
  BY <1>4, <1>15
<1> DEFINE g == B * x
           h == B * y
<1>17. g \in Nat /\ h \in Nat /\ g <= h - B /\ ToNat(W) = z + g
  BY <1>15, <1>16
<1> HIDE DEF g, h
<1>18. ToNat(W) \in Nat /\ ToNat(W) < h
  BY <1>4, <1>15, <1>17
<1>19. QED
  BY <1>18 DEF Window, W, n, h, B, y

(* What the division of u by v has come to when it is at digit j: what is  *)
(* left of u is less than v from word j up, the digits below are still to  *)
(* come, and together they are u.                                          *)
KnuthState(u, v, j, s) ==
  /\ s \in [u : Seq(Word), q : Seq(Word)]
  /\ Len(s.u) = Len(u) /\ Len(s.q) = Len(u) - Len(v)
  /\ \A k \in j + Len(v) + 1 .. Len(u) : s.u[k] = 0
  /\ ToNat(Part(s.u, j, Len(v))) < ToNat(v)
  /\ \A k \in 1 .. j : s.q[k] = 0
  /\ ToNat(s.u) + ToNat(s.q) * ToNat(v) = ToNat(u)

(* Digit j of the quotient.                                                *)
NextKnuth(u, v, j, s) ==
  LET n == Len(v)
      q == QHat(s.u, v, j)
      b == AddBack(MulSub(s.u, v, j, q), v, q)
  IN  [u |-> [i \in DOMAIN u |-> IF i \in j + 1 .. j + n + 1 THEN b.words[i - j] ELSE s.u[i]],
       q |-> [i \in DOMAIN s.q |-> IF i = j + 1 THEN b.q % Base ELSE s.q[i]]]

(* What is left of a window when the digit t has been taken off: b.        *)
Remaining(s, v, j, t, b) ==
  /\ t \in Word
  /\ b.q = t /\ b.words \in Seq(Word) /\ Len(b.words) = Len(v) + 1
  /\ ToNat(b.words) = Window(s, v, j) - t * ToNat(v)
  /\ ToNat(b.words) < ToNat(v)
  /\ b.words[Len(v) + 1] = 0

(* The estimate, the subtraction and the correction find the digit.        *)
LEMMA DigitExact ==
  ASSUME NEW v, Divisor(v), NEW s \in Seq(Word), NEW j \in Nat, j + (Len(v) + 1) <= Len(s),
         ToNat(Part(s, j + 1, Len(v))) < ToNat(v)
  PROVE  LET q == QHat(s, v, j)
         IN  \E t : Remaining(s, v, j, t, AddBack(MulSub(s, v, j, q), v, q))
<1> DEFINE V == ToNat(v)
           X == Window(s, v, j)
           t == X \div V
           q == QHat(s, v, j)
           rest == MulSub(s, v, j, q)
           b == AddBack(rest, v, q)
<1>1. v \in Seq(Word)
  BY DEF Divisor
<1>2. X \in Nat /\ X < Base * V
  BY <1>1, WindowBound
<1>3. V \in Nat
  BY <1>1, WordsProperties, ToNatPositive
<1>4. Base \in Nat /\ Base >= 2 /\ WordMax = Base - 1
  BY BaseProperties
<1> HIDE DEF V, X
<1>5. V >= 1
  BY <1>2, <1>3, <1>4
<1>6. /\ t \in Nat /\ t < Base /\ t * V <= X /\ X < (t + 1) * V
      /\ t * V \in Nat /\ X - t * V < V
  <2> DEFINE B == Base
             r == X % V
  <2>1. t \in Nat /\ r \in Nat /\ r < V /\ X = t * V + r
    BY <1>2, <1>3, <1>5
  <2>2. X < B * V /\ B \in Nat
    BY <1>2, <1>4
  <2> HIDE DEF t, r, B
  <2>3. t * V \in Nat /\ (t + 1) * V = t * V + V /\ B * V \in Nat
    BY <1>3, <2>1, <2>2
  <2>4. t >= B => t * V >= B * V
    BY <1>3, <2>1, <2>2
  <2> DEFINE g == t * V
             h == B * V
  <2>5. g \in Nat /\ h \in Nat /\ X = g + r /\ X < h /\ (t >= B => g >= h)
    BY <2>1, <2>2, <2>3, <2>4
  <2> HIDE DEF g, h
  <2>6. t < B /\ g <= X /\ X < g + V /\ X - g < V
    BY <1>3, <2>1, <2>2, <2>5
  <2>7. QED
    BY <2>1, <2>3, <2>6 DEF g, B
<1> HIDE DEF t
<1>7. q \in t .. Base
  <2>1. Window(s, v, j) < Base * ToNat(v) /\ t * ToNat(v) <= Window(s, v, j)
    BY <1>2, <1>6 DEF X, V
  <2>2. t \in Nat /\ t < Base
    BY <1>6
  <2>3. QED
    BY <2>1, <2>2, QHatBounds
<1> HIDE DEF q
<1>8. q \in 0 .. Base /\ t \in 0 .. q
  BY <1>4, <1>6, <1>7
<1>9. /\ rest.words \in Seq(Word) /\ Len(rest.words) = Len(v) + 1 /\ rest.out \in Int
      /\ ToNat(Append(rest.words, rest.out)) = X - q * V
  BY <1>1, <1>8, MulSubExact DEF X, V
<1> HIDE DEF rest
<1>10. /\ b.q = t /\ b.words \in Seq(Word) /\ Len(b.words) = Len(v) + 1
       /\ ToNat(b.words) = X - t * V
       /\ b.words[Len(v) + 1] = 0
  <2>1. X \in Int
    BY <1>2
  <2>2. DigitOf(X, v, t)
    BY <1>6 DEF DigitOf, V
  <2>3. RestOf(rest, v, X, q)
    BY <1>9 DEF RestOf, V
  <2>4. Corrected(b, v, X, t)
    BY <1>1, <1>8, <2>1, <2>2, <2>3, AddBackExact
  <2>5. QED
    BY <2>4 DEF V, Corrected
<1>11. t \in Word
  BY <1>4, <1>6 DEF Word
<1>12. Remaining(s, v, j, t, b)
  BY <1>6, <1>10, <1>11 DEF Remaining, X, V
<1>13. QED
  BY <1>12 DEF rest, q

(* A digit leads from one state of the division to the next.               *)
LEMMA NextKnuthExact ==
  ASSUME NEW v, Divisor(v), NEW u \in Seq(Word), NEW j \in Nat, j + (Len(v) + 1) <= Len(u),
         NEW s, KnuthState(u, v, j + 1, s)
  PROVE  KnuthState(u, v, j, NextKnuth(u, v, j, s))
<1> DEFINE n == Len(v)
           L == Len(u)
           V == ToNat(v)
           q == QHat(s.u, v, j)
           b == AddBack(MulSub(s.u, v, j, q), v, q)
           bw == b.words
           e == s.u
           f == [i \in DOMAIN u |-> IF i \in j + 1 .. j + n + 1 THEN bw[i - j] ELSE e[i]]
           c == s.q
           d == [i \in DOMAIN s.q |-> IF i = j + 1 THEN b.q % Base ELSE c[i]]
<1>1. n \in Nat /\ n >= 2 /\ v \in Seq(Word) /\ L \in Nat /\ j + (n + 1) <= L
  BY WordsProperties DEF Divisor
<1>2. NextKnuth(u, v, j, s) = [u |-> f, q |-> d]
  BY DEF NextKnuth
<1>3. /\ e \in Seq(Word) /\ c \in Seq(Word) /\ Len(e) = L /\ Len(c) = L - n
      /\ \A k \in (j + 1) + n + 1 .. L : e[k] = 0
      /\ ToNat(Part(e, j + 1, n)) < V
      /\ \A k \in 1 .. j + 1 : c[k] = 0
      /\ ToNat(e) + ToNat(c) * V = ToNat(u)
  BY DEF KnuthState
<1>4. \E t : Remaining(e, v, j, t, b)
  <2>1. e \in Seq(Word) /\ j + (Len(v) + 1) <= Len(e) /\ ToNat(Part(e, j + 1, Len(v))) < ToNat(v)
    BY <1>1, <1>3
  <2> HIDE DEF e
  <2>2. LET p == QHat(e, v, j)
        IN  \E t : Remaining(e, v, j, t, AddBack(MulSub(e, v, j, p), v, p))
    BY <2>1, DigitExact
  <2>3. QED
    BY <2>2 DEF e
<1>5. DOMAIN u = 1 .. L /\ DOMAIN s.q = 1 .. L - n
  BY <1>1, <1>3
<1> HIDE DEF b, q, e, c
<1>6. PICK t : Remaining(e, v, j, t, b)
  BY <1>4
<1>7. /\ t \in Word /\ b.q = t /\ bw \in Seq(Word) /\ Len(bw) = n + 1
      /\ ToNat(bw) = Window(e, v, j) - t * V /\ ToNat(bw) < V /\ bw[n + 1] = 0
  BY <1>6 DEF Remaining
<1> HIDE DEF bw, V
<1>8. t \in Nat /\ t % Base = t
  <2>1. Base \in Nat /\ Base >= 2 /\ t \in Nat /\ t < Base
    BY <1>7, BaseProperties DEF Word
  <2> DEFINE B == Base
  <2>2. B \in Nat /\ t < B
    BY <2>1
  <2> HIDE DEF B
  <2>3. t % B = t
    BY <2>1, <2>2
  <2>4. QED
    BY <2>1, <2>3 DEF B
<1>9. /\ f = [i \in 1 .. L |-> IF i \in j + 1 .. j + n + 1 THEN bw[i - j] ELSE e[i]]
      /\ d = [i \in 1 .. L - n |-> IF i = j + 1 THEN t ELSE c[i]]
  BY <1>5, <1>7, <1>8
<1> HIDE DEF f, d
<1>10. f \in Seq(Word) /\ Len(f) = L
  <2>1. ASSUME NEW i \in 1 .. L
        PROVE  (IF i \in j + 1 .. j + n + 1 THEN bw[i - j] ELSE e[i]) \in Word
    <3>1. CASE i \in j + 1 .. j + n + 1
      <4>1. i - j \in 1 .. n + 1
        BY <1>1, <3>1
      <4>2. bw[i - j] \in Word
        BY <1>7, <4>1
      <4>3. QED
        BY <3>1, <4>2
    <3>2. CASE i \notin j + 1 .. j + n + 1
      BY <1>3, <3>2
    <3>3. QED
      BY <3>1, <3>2
  <2>2. QED
    BY <1>1, <1>9, <2>1
<1>11. d \in Seq(Word) /\ Len(d) = L - n
  <2>1. ASSUME NEW i \in 1 .. L - n PROVE (IF i = j + 1 THEN t ELSE c[i]) \in Word
    BY <1>3, <1>7
  <2>2. L - n \in Nat
    BY <1>1
  <2>3. QED
    BY <1>9, <2>1, <2>2
<1>12. e \in Seq(Int) /\ f \in Seq(Int) /\ c \in Seq(Int) /\ d \in Seq(Int) /\ bw \in Seq(Int)
  <2>1. e \in Seq(Int)
    BY <1>3, WordsProperties
  <2>2. f \in Seq(Int)
    BY <1>10, WordsProperties
  <2>3. c \in Seq(Int)
    BY <1>3, WordsProperties
  <2>4. d \in Seq(Int)
    BY <1>11, WordsProperties
  <2>5. bw \in Seq(Int)
    BY <1>7, WordsProperties
  <2>6. QED
    BY <2>1, <2>2, <2>3, <2>4, <2>5
<1>13. /\ \A k \in 1 .. n + 1 : f[j + k] = bw[k]
       /\ \A k \in 1 .. j : f[k] = e[k]
       /\ \A k \in j + (n + 1) + 1 .. L : f[k] = e[k]
  <2>1. ASSUME NEW k \in 1 .. n + 1 PROVE f[j + k] = bw[k]
    <3>1. j + k \in 1 .. L /\ j + k \in j + 1 .. j + n + 1 /\ (j + k) - j = k
      BY <1>1
    <3>2. QED
      BY <1>9, <3>1
  <2>2. ASSUME NEW k \in 1 .. j PROVE f[k] = e[k]
    <3>1. k \in 1 .. L /\ k \notin j + 1 .. j + n + 1
      BY <1>1
    <3>2. QED
      BY <1>9, <3>1
  <2>3. ASSUME NEW k \in j + (n + 1) + 1 .. L PROVE f[k] = e[k]
    <3>1. k \in 1 .. L /\ k \notin j + 1 .. j + n + 1
      BY <1>1
    <3>2. QED
      BY <1>9, <3>1
  <2>4. QED
    BY <2>1, <2>2, <2>3
<1>14. PICK w : Weights(w, L)
  BY <1>1, WeightsExist
<1>15. j <= L /\ w[j] \in Int
  <2>1. j \in 0 .. L
    BY <1>1
  <2>2. QED
    BY <1>1, <1>14, <2>1, WeightsPositive
<1>16. ToNat(f) = ToNat(e) + w[j] * (ToNat(bw) - Window(e, v, j))
  <2> DEFINE l == n + 1
  <2>1. l \in Nat /\ j + l <= L
    BY <1>1
  <2>2. SameOutside(e, f, j, l)
    BY <1>3, <1>10, <1>13, <2>1 DEF SameOutside
  <2>3. Part(f, j, l) = bw
    <3>1. /\ Part(f, j, l) \in Seq(Int) /\ Len(Part(f, j, l)) = l
          /\ \A k \in 1 .. l : Part(f, j, l)[k] = f[j + k]
      <4> HIDE DEF l
      <4>1. QED
        BY <1>10, <1>12, <2>1, IntPart
    <3> DEFINE g == Part(f, j, l)
    <3>2. g \in Seq(Int) /\ Len(g) = Len(bw) /\ \A k \in 1 .. Len(bw) : g[k] = bw[k]
      BY <1>7, <1>13, <3>1
    <3> HIDE DEF g
    <3>3. g = bw
      <4>1. g = [k \in 1 .. Len(bw) |-> g[k]]
        BY <3>2
      <4>2. bw = [k \in 1 .. Len(bw) |-> bw[k]]
        BY <1>12
      <4>3. QED
        BY <3>2, <4>1, <4>2
    <3>4. QED
      BY <3>3 DEF g
  <2>4. Window(e, v, j) = ToNat(Part(e, j, l))
    BY DEF Window
  <2> HIDE DEF l
  <2>5. ToNat(f) = ToNat(e) + w[j] * (ToNat(Part(f, j, l)) - ToNat(Part(e, j, l)))
    BY <1>1, <1>12, <1>14, <1>15, <2>1, <2>2, ToNatWindow
  <2>6. QED
    BY <2>3, <2>4, <2>5
<1>17. ToNat(d) = ToNat(c) + w[j] * t
  <2> DEFINE l == 1
             pd == Part(d, j, l)
             pc == Part(c, j, l)
  <2>1. l \in Nat /\ j + l <= L - n
    BY <1>1
  <2>12. l = 1
    OBVIOUS
  <2>2. /\ \A k \in 1 .. j : d[k] = c[k]
        /\ \A k \in j + l + 1 .. L - n : d[k] = c[k]
        /\ d[j + 1] = t /\ c[j + 1] = 0
    <3>1. /\ \A k \in 1 .. j : k \in 1 .. L - n /\ k # j + 1
          /\ \A k \in j + l + 1 .. L - n : k \in 1 .. L - n /\ k # j + 1
          /\ j + 1 \in 1 .. L - n /\ j + 1 \in 1 .. j + 1
      BY <1>1
    <3>2. QED
      BY <1>3, <1>9, <3>1
  <2>3. SameOutside(c, d, j, l)
    BY <1>3, <1>11, <2>1, <2>2 DEF SameOutside
  <2>4. pd \in Seq(Int) /\ Len(pd) = l /\ \A k \in 1 .. l : pd[k] = d[j + k]
    <3> HIDE DEF l
    <3>1. QED
      BY <1>11, <1>12, <2>1, IntPart
  <2>5. pc \in Seq(Int) /\ Len(pc) = l /\ \A k \in 1 .. l : pc[k] = c[j + k]
    <3> HIDE DEF l
    <3>1. QED
      BY <1>3, <1>12, <2>1, IntPart
  <2>6. pd[1] = t /\ pc[1] = 0
    <3>1. 1 \in 1 .. l
      BY <2>12
    <3>2. QED
      BY <2>2, <2>4, <2>5, <3>1
  <2>7. ToNat(d) = ToNat(c) + w[j] * (ToNat(pd) - ToNat(pc))
    <3> HIDE DEF l
    <3>1. QED
      BY <1>1, <1>12, <1>14, <1>15, <2>1, <2>3, ToNatWindow
  <2> HIDE DEF pd, pc
  <2>8. ToNat(pd) = t /\ ToNat(pc) = 0
    BY <2>12, <2>4, <2>5, <2>6, ToNatSingle
  <2>9. t - 0 = t
    BY <1>8
  <2>10. QED
    BY <2>7, <2>8, <2>9
<1>18. ToNat(f) + ToNat(d) * V = ToNat(u)
  <2> DEFINE E == ToNat(e)
             C == ToNat(c)
             F == ToNat(f)
             D == ToNat(d)
             W == w[j]
             X == Window(e, v, j)
             Y == ToNat(bw)
  <2>1. E \in Int /\ C \in Int /\ F \in Int /\ D \in Int /\ Y \in Int /\ V \in Int /\ W \in Int
    <3>1. v \in Seq(Int)
      BY <1>1, WordsProperties
    <3>2. QED
      BY <1>12, <1>15, <3>1, ToNatType DEF V
  <2>2. X \in Int
    <3>1. e \in Seq(Word) /\ j + (Len(v) + 1) <= Len(e) /\ ToNat(Part(e, j + 1, Len(v))) < ToNat(v)
      BY <1>1, <1>3 DEF V
    <3>2. QED
      BY <1>1, <3>1, WindowBound
  <2>3. F = E + W * (Y - X) /\ D = C + W * t /\ Y = X - t * V /\ E + C * V = ToNat(u)
    BY <1>3, <1>7, <1>16, <1>17
  <2> HIDE DEF E, C, F, D, W, X, Y
  <2>4. t * V \in Int
    BY <1>8, <2>1
  <2> DEFINE g == t * V
  <2>5. g \in Int /\ Y - X = 0 - g
    <3> HIDE DEF g
    <3>1. g \in Int /\ Y = X - g
      BY <2>3, <2>4 DEF g
    <3>2. Y - X = 0 - g
      BY <2>2, <3>1
    <3>3. QED
      BY <3>1, <3>2
  <2>6. (W * t) * V = W * g
    BY <1>8, <2>1
  <2> HIDE DEF g
  <2>7. W * (0 - g) = 0 - W * g /\ W * g \in Int
    BY <2>1, <2>5
  <2>8. (C + W * t) * V = C * V + (W * t) * V
    BY <1>8, <2>1
  <2> DEFINE h == W * g
             k == C * V
  <2>9. h \in Int /\ k \in Int /\ F = E + (0 - h) /\ D * V = k + h /\ E + k = ToNat(u)
    BY <2>1, <2>3, <2>5, <2>6, <2>7, <2>8
  <2> HIDE DEF h, k
  <2>10. F + D * V = ToNat(u)
    BY <2>1, <2>9
  <2>11. QED
    BY <2>10 DEF F, D
<1>19. ASSUME NEW k \in j + n + 1 .. L PROVE f[k] = 0
  <2>1. CASE k = j + n + 1
    <3>1. n + 1 \in 1 .. n + 1 /\ j + (n + 1) = k
      BY <1>1, <2>1
    <3>2. f[j + (n + 1)] = bw[n + 1]
      BY <1>13, <3>1
    <3>3. QED
      BY <1>7, <3>1, <3>2
  <2>2. CASE k # j + n + 1
    <3>1. k \in j + (n + 1) + 1 .. L /\ k \in (j + 1) + n + 1 .. L
      BY <1>1, <2>2
    <3>2. QED
      BY <1>3, <1>13, <3>1
  <2>3. QED
    BY <2>1, <2>2
<1>20. ASSUME NEW k \in 1 .. j PROVE d[k] = 0
  <2>1. k \in 1 .. L - n /\ k # j + 1 /\ k \in 1 .. j + 1
    BY <1>1
  <2>2. QED
    BY <1>3, <1>9, <2>1
<1>21. ToNat(Part(f, j, n)) < V
  <2> DEFINE g == Part(f, j, n)
  <2>1. g \in Seq(Int) /\ Len(g) = n /\ \A k \in 1 .. n : g[k] = f[j + k]
    <3>1. j + n <= L
      BY <1>1
    <3>2. QED
      BY <1>1, <1>10, <1>12, <3>1, IntPart
  <2> HIDE DEF g
  <2>2. Len(g) <= Len(bw)
    BY <1>1, <1>7, <2>1
  <2>3. \A i \in 1 .. Len(g) : bw[i] = g[i]
    <3>1. \A i \in 1 .. n : i \in 1 .. n + 1
      BY <1>1
    <3>2. QED
      BY <1>13, <2>1, <3>1
  <2>4. \A i \in Len(g) + 1 .. Len(bw) : bw[i] = 0
    <3>1. \A i \in Len(g) + 1 .. Len(bw) : i = n + 1
      BY <1>1, <1>7, <2>1
    <3>2. QED
      BY <1>7, <3>1
  <2>5. ToNat(bw) = ToNat(g)
    BY <1>12, <2>1, <2>2, <2>3, <2>4, ToNatPadded
  <2>6. QED
    BY <1>7, <2>5 DEF g
<1>22. [u |-> f, q |-> d] \in [u : Seq(Word), q : Seq(Word)]
  BY <1>10, <1>11
<1> DEFINE r == [u |-> f, q |-> d]
<1>23. r.u = f /\ r.q = d
  OBVIOUS
<1> HIDE DEF r
<1>24. KnuthState(u, v, j, r)
  BY <1>10, <1>11, <1>18, <1>19, <1>20, <1>21, <1>22, <1>23 DEF KnuthState, r, V
<1>25. QED
  BY <1>2, <1>24 DEF r

(* run are the states of the division, from above the top digit down.      *)
RunOf(u, v, m, run) ==
  /\ run[m] = [u |-> u, q |-> [i \in 1 .. m |-> 0]]
  /\ \A j \in 0 .. m - 1 : run[j] = NextKnuth(u, v, j, run[j + 1])
  /\ KnuthLoop(u, v) = run[0]

(* The division starts in such a state.                                    *)
LEMMA KnuthStart ==
  ASSUME NEW v, Divisor(v), NEW u \in Seq(Word), NEW m \in Nat, Len(u) = Len(v) + m,
         m >= 1, u[Len(u)] = 0
  PROVE  KnuthState(u, v, m, [u |-> u, q |-> [i \in 1 .. m |-> 0]])
<1> DEFINE n == Len(v)
           L == Len(u)
           c == [i \in 1 .. m |-> 0]
           s == [u |-> u, q |-> c]
           g == Part(u, m, n)
           h == Part(u, m, n - 1)
<1>1. n \in Nat /\ n >= 2 /\ v \in Seq(Word) /\ L = n + m /\ 2 * v[n] >= Base
  BY WordsProperties DEF Divisor
<1>2. c \in Seq(Word) /\ Len(c) = m /\ \A i \in 1 .. m : c[i] = 0
  <2>1. 0 \in Word
    BY BaseProperties DEF Word
  <2>2. QED
    BY <2>1
<1>3. s \in [u : Seq(Word), q : Seq(Word)]
  BY <1>2
<1>4. s.u = u /\ s.q = c
  OBVIOUS
<1> HIDE DEF c, s
<1>5. ToNat(c) = 0 /\ ToNat(v) \in Int /\ ToNat(u) \in Int
  <2>1. c \in Seq(Int)
    BY <1>2, WordsProperties
  <2>2. v \in Seq(Int)
    BY <1>1, WordsProperties
  <2>3. u \in Seq(Int)
    BY WordsProperties
  <2>4. QED
    BY <1>2, <2>1, <2>2, <2>3, ToNatZeros, ToNatType
<1>6. ToNat(u) + ToNat(c) * ToNat(v) = ToNat(u)
  BY <1>5
<1>7. g \in Seq(Word) /\ Len(g) = n /\ \A k \in 1 .. n : g[k] = u[m + k]
  <2>1. m + n <= Len(u)
    BY <1>1
  <2>2. QED
    BY <1>1, <2>1, WordPart
<1>8. h \in Seq(Word) /\ Len(h) = n - 1 /\ \A k \in 1 .. n - 1 : h[k] = u[m + k]
  <2>1. n - 1 \in Nat /\ m + (n - 1) <= Len(u)
    BY <1>1
  <2>2. QED
    BY <2>1, WordPart
<1> HIDE DEF g, h
<1>9. ToNat(g) = ToNat(h)
  <2>1. g \in Seq(Int)
    BY <1>7, WordsProperties
  <2>2. h \in Seq(Int)
    BY <1>8, WordsProperties
  <2>3. Len(h) <= Len(g)
    BY <1>1, <1>7, <1>8
  <2>4. \A i \in 1 .. Len(h) : g[i] = h[i]
    <3>1. \A i \in 1 .. n - 1 : i \in 1 .. n
      BY <1>1
    <3>2. QED
      BY <1>7, <1>8, <3>1
  <2>5. \A i \in Len(h) + 1 .. Len(g) : g[i] = 0
    <3>1. \A i \in Len(h) + 1 .. Len(g) : i = n
      BY <1>1, <1>7, <1>8
    <3>2. n \in 1 .. n /\ m + n = Len(u)
      BY <1>1
    <3>3. QED
      BY <1>7, <3>1, <3>2
  <2>6. QED
    BY <2>1, <2>2, <2>3, <2>4, <2>5, ToNatPadded
<1>10. ToNat(h) < ToNat(v)
  <2>1. v[n] # 0
    BY <1>1, BaseProperties
  <2>2. Trimmed(v) /\ Len(h) < Len(v)
    BY <1>1, <1>8, <2>1 DEF Trimmed
  <2>3. QED
    BY <1>1, <1>8, <2>2, ShorterLess
<1>11. \A k \in m + n + 1 .. L : u[k] = 0
  BY <1>1
<1>12. L - n = m
  BY <1>1
<1>13. KnuthState(u, v, m, s)
  BY <1>2, <1>3, <1>4, <1>6, <1>9, <1>10, <1>11, <1>12 DEF KnuthState, g
<1>14. QED
  BY <1>13 DEF s, c

(* The loop of the division is such a sequence.                            *)
LEMMA KnuthUnfolds ==
  ASSUME NEW v, Divisor(v), NEW u \in Seq(Word), NEW m \in Nat, Len(u) = Len(v) + m,
         m >= 1, u[Len(u)] = 0
  PROVE  \E run : RunOf(u, v, m, run) /\ KnuthState(u, v, 0, run[0])
<1> DEFINE S == [u : Seq(Word), q : Seq(Word)]
           base == [u |-> u, q |-> [i \in 1 .. m |-> 0]]
           I == [i \in 0 .. m |-> {s \in S : KnuthState(u, v, m - i, s)}]
           step == [p \in S \X (1 .. m) |-> NextKnuth(u, v, m - p[2], p[1])]
           Eqn(f) == f = [j \in 0 .. m |-> IF j = m THEN base ELSE NextKnuth(u, v, j, f[j + 1])]
           f0 == CHOOSE f : Eqn(f)
<1>1. Len(u) - Len(v) - 1 + 1 = m /\ Len(v) \in Nat
  BY WordsProperties DEF Divisor
<1>2. KnuthLoop(u, v) = f0[0]
  BY <1>1 DEF KnuthLoop, NextKnuth
<1> HIDE DEF base
<1>3. KnuthState(u, v, m, base)
  BY KnuthStart DEF base
<1>4. \A j, s : KnuthState(u, v, j, s) => s \in S
  BY DEF KnuthState
<1> HIDE DEF S
<1>5. ASSUME NEW j \in 0 .. m - 1, NEW s, KnuthState(u, v, j + 1, s)
      PROVE  KnuthState(u, v, j, NextKnuth(u, v, j, s))
  <2>1. j \in Nat /\ j + (Len(v) + 1) <= Len(u)
    BY <1>1
  <2>2. QED
    BY <1>5, <2>1, NextKnuthExact
<1>6. \A i \in 0 .. m : I[i] = {s \in S : KnuthState(u, v, m - i, s)}
  OBVIOUS
<1>7. I \in [0 .. m -> SUBSET S]
  OBVIOUS
<1> HIDE DEF I
<1>8. base \in I[0]
  <2>1. m - 0 = m /\ 0 \in 0 .. m
    OBVIOUS
  <2>2. QED
    BY <1>3, <1>4, <1>6, <2>1
<1>9. \A s \in S : \A i \in 1 .. m : step[<<s, i>>] = NextKnuth(u, v, m - i, s)
  OBVIOUS
<1> HIDE DEF step
<1>10. ASSUME NEW i \in 1 .. m, NEW s \in I[i - 1] PROVE step[<<s, i>>] \in I[i]
  <2>1. i - 1 \in 0 .. m /\ i \in 0 .. m /\ m - i \in 0 .. m - 1 /\ m - (i - 1) = (m - i) + 1
    OBVIOUS
  <2>2. s \in S /\ KnuthState(u, v, m - (i - 1), s)
    BY <1>6, <2>1
  <2> DEFINE j == m - i
  <2>3. j \in 0 .. m - 1 /\ KnuthState(u, v, j + 1, s) /\ step[<<s, i>>] = NextKnuth(u, v, j, s)
    BY <1>9, <2>1, <2>2
  <2> HIDE DEF j
  <2>4. KnuthState(u, v, j, NextKnuth(u, v, j, s))
    BY <1>5, <2>3
  <2>5. QED
    BY <1>4, <1>6, <2>1, <2>3, <2>4 DEF j
<1>11. Keeps(I, m, base, step)
  BY <1>8, <1>10 DEF Keeps
<1>12. PICK f \in [0 .. m -> S] : Unfolds(f, m, base, step)
  BY <1>7, <1>11, GuardedRecursion
<1>13. \A i \in 1 .. m : f[i] = NextKnuth(u, v, m - i, f[i - 1])
  <2>1. ASSUME NEW i \in 1 .. m PROVE f[i] = NextKnuth(u, v, m - i, f[i - 1])
    <3>1. i - 1 \in 0 .. m
      OBVIOUS
    <3>2. f[i - 1] \in S
      BY <3>1
    <3>3. f[i] = step[<<f[i - 1], i>>]
      BY <1>12 DEF Unfolds
    <3>4. QED
      BY <1>9, <3>2, <3>3
  <2>2. QED
    BY <2>1
<1>14. f[0] = base
  BY <1>12 DEF Unfolds
<1> DEFINE g == [j \in 0 .. m |-> f[m - j]]
<1>15. Eqn(g)
  <2>1. ASSUME NEW j \in 0 .. m
        PROVE  f[m - j] = IF j = m THEN base ELSE NextKnuth(u, v, j, g[j + 1])
    <3>1. CASE j = m
      <4>1. m - j = 0
        BY <3>1
      <4>2. QED
        BY <1>14, <3>1, <4>1
    <3>2. CASE j # m
      <4>1. m - j \in 1 .. m /\ m - (m - j) = j /\ (m - j) - 1 = m - (j + 1) /\ j + 1 \in 0 .. m
        BY <3>2
      <4>2. f[m - j] = NextKnuth(u, v, m - (m - j), f[(m - j) - 1])
        BY <1>13, <4>1
      <4>3. g[j + 1] = f[m - (j + 1)]
        BY <4>1
      <4> HIDE DEF g
      <4>4. QED
        BY <3>2, <4>1, <4>2, <4>3
    <3>3. QED
      BY <3>1, <3>2
  <2>2. g = [j \in 0 .. m |-> f[m - j]]
    OBVIOUS
  <2> HIDE DEF g
  <2>3. QED
    BY <2>1, <2>2
<1>16. Eqn(f0)
  <2> HIDE DEF Eqn
  <2>1. QED
    BY <1>15
<1> HIDE DEF f0
<1>17. f0[m] = base /\ \A j \in 0 .. m - 1 : f0[j] = NextKnuth(u, v, j, f0[j + 1])
  <2>1. m \in 0 .. m /\ \A j \in 0 .. m - 1 : j \in 0 .. m /\ j # m
    OBVIOUS
  <2>2. QED
    BY <1>16, <2>1
<1>18. RunOf(u, v, m, f0)
  BY <1>2, <1>17 DEF RunOf, base
<1> DEFINE T == {i \in 0 .. m : KnuthState(u, v, m - i, f0[m - i])}
<1>19. 0 \in T
  <2>1. m - 0 = m /\ 0 \in 0 .. m
    OBVIOUS
  <2>2. QED
    BY <1>3, <1>17, <2>1
<1>20. ASSUME NEW i \in 0 .. m - 1, i \in T PROVE i + 1 \in T
  <2> DEFINE j == m - (i + 1)
  <2>1. j \in 0 .. m - 1 /\ j + 1 = m - i /\ i + 1 \in 0 .. m
    OBVIOUS
  <2>2. KnuthState(u, v, m - i, f0[m - i])
    BY <1>20
  <2>3. KnuthState(u, v, j + 1, f0[j + 1])
    BY <2>1, <2>2
  <2>4. i + 1 \in T <=> KnuthState(u, v, j, f0[j])
    BY <2>1
  <2> HIDE DEF j, T
  <2>5. f0[j] = NextKnuth(u, v, j, f0[j + 1])
    BY <1>17, <2>1
  <2>6. KnuthState(u, v, j, f0[j])
    BY <1>5, <2>1, <2>3, <2>5
  <2>7. QED
    BY <2>4, <2>6
<1> HIDE DEF T
<1>21. \A i \in 0 .. m : i \in T
  BY <1>19, <1>20, UpTo
<1>22. KnuthState(u, v, 0, f0[0])
  <2>1. m \in T /\ m - m = 0
    BY <1>21
  <2>2. QED
    BY <2>1 DEF T
<1>23. QED
  BY <1>18, <1>22

(* Algorithm D.                                                            *)
LEMMA KnuthLoopExact ==
  ASSUME NEW v, Divisor(v), NEW u \in Seq(Word), Len(v) < Len(u), u[Len(u)] = 0
  PROVE  LET k == KnuthLoop(u, v)
         IN  /\ k.q \in Seq(Word) /\ Len(k.q) = Len(u) - Len(v)
             /\ k.u \in Seq(Word) /\ Len(k.u) = Len(u)
             /\ \A i \in Len(v) + 1 .. Len(u) : k.u[i] = 0
             /\ ToNat(k.q) = ToNat(u) \div ToNat(v)
             /\ ToNat(k.u) = ToNat(u) % ToNat(v)
<1> DEFINE n == Len(v)
           m == Len(u) - n
           k == KnuthLoop(u, v)
<1>1. v \in Seq(Word) /\ n \in Nat /\ Len(u) \in Nat
  BY WordsProperties DEF Divisor
<1>2. m \in Nat /\ m >= 1 /\ Len(u) = Len(v) + m
  BY <1>1
<1>3. PICK run : RunOf(u, v, m, run) /\ KnuthState(u, v, 0, run[0])
  <2> HIDE DEF m
  <2>1. QED
    BY <1>2, KnuthUnfolds
<1>4. KnuthState(u, v, 0, k)
  BY <1>3 DEF RunOf
<1> HIDE DEF k, m
<1>5. /\ k.u \in Seq(Word) /\ k.q \in Seq(Word) /\ Len(k.u) = Len(u) /\ Len(k.q) = Len(u) - n
      /\ \A i \in 0 + n + 1 .. Len(u) : k.u[i] = 0
      /\ ToNat(Part(k.u, 0, n)) < ToNat(v)
      /\ ToNat(k.u) + ToNat(k.q) * ToNat(v) = ToNat(u)
  BY <1>4 DEF KnuthState
<1>6. ToNat(k.u) = ToNat(Part(k.u, 0, n))
  <2> DEFINE zero == 0
             e == k.u
             g == Part(e, zero, n)
  <2>1. zero \in Nat /\ zero + n <= Len(e) /\ e \in Seq(Word)
    BY <1>1, <1>5
  <2> HIDE DEF zero, e
  <2>2. g \in Seq(Word) /\ Len(g) = n /\ \A i \in 1 .. n : g[i] = e[zero + i]
    BY <1>1, <2>1, WordPart
  <2> HIDE DEF g
  <2>3. g \in Seq(Int) /\ e \in Seq(Int)
    <3>1. g \in Seq(Int)
      BY <2>2, WordsProperties
    <3>2. e \in Seq(Int)
      BY <2>1, WordsProperties
    <3>3. QED
      BY <3>1, <3>2
  <2>4. Len(g) <= Len(e)
    BY <1>1, <1>5, <2>2 DEF e
  <2>5. \A i \in 1 .. Len(g) : e[i] = g[i]
    <3>1. \A i \in 1 .. n : zero + i = i
      BY DEF zero
    <3>2. QED
      BY <2>2, <3>1
  <2>6. \A i \in Len(g) + 1 .. Len(e) : e[i] = 0
    BY <1>1, <1>5, <2>2 DEF e
  <2>7. ToNat(e) = ToNat(g)
    BY <2>3, <2>4, <2>5, <2>6, ToNatPadded
  <2>8. QED
    BY <2>7 DEF e, g, zero
<1>7. ToNat(k.u) \in Nat /\ ToNat(k.q) \in Nat /\ ToNat(v) \in Nat
  <2>1. ToNat(k.u) \in Nat
    BY <1>5, WordsProperties, ToNatPositive
  <2>2. ToNat(k.q) \in Nat
    BY <1>5, WordsProperties, ToNatPositive
  <2>3. ToNat(v) \in Nat
    BY <1>1, WordsProperties, ToNatPositive
  <2>4. QED
    BY <2>1, <2>2, <2>3
<1>8. ToNat(k.q) = ToNat(u) \div ToNat(v) /\ ToNat(k.u) = ToNat(u) % ToNat(v)
  <2> DEFINE V == ToNat(v)
             q == ToNat(k.q)
             r == ToNat(k.u)
  <2>1. V \in Nat /\ q \in Int /\ r \in Int /\ 0 <= r /\ r < V /\ r + q * V = ToNat(u)
    BY <1>5, <1>6, <1>7
  <2> HIDE DEF V, q, r
  <2>2. V >= 1
    BY <2>1
  <2>3. r + q * V = q * V + r
    <3> DEFINE g == q * V
    <3>1. g \in Int
      BY <2>1
    <3> HIDE DEF g
    <3>2. r + g = g + r
      BY <2>1, <3>1
    <3>3. QED
      BY <3>2 DEF g
  <2>4. (q * V + r) \div V = q /\ (q * V + r) % V = r
    BY <2>1, <2>2, DivisionUnique
  <2>5. QED
    BY <2>1, <2>3, <2>4 DEF V, q, r
<1>9. \A i \in n + 1 .. Len(u) : k.u[i] = 0
  BY <1>1, <1>5
<1>10. QED
  BY <1>5, <1>8, <1>9 DEF k
-----------------------------------------------------------------------------
(* The shift that sets the divisor's top bit: less than a word, and the    *)
(* top word stays a word.                                                  *)
LEMMA NormShiftExact ==
  ASSUME NEW v \in Seq(Word), Len(v) >= 1, v[Len(v)] # 0
  PROVE  LET s == NormShift(v)
             t == v[Len(v)] * 2 ^ s
         IN  s \in 0 .. WordBits - 1 /\ t < Base /\ 2 * t >= Base
<1> DEFINE t == v[Len(v)]
           B == Base
           h == 2 ^ (WordBits - 1)
           S == {k \in 0 .. WordBits - 1 : t * 2 ^ k >= B \div 2}
           s == NormShift(v)
<1>1. t \in Nat /\ t >= 1 /\ t < B
  BY WordsProperties
<1>2. B = 2 * h /\ h \in Nat /\ h >= 1 /\ 2 ^ 0 = 1
  BY WordBitsAssumption, PowerAssumption, PowerProperties DEF Base, PowersUpTo
<1>3. \A k \in 1 .. WordBits : 2 ^ k = 2 * 2 ^ (k - 1) /\ 2 ^ (k - 1) \in Nat
  BY WordBitsAssumption, PowerAssumption, PowerProperties DEF PowersUpTo
<1>4. s = Min(S)
  BY DEF NormShift
<1> HIDE DEF s, t, B
<1>5. B \div 2 = h
  BY <1>2
<1>6. WordBits - 1 \in S
  <2> HIDE DEF h
  <2>1. t * h >= h
    BY <1>1, <1>2
  <2>2. t * 2 ^ (WordBits - 1) >= B \div 2
    BY <1>5, <2>1 DEF h
  <2>3. QED
    BY <2>2, WordBitsAssumption
<1> HIDE DEF h
<1>7. s \in S /\ \A y \in S : s <= y
  <2>1. WordBits - 1 \in Nat
    BY WordBitsAssumption
  <2>2. S \subseteq 0 .. WordBits - 1
    BY Zenon
  <2>3. S # {}
    BY <1>6, Zenon
  <2> HIDE DEF S
  <2>4. QED
    BY <1>4, <2>1, <2>2, <2>3, MinProperties
<1>8. s \in 0 .. WordBits - 1 /\ t * 2 ^ s >= h
  BY <1>5, <1>7
<1>9. 2 ^ s \in Nat
  <2>1. s + 1 \in 1 .. WordBits /\ (s + 1) - 1 = s
    BY <1>8, WordBitsAssumption
  <2>2. QED
    BY <1>3, <2>1
<1>10. t * 2 ^ s < B
  <2>1. CASE s = 0
    BY <1>1, <1>2, <2>1
  <2>2. CASE s # 0
    <3>1. s - 1 \in 0 .. WordBits - 1 /\ s \in 1 .. WordBits /\ ~(s <= s - 1)
      BY <1>8, <2>2, WordBitsAssumption
    <3> DEFINE p == 2 ^ (s - 1)
    <3>2. p \in Nat /\ 2 ^ s = 2 * p
      BY <1>3, <3>1
    <3>3. ~(t * p >= B \div 2)
      BY <1>7, <3>1
    <3> HIDE DEF p
    <3>4. t * p < h /\ t * (2 * p) = 2 * (t * p)
      BY <1>1, <1>2, <1>5, <3>2, <3>3
    <3> DEFINE g == t * p
    <3>5. g \in Nat
      BY <1>1, <3>2
    <3>6. g < h /\ t * 2 ^ s = 2 * g
      BY <3>2, <3>4
    <3> HIDE DEF g
    <3>7. 2 * g < 2 * h
      BY <1>2, <3>5, <3>6
    <3>8. QED
      BY <1>2, <3>6, <3>7
  <2>3. QED
    BY <2>1, <2>2
<1>11. 2 * (t * 2 ^ s) >= B
  <2> DEFINE g == t * 2 ^ s
  <2>1. g \in Nat /\ g >= h
    BY <1>1, <1>8, <1>9
  <2> HIDE DEF g
  <2>2. 2 * g >= 2 * h
    BY <1>2, <2>1
  <2>3. QED
    BY <1>2, <2>2 DEF g
<1>12. QED
  BY <1>8, <1>10, <1>11 DEF s, t, B

(* A divisor that moves by its own shift keeps its length: the top bit is  *)
(* set and none leaves.                                                    *)
LEMMA NormalisedDivisor ==
  ASSUME NEW v \in Seq(Word), Len(v) >= 2, v[Len(v)] # 0
  PROVE  LET s == NormShift(v)
             w == IF s = 0 THEN v ELSE ShlMag(v, s)
         IN  Divisor(w) /\ Len(w) = Len(v) /\ ToNat(w) = ToNat(v) * 2 ^ s
<1> DEFINE s == NormShift(v)
           m == Len(v)
           t == v[m]
           P == 2 ^ s
           Q == 2 ^ (WordBits - s)
           B == Base
           w == IF s = 0 THEN v ELSE ShlMag(v, s)
<1>1. s \in 0 .. WordBits - 1 /\ t * P < B /\ 2 * (t * P) >= B
  <2>1. Len(v) >= 1
    OBVIOUS
  <2>2. QED
    BY <2>1, NormShiftExact
<1>2. t \in Nat /\ m \in Nat /\ m >= 2 /\ DOMAIN v = 1 .. m /\ B \in Nat /\ B >= 1
  BY WordsProperties, BaseProperties
<1> HIDE DEF s
<1>3. P \in Nat /\ Q \in Nat /\ P >= 1 /\ Q >= 1 /\ P * Q = B
  BY <1>1, ShiftPowers
<1>4. CASE s = 0
  <2>1. P = 1
    BY <1>4, PowerAssumption DEF PowersUpTo
  <2>2. w = v
    BY <1>4
  <2>3. ToNat(v) \in Nat
    BY WordsProperties, ToNatPositive
  <2>4. ToNat(v) * P = ToNat(v)
    BY <2>1, <2>3
  <2>5. 2 * t >= B
    BY <1>1, <1>2, <2>1
  <2> HIDE DEF w, P
  <2>6. Divisor(w)
    BY <1>2, <2>2, <2>5 DEF Divisor
  <2>7. QED
    BY <2>2, <2>4, <2>6 DEF w, s, P
<1>5. CASE s # 0
  <2>1. s \div WordBits = 0 /\ s % WordBits = s /\ s \in Nat /\ s - 0 = s
    <3>1. s = 0 * WordBits + s /\ WordBits \in Nat /\ WordBits >= 1 /\ s \in Int /\ 0 <= s /\ s < WordBits
      BY <1>1, WordBitsAssumption
    <3>2. (0 * WordBits + s) \div WordBits = 0 /\ (0 * WordBits + s) % WordBits = s
      <4> DEFINE zero == 0
      <4>1. zero \in Int
        OBVIOUS
      <4> HIDE DEF zero
      <4>2. (zero * WordBits + s) \div WordBits = zero /\ (zero * WordBits + s) % WordBits = s
        BY <3>1, <4>1, DivisionUnique
      <4>3. QED
        BY <4>2 DEF zero
    <3>3. QED
      BY <3>1, <3>2
  <2> DEFINE spill(i) == Digit(v, i) \div Q
             len == m + 0 + (IF spill(m) = 0 THEN 0 ELSE 1)
             digit(i) == ((Digit(v, i - 0) * P) % B) + spill(i - 0 - 1)
  <2>2. w = [i \in 1 .. len |-> digit(i)]
    BY <1>5, <2>1 DEF ShlMag
  <2>3. spill(m) = 0
    <3>1. Digit(v, m) = t
      BY <1>2 DEF Digit
    <3> HIDE DEF t, P, Q, B
    <3>2. t < Q
      <4>1. SUFFICES ASSUME t >= Q PROVE FALSE
        BY <1>2, <1>3
      <4>2. t * P >= Q * P /\ Q * P = P * Q
        BY <1>2, <1>3, <4>1
      <4> DEFINE g == t * P
      <4>3. g \in Nat /\ g >= B /\ g < B
        BY <1>1, <1>2, <1>3, <4>2
      <4> HIDE DEF g
      <4>4. QED
        BY <1>2, <4>3
    <3>3. t \div Q = 0
      BY <1>2, <1>3, <3>2
    <3>4. QED
      BY <3>1, <3>3
  <2>4. len = m
    BY <1>2, <2>3
  <2>5. w[m] = digit(m) /\ Len(w) = m
    <3> HIDE DEF w, digit, len, m
    <3>1. w = [i \in 1 .. m |-> digit(i)]
      BY <2>2, <2>4
    <3>2. m \in 1 .. m
      BY <1>2
    <3>3. QED
      BY <1>2, <3>1, <3>2
  <2>6. digit(m) = ((t * P) % B) + spill(m - 1)
    BY <1>2 DEF Digit
  <2>7. spill(m - 1) \in Nat
    <3>1. Digit(v, m - 1) \in Nat
      BY <1>2, WordsProperties DEF Digit
    <3> DEFINE d == Digit(v, m - 1)
    <3> HIDE DEF d, Q
    <3>2. d \div Q \in Nat
      BY <1>3, <3>1 DEF d
    <3>3. QED
      BY <3>2 DEF d
  <2>8. 2 * w[m] >= B
    <3> DEFINE g == t * P
               h == spill(m - 1)
    <3>1. g \in Nat /\ g < B /\ 2 * g >= B
      BY <1>1, <1>2, <1>3
    <3>2. w[m] = (g % B) + h /\ h \in Nat
      BY <2>5, <2>6, <2>7
    <3> HIDE DEF g, h, w
    <3>3. g % B = g
      BY <1>2, <3>1
    <3>4. QED
      BY <1>2, <3>1, <3>2, <3>3
  <2>9. w = ShlMag(v, s) /\ PowersUpTo(s)
    <3>1. \A k \in 1 .. s : k \in 1 .. WordBits
      BY <1>1, WordBitsAssumption
    <3>2. PowersUpTo(s)
      BY <3>1, PowerAssumption DEF PowersUpTo
    <3>3. QED
      BY <1>5, <3>2
  <2>10. w \in Seq(Word) /\ ToNat(w) = ToNat(v) * P
    BY <2>1, <2>9, ShlMagExact
  <2> HIDE DEF w, P
  <2>11. Divisor(w)
    BY <1>2, <2>5, <2>8, <2>10 DEF Divisor
  <2>12. QED
    BY <2>5, <2>10, <2>11 DEF w, s, P
<1>6. QED
  BY <1>4, <1>5

(* A common factor changes the remainder, not the quotient.                *)
LEMMA ScaledDivision ==
  ASSUME NEW A \in Nat, NEW D \in Nat, NEW P \in Nat, D >= 1, P >= 1
  PROVE  /\ (A * P) \div (D * P) = A \div D
         /\ (A * P) % (D * P) = (A % D) * P
         /\ ((A % D) * P) \div P = A % D
<1> DEFINE q == A \div D
           r == A % D
           E == D * P
           s == r * P
<1>1. q \in Nat /\ r \in Nat /\ r < D /\ A = q * D + r
  OBVIOUS
<1> HIDE DEF q, r
<1>2. E \in Nat /\ E >= 1
  <2>1. D * P >= 1 * P
    OBVIOUS
  <2>2. QED
    BY <2>1
<1>3. s \in Nat /\ s < E
  <2>1. (r + 1) * P <= D * P /\ (r + 1) * P = r * P + P
    BY <1>1
  <2> DEFINE g == r * P
             h == D * P
  <2>2. g \in Nat /\ h \in Nat /\ g + P <= h
    BY <1>1, <2>1
  <2> HIDE DEF g, h
  <2>3. g < h
    BY <2>2
  <2>4. QED
    BY <2>2, <2>3 DEF g, h
<1>4. A * P = q * E + s
  <2>1. (q * D + r) * P = (q * D) * P + r * P
    BY <1>1
  <2>2. (q * D) * P = q * (D * P)
    BY <1>1
  <2>3. QED
    BY <1>1, <2>1, <2>2
<1>5. (q * E + s) \div E = q /\ (q * E + s) % E = s
  <2> HIDE DEF E, s
  <2>1. QED
    BY <1>1, <1>2, <1>3, DivisionUnique
<1>6. (r * P) \div P = r
  <2> DEFINE zero == 0
  <2>1. zero \in Int /\ 0 <= zero /\ zero < P /\ r * P + zero = r * P
    BY <1>1
  <2> HIDE DEF zero
  <2>2. (r * P + zero) \div P = r
    BY <1>1, <2>1, DivisionUnique
  <2>3. QED
    BY <2>1, <2>2
<1>7. QED
  BY <1>4, <1>5, <1>6 DEF q, r, E, s

(* A magnitude and a zero word above it are the same number.               *)
LEMMA AppendZero ==
  ASSUME NEW a \in Seq(Word)
  PROVE  /\ Append(a, 0) \in Seq(Word) /\ ToNat(Append(a, 0)) = ToNat(a)
         /\ Len(Append(a, 0)) = Len(a) + 1 /\ Append(a, 0)[Len(a) + 1] = 0
<1> DEFINE b == Append(a, 0)
<1>1. 0 \in Word /\ Len(a) \in Nat
  BY BaseProperties DEF Word
<1>2. b \in Seq(Word) /\ Len(b) = Len(a) + 1 /\ b[Len(a) + 1] = 0
  BY <1>1
<1>3. \A i \in 1 .. Len(a) : b[i] = a[i]
  BY <1>1
<1>4. a \in Seq(Int) /\ b \in Seq(Int)
  <2>1. a \in Seq(Int)
    BY WordsProperties
  <2> HIDE DEF b
  <2>2. b \in Seq(Int)
    BY <1>2, WordsProperties
  <2>3. QED
    BY <2>1, <2>2
<1> HIDE DEF b
<1>5. \A i \in Len(a) + 1 .. Len(b) : b[i] = 0
  <2>1. ASSUME NEW i \in Len(a) + 1 .. Len(b) PROVE i = Len(a) + 1
    BY <1>1, <1>2
  <2>2. QED
    BY <1>2, <2>1
<1>6. Len(a) <= Len(b)
  BY <1>1, <1>2
<1>7. ToNat(b) = ToNat(a)
  BY <1>3, <1>4, <1>5, <1>6, ToNatPadded
<1>8. QED
  BY <1>2, <1>7 DEF b

(* What a dividend becomes before the loop: moved by s bits, with a zero   *)
(* word on top, and longer than the divisor of m words.                    *)
Prepared(u, a, s, m) ==
  /\ u \in Seq(Word) /\ m < Len(u) /\ u[Len(u)] = 0
  /\ ToNat(u) = ToNat(a) * 2 ^ s

(* The shifted dividend, with the word appended to it first where it is as *)
(* short as the divisor.                                                   *)
LEMMA PreparedDividend ==
  ASSUME NEW a \in Seq(Word), NEW m \in Nat, m <= Len(a), NEW s \in 0 .. WordBits - 1
  PROVE  LET u == IF Len(a) = m THEN Append(a, 0) ELSE a
         IN  Prepared(Append(IF s = 0 THEN u ELSE ShlMag(u, s), 0), a, s, m)
<1> DEFINE u == IF Len(a) = m THEN Append(a, 0) ELSE a
           w == IF s = 0 THEN u ELSE ShlMag(u, s)
<1>1. Len(a) \in Nat /\ ToNat(a) \in Nat
  BY WordsProperties, ToNatPositive
<1>2. u \in Seq(Word) /\ ToNat(u) = ToNat(a) /\ Len(u) \in Nat /\ m <= Len(u)
  <2>1. CASE Len(a) = m
    BY <1>1, <2>1, AppendZero
  <2>2. CASE Len(a) # m
    BY <1>1, <2>2
  <2>3. QED
    BY <2>1, <2>2
<1> HIDE DEF u
<1>3. w \in Seq(Word) /\ ToNat(w) = ToNat(u) * 2 ^ s /\ Len(u) <= Len(w) /\ Len(w) \in Nat
  <2>1. CASE s = 0
    <3>1. 2 ^ s = 1
      BY <2>1, PowerAssumption DEF PowersUpTo
    <3>2. w = u
      BY <2>1
    <3>3. QED
      BY <1>1, <1>2, <3>1, <3>2
  <2>2. CASE s # 0
    <3>1. w = ShlMag(u, s) /\ s \in Nat /\ \A k \in 1 .. s : k \in 1 .. WordBits
      BY <2>2, WordBitsAssumption
    <3>2. PowersUpTo(s)
      BY <3>1, PowerAssumption DEF PowersUpTo
    <3>3. w \in Seq(Word) /\ ToNat(w) = ToNat(u) * 2 ^ s
      BY <1>2, <3>1, <3>2, ShlMagExact
    <3>4. s \div WordBits \in Nat
      BY <3>1, WordBitsAssumption
    <3> DEFINE z == s \div WordBits
    <3> HIDE DEF z
    <3>5. PICK p : Weights(p, z)
      BY <3>4, WeightsExist DEF z
    <3>6. z <= z
      BY <3>4 DEF z
    <3>7. Len(ShlMag(u, s)) \in {Len(u) + z, Len(u) + z + 1}
      BY <1>2, <3>1, <3>4, <3>5, <3>6, ShlMagWeighted DEF z
    <3>8. Len(u) <= Len(w) /\ Len(w) \in Nat
      <4> HIDE DEF w
      <4>1. z \in Nat /\ Len(w) \in {Len(u) + z, Len(u) + z + 1}
        BY <3>1, <3>4, <3>7 DEF z
      <4>2. QED
        BY <1>2, <4>1
    <3>9. QED
      BY <3>3, <3>8
  <2>3. QED
    BY <2>1, <2>2
<1> HIDE DEF w
<1>4. /\ Append(w, 0) \in Seq(Word) /\ ToNat(Append(w, 0)) = ToNat(w)
      /\ Len(Append(w, 0)) = Len(w) + 1 /\ Append(w, 0)[Len(w) + 1] = 0
  BY <1>3, AppendZero
<1>5. m < Len(w) + 1
  BY <1>2, <1>3
<1> DEFINE x == Append(w, 0)
<1> HIDE DEF x
<1>6. x \in Seq(Word) /\ m < Len(x) /\ x[Len(x)] = 0 /\ ToNat(x) = ToNat(a) * 2 ^ s
  BY <1>2, <1>3, <1>4, <1>5 DEF x
<1>7. Prepared(x, a, s, m)
  BY <1>6 DEF Prepared
<1>8. QED
  BY <1>7 DEF x, w, u

(* Algorithm D on operands as they come: normalise the divisor, move the   *)
(* dividend along, divide, and move the remainder back.                    *)
LEMMA AlgorithmDExact ==
  ASSUME NEW a \in Seq(Word), NEW b \in Seq(Word),
         Len(b) >= 2, b[Len(b)] # 0, Len(b) <= Len(a)
  PROVE  LET s == NormShift(b)
             v == IF s = 0 THEN b ELSE ShlMag(b, s)
             u == IF Len(a) = Len(b) THEN Append(a, 0) ELSE a
             k == KnuthLoop(Append(IF s = 0 THEN u ELSE ShlMag(u, s), 0), v)
         IN  /\ ToNat(k.q) = ToNat(a) \div ToNat(b)
             /\ ToNat(EraseZerosSuffix(k.u)) \div 2 ^ s = ToNat(a) % ToNat(b)
<1> DEFINE s == NormShift(b)
           v == IF s = 0 THEN b ELSE ShlMag(b, s)
           u == IF Len(a) = Len(b) THEN Append(a, 0) ELSE a
           x == Append(IF s = 0 THEN u ELSE ShlMag(u, s), 0)
           k == KnuthLoop(x, v)
           A == ToNat(a)
           D == ToNat(b)
           P == 2 ^ s
<1>1. Divisor(v) /\ Len(v) = Len(b) /\ ToNat(v) = D * P
  BY NormalisedDivisor
<1>2. s \in 0 .. WordBits - 1 /\ Len(b) \in Nat
  <2>1. Len(b) >= 1 /\ Len(b) \in Nat
    BY WordsProperties
  <2>2. QED
    BY <2>1, NormShiftExact
<1> HIDE DEF s, v
<1>3. Prepared(x, a, s, Len(b))
  BY <1>2, PreparedDividend
<1>4. P \in Nat /\ P >= 1
  BY <1>2, ShiftPowers
<1>5. A \in Nat /\ D \in Nat /\ D >= 1
  <2>1. Len(b) > 0
    BY <1>2
  <2>2. A \in Nat /\ D \in Nat /\ D > 0
    BY <2>1, WordsProperties, ToNatPositive
  <2> HIDE DEF A, D
  <2>3. QED
    BY <2>2
<1> HIDE DEF x, P, A, D
<1>6. x \in Seq(Word) /\ Len(v) < Len(x) /\ x[Len(x)] = 0 /\ ToNat(x) = A * P
  BY <1>1, <1>3 DEF Prepared, A, P
<1>7. k.u \in Seq(Word) /\ ToNat(k.q) = ToNat(x) \div ToNat(v) /\ ToNat(k.u) = ToNat(x) % ToNat(v)
  BY <1>1, <1>6, KnuthLoopExact
<1> HIDE DEF k
<1>8. ToNat(EraseZerosSuffix(k.u)) = ToNat(k.u)
  BY <1>7, EraseProperties
<1>9. /\ (A * P) \div (D * P) = A \div D
      /\ (A * P) % (D * P) = (A % D) * P
      /\ ((A % D) * P) \div P = A % D
  BY <1>4, <1>5, ScaledDivision
<1>10. ToNat(k.q) = A \div D
  BY <1>1, <1>6, <1>7, <1>9
<1>11. ToNat(EraseZerosSuffix(k.u)) \div P = A % D
  BY <1>1, <1>6, <1>7, <1>8, <1>9
<1>12. QED
  BY <1>10, <1>11 DEF k, x, v, s, A, D, P

(* f descends from each x to what next names, until x is less than r.      *)
Descends(f, D, r, base, next, step) ==
  \A x \in D : f[x] = IF x < r THEN base[x] ELSE step[<<x, f[next[x]]>>]

(* Recursion on smaller arguments, but those next to it.                   *)
LEMMA Descent ==
  ASSUME NEW S, NEW r \in Nat, NEW base \in [Nat -> S], NEW step \in [Nat \X S -> S],
         NEW next \in [Nat -> Nat], \A x \in Nat : x >= r => next[x] < x
  PROVE  \E f \in [Nat -> S] : Descends(f, Nat, r, base, next, step)
<1> DEFINE Good(f, n) == f \in [0 .. n -> S] /\ Descends(f, 0 .. n, r, base, next, step)
           value(f, x) == IF x < r THEN base[x] ELSE step[<<x, f[next[x]]>>]
<1>1. ASSUME NEW n \in Nat PROVE \E f : Good(f, n)
  <2> DEFINE T == {k \in 0 .. n : \E f : Good(f, k)}
  <2>1. ASSUME NEW k \in Nat, NEW f \in [0 .. k - 1 -> S],
               k = 0 \/ Good(f, k - 1)
        PROVE  \E h : Good(h, k)
    <3> DEFINE h == [x \in 0 .. k |-> IF x = k THEN value(f, k) ELSE f[x]]
    <3>1. value(f, k) \in S
      <4>1. CASE k < r
        BY <4>1
      <4>2. CASE ~(k < r)
        <5>1. next[k] \in 0 .. k - 1
          BY <4>2
        <5>2. <<k, f[next[k]]>> \in Nat \X S
          BY <5>1
        <5>3. QED
          BY <4>2, <5>2
      <4>3. QED
        BY <4>1, <4>2
    <3> HIDE DEF value
    <3>2. \A x \in 0 .. k : x = k \/ x \in 0 .. k - 1
      OBVIOUS
    <3>3. h \in [0 .. k -> S]
      BY <3>1, <3>2
    <3>4. ASSUME NEW x \in 0 .. k PROVE h[x] = value(f, x)
      <4>1. CASE x = k
        BY <4>1
      <4>2. CASE x # k
        <5>1. k # 0 /\ x \in 0 .. k - 1
          BY <3>2, <4>2
        <5>2. f[x] = value(f, x)
          BY <2>1, <5>1 DEF Descends, value
        <5>3. QED
          BY <4>2, <5>2
      <4>3. QED
        BY <4>1, <4>2
    <3>5. ASSUME NEW x \in 0 .. k PROVE value(f, x) = value(h, x)
      <4>1. CASE x < r
        BY <4>1 DEF value
      <4>2. CASE ~(x < r)
        <5>1. next[x] \in 0 .. k /\ next[x] # k
          BY <4>2
        <5>2. h[next[x]] = f[next[x]]
          BY <5>1
        <5> HIDE DEF h
        <5>3. QED
          BY <4>2, <5>2 DEF value
      <4>3. QED
        BY <4>1, <4>2
    <3> HIDE DEF h
    <3>6. \A x \in 0 .. k : h[x] = value(h, x)
      BY <3>4, <3>5
    <3>7. Good(h, k)
      BY <3>3, <3>6 DEF Descends, value
    <3>8. QED
      BY <3>7
  <2>2. 0 \in T
    <3>1. \E f : f \in [0 .. 0 - 1 -> S]
      <4>1. [x \in 0 .. 0 - 1 |-> base[0]] \in [0 .. 0 - 1 -> S]
        OBVIOUS
      <4>2. QED
        BY <4>1
    <3> HIDE DEF Good
    <3>2. \E h : Good(h, 0)
      BY <2>1, <3>1
    <3>3. QED
      BY <3>2
  <2>3. ASSUME NEW i \in 0 .. n - 1, i \in T PROVE i + 1 \in T
    <3>1. i + 1 \in Nat /\ i + 1 \in 0 .. n /\ (i + 1) - 1 = i
      OBVIOUS
    <3>2. PICK f : Good(f, i)
      BY <2>3
    <3>3. f \in [0 .. (i + 1) - 1 -> S] /\ Good(f, (i + 1) - 1)
      BY <3>1, <3>2
    <3> HIDE DEF Good
    <3>4. \E h : Good(h, i + 1)
      BY <2>1, <3>1, <3>3
    <3>5. QED
      BY <3>1, <3>4
  <2> HIDE DEF T, Good
  <2>4. \A i \in 0 .. n : i \in T
    BY <2>2, <2>3, UpTo
  <2>5. n \in T
    BY <2>4
  <2>6. QED
    BY <2>5 DEF T
<1>2. ASSUME NEW n \in Nat, NEW m \in Nat, n <= m, NEW f, NEW h, Good(f, n), Good(h, m)
      PROVE  f[n] = h[n]
  <2> DEFINE T == {k \in 0 .. n : \A x \in 0 .. k : f[x] = h[x]}
  <2>1. ASSUME NEW x \in 0 .. n, \A z \in 0 .. x - 1 : f[z] = h[z] PROVE f[x] = h[x]
    <3>1. f[x] = value(f, x)
      BY <1>2 DEF Descends
    <3>2. x \in 0 .. m
      BY <1>2
    <3>3. h[x] = value(h, x)
      BY <1>2, <3>2 DEF Descends
    <3>4. x >= r => next[x] \in 0 .. x - 1
      OBVIOUS
    <3>5. value(f, x) = value(h, x)
      BY <2>1, <3>4
    <3>6. QED
      BY <3>1, <3>3, <3>5
  <2>2. 0 \in T
    <3>1. f[0] = h[0]
      BY <2>1
    <3>2. \A x \in 0 .. 0 : x = 0
      OBVIOUS
    <3>3. QED
      BY <3>1, <3>2
  <2>3. ASSUME NEW i \in 0 .. n - 1, i \in T PROVE i + 1 \in T
    <3>1. i + 1 \in 0 .. n /\ (i + 1) - 1 = i
      OBVIOUS
    <3>2. f[i + 1] = h[i + 1]
      BY <2>1, <2>3, <3>1
    <3>3. \A x \in 0 .. i + 1 : x \in 0 .. i \/ x = i + 1
      OBVIOUS
    <3>4. QED
      BY <2>3, <3>1, <3>2, <3>3
  <2> HIDE DEF T
  <2>4. \A i \in 0 .. n : i \in T
    BY <2>2, <2>3, UpTo
  <2>5. n \in T /\ n \in 0 .. n
    BY <2>4
  <2>6. QED
    BY <2>5 DEF T
<1> DEFINE run(n) == CHOOSE f : Good(f, n)
           F == [n \in Nat |-> run(n)[n]]
<1>3. ASSUME NEW n \in Nat PROVE Good(run(n), n)
  <2> HIDE DEF Good
  <2>1. QED
    BY <1>1
<1> HIDE DEF run
<1>4. ASSUME NEW n \in Nat, NEW m \in Nat, n <= m PROVE run(m)[n] = F[n]
  <2>1. Good(run(n), n) /\ Good(run(m), m)
    BY <1>3
  <2> HIDE DEF Good
  <2>2. run(n)[n] = run(m)[n]
    BY <1>2, <1>4, <2>1
  <2>3. QED
    BY <2>2
<1>5. F \in [Nat -> S]
  <2>1. ASSUME NEW n \in Nat PROVE run(n)[n] \in S
    <3>1. run(n) \in [0 .. n -> S] /\ n \in 0 .. n
      BY <1>3
    <3>2. QED
      BY <3>1
  <2>2. QED
    BY <2>1
<1>6. ASSUME NEW x \in Nat PROVE F[x] = value(F, x)
  <2>1. run(x)[x] = value(run(x), x)
    <3>1. x \in 0 .. x
      OBVIOUS
    <3>2. QED
      BY <1>3, <3>1 DEF Descends
  <2>2. x >= r => next[x] \in Nat /\ next[x] <= x
    OBVIOUS
  <2>3. x >= r => run(x)[next[x]] = F[next[x]]
    BY <1>4, <2>2
  <2> HIDE DEF F
  <2>4. value(run(x), x) = value(F, x)
    BY <2>3
  <2>5. F[x] = run(x)[x]
    BY DEF F
  <2>6. QED
    BY <2>1, <2>4, <2>5
<1> HIDE DEF F
<1>7. Descends(F, Nat, r, base, next, step)
  BY <1>6 DEF Descends
<1>8. QED
  BY <1>5, <1>7

-----------------------------------------------------------------------------
(* What the member functions of Slice do to stores of slices.              *)

(* A store of slices may have other fields than the two: they are kept.    *)
Slices == [ptr : Addr, lo : Nat, hi : Nat]
IsStore(s) == /\ {"mem", "mag"} \subseteq DOMAIN s
             /\ s.mem \in [Addr -> Seq(Data)]
             /\ s.mag \in [Name -> Slices \cup {Dead}]
SameRest(s, t) == /\ DOMAIN t = DOMAIN s
                  /\ \A f \in DOMAIN s \ {"mem", "mag"} : t[f] = s[f]

(* The windows of the slices that live lie inside their vectors.           *)
Alive(s) == {x \in Name : s.mag[x] \in Slices}
Inside(s, x) == s.mag[x].lo <= s.mag[x].hi /\ s.mag[x].hi <= Len(Vec(s, x))
Sound(s) == IsStore(s) /\ \A x \in Alive(s) : Inside(s, x)

(* Window (lo, hi] of vector v.                                            *)
Between(v, lo, hi) == SubSeq(v, lo + 1, hi)

(* In t, x lives and holds v; all others hold what they held in s.         *)
Differ(s, t, x, v) == /\ Sound(t) /\ SameRest(s, t)
                      /\ Alive(t) = Alive(s) \cup {x}
                      /\ Words(t, x) = v
                      /\ \A y \in Alive(s) \ {x} : Words(t, y) = Words(s, y)

(* x is the only slice that points to its vector.                          *)
Sole(s, x) == UseCount(s, x) = 1

-----------------------------------------------------------------------------
(* A window as a sequence.                                                 *)
LEMMA BetweenProperties ==
  ASSUME NEW v \in Seq(Data), NEW lo \in Nat, NEW hi \in Nat, lo <= hi, hi <= Len(v)
  PROVE  /\ Between(v, lo, hi) \in Seq(Data)
         /\ Len(Between(v, lo, hi)) = hi - lo
         /\ \A i \in 1 .. hi - lo : Between(v, lo, hi)[i] = v[lo + i]
<1>1. \A i \in lo + 1 .. hi : v[i] \in Data
  <2>1. \A i \in 1 .. Len(v) : v[i] \in Data
    BY ElementOfSeq
  <2>2. Len(v) \in Nat
    BY LenProperties
  <2>3. QED
    BY <2>1, <2>2
<1>2. /\ SubSeq(v, lo + 1, hi) \in Seq(Data)
      /\ Len(SubSeq(v, lo + 1, hi)) = IF lo + 1 <= hi THEN hi - (lo + 1) + 1 ELSE 0
      /\ \A i \in 1 .. hi - (lo + 1) + 1 : SubSeq(v, lo + 1, hi)[i] = v[lo + 1 + i - 1]
  <2>1. lo + 1 \in Int /\ hi \in Int
    OBVIOUS
  <2>2. QED
    BY ONLY <1>1, <2>1, SubSeqProperties
<1>3. Len(SubSeq(v, lo + 1, hi)) = hi - lo
  BY <1>2
<1>4. \A i \in 1 .. hi - lo : SubSeq(v, lo + 1, hi)[i] = v[lo + i]
  <2>1. TAKE i \in 1 .. hi - lo
  <2>2. lo + 1 + i - 1 = lo + i /\ i \in 1 .. hi - (lo + 1) + 1
    OBVIOUS
  <2>3. QED
    BY <1>2, <2>2
<1>5. QED
  BY <1>2, <1>3, <1>4 DEF Between

(* The window of a slice, and Words(s, x), as a sequence.                  *)
LEMMA SliceWords ==
  ASSUME NEW s, Sound(s), NEW x \in Alive(s)
  PROVE  /\ s.mag[x].lo \in Nat /\ s.mag[x].hi \in Nat /\ s.mag[x].ptr \in Addr
         /\ Vec(s, x) \in Seq(Data) /\ Len(Vec(s, x)) \in Nat
         /\ s.mag[x].lo <= s.mag[x].hi /\ s.mag[x].hi <= Len(Vec(s, x))
         /\ Words(s, x) = Between(Vec(s, x), s.mag[x].lo, s.mag[x].hi)
         /\ Words(s, x) \in Seq(Data)
         /\ Len(Words(s, x)) = Count(s, x) /\ Count(s, x) \in Nat
         /\ \A i \in 1 .. Count(s, x) : Words(s, x)[i] = Vec(s, x)[s.mag[x].lo + i]
<1>1. /\ s.mag[x].lo \in Nat /\ s.mag[x].hi \in Nat /\ s.mag[x].ptr \in Addr
      /\ Vec(s, x) \in Seq(Data) /\ Len(Vec(s, x)) \in Nat
  BY LenProperties DEF Sound, IsStore, Alive, Slices, Vec
<1>2. s.mag[x].lo <= s.mag[x].hi /\ s.mag[x].hi <= Len(Vec(s, x))
  BY DEF Sound, Inside
<1>3. Words(s, x) = Between(Vec(s, x), s.mag[x].lo, s.mag[x].hi)
  BY DEF Words, Between
<1>4. Count(s, x) = s.mag[x].hi - s.mag[x].lo /\ Count(s, x) \in Nat
  BY <1>1, <1>2 DEF Count
<1>5. /\ Words(s, x) \in Seq(Data) /\ Len(Words(s, x)) = s.mag[x].hi - s.mag[x].lo
      /\ \A i \in 1 .. s.mag[x].hi - s.mag[x].lo :
           Words(s, x)[i] = Vec(s, x)[s.mag[x].lo + i]
  <2> DEFINE v == Vec(s, x)
             lo == s.mag[x].lo
             hi == s.mag[x].hi
  <2>1. v \in Seq(Data) /\ lo \in Nat /\ hi \in Nat /\ lo <= hi /\ hi <= Len(v)
    BY <1>1, <1>2
  <2> HIDE DEF v, lo, hi
  <2>2. /\ Between(v, lo, hi) \in Seq(Data) /\ Len(Between(v, lo, hi)) = hi - lo
        /\ \A i \in 1 .. hi - lo : Between(v, lo, hi)[i] = v[lo + i]
    BY <2>1, BetweenProperties
  <2>3. QED
    BY <1>3, <2>2 DEF v, lo, hi
<1>6. QED
  BY <1>1, <1>2, <1>3, <1>4, <1>5

(* Of a slice that is moved, copied or left alone nothing but the window   *)
(* and the vector count.                                                   *)
LEMMA SameWords ==
  ASSUME NEW s, NEW t, NEW x, NEW y,
         t.mag[y] = s.mag[x], t.mem[s.mag[x].ptr] = s.mem[s.mag[x].ptr]
  PROVE  Words(t, y) = Words(s, x) /\ (Inside(s, x) => Inside(t, y))
  BY DEF Words, Vec, Inside

(* n zeros.                                                                *)
LEMMA ZerosProperties ==
  ASSUME NEW n \in Nat
  PROVE  /\ Zeros(n) \in Seq(Data) /\ Len(Zeros(n)) = n
         /\ \A i \in 1 .. n : Zeros(n)[i] = 0
  BY DataAssumption DEF Zeros

(* There are addresses for all the slices at once.                         *)
LEMMA EnoughAddresses ==
  \E p \in [Name -> Addr] : \A x, y \in Name : p[x] = p[y] => x = y
<1> DEFINE n == Cardinality(Name)
           m == Cardinality(Addr)
<1>1. n \in Nat /\ m \in Nat /\ n < m
  BY AddrAssumption, FS_CardinalityType
<1>2. PICK f \in Bijection(1 .. n, Name) : TRUE
  BY AddrAssumption, FS_CardinalityType DEF ExistsBijection
<1>3. PICK g \in Bijection(1 .. m, Addr) : TRUE
  BY AddrAssumption, FS_CardinalityType DEF ExistsBijection
<1> HIDE DEF n, m
<1>4. /\ f \in [1 .. n -> Name] /\ \A x \in Name : \E i \in 1 .. n : f[i] = x
      /\ g \in [1 .. m -> Addr] /\ \A i, j \in 1 .. m : g[i] = g[j] => i = j
  BY DEF Bijection, Injection, Surjection, IsInjective
<1> DEFINE at(x) == CHOOSE i \in 1 .. n : f[i] = x
           p == [x \in Name |-> g[at(x)]]
<1>5. \A x \in Name : at(x) \in 1 .. n /\ f[at(x)] = x
  BY <1>4
<1> HIDE DEF at
<1>6. \A x \in Name : at(x) \in 1 .. m
  BY <1>1, <1>5
<1>7. p \in [Name -> Addr]
  BY <1>4, <1>6
<1>8. ASSUME NEW x \in Name, NEW y \in Name, p[x] = p[y] PROVE x = y
  <2>1. g[at(x)] = g[at(y)]
    BY <1>8
  <2>2. at(x) = at(y)
    BY <1>4, <1>6, <2>1
  <2>3. QED
    BY <1>5, <2>2
<1>9. QED
  BY <1>7, <1>8

(* Fewer vectors are in use than there are addresses.                      *)
LEMMA FreeAddress ==
  ASSUME NEW s
  PROVE  \E p \in Addr : p \notin InUse(s)
<1> DEFINE f == [y \in Name |-> s.mag[y].ptr]
<1>1. f \in Surjection(Name, InUse(s))
  BY DEF InUse, Surjection
<1>2. Cardinality(InUse(s)) <= Cardinality(Name) /\ IsFiniteSet(InUse(s))
  BY <1>1, FS_Surjection, AddrAssumption
<1>3. CASE Addr \subseteq InUse(s)
  <2>1. Cardinality(Addr) <= Cardinality(InUse(s))
    BY <1>2, <1>3, FS_Subset
  <2>2. /\ Cardinality(Addr) \in Nat /\ Cardinality(InUse(s)) \in Nat
        /\ Cardinality(Name) \in Nat
    BY <1>2, FS_CardinalityType, AddrAssumption
  <2>3. QED
    BY <1>2, <2>1, <2>2, AddrAssumption
<1>4. QED
  BY <1>3

(* One name of all has an address to itself: it is the only one there.     *)
LEMMA SoleAt ==
  ASSUME NEW s, NEW x \in Name, \A y \in Name \ {x} : s.mag[y].ptr # s.mag[x].ptr
  PROVE  Sole(s, x)
<1>1. Sharing(s, x) = {x}
  BY DEF Sharing
<1>2. QED
  BY <1>1, FS_Singleton DEF Sole, UseCount

(* Only x points to its vector.                                            *)
LEMMA OwnVector ==
  ASSUME NEW s, NEW x \in Name, Sole(s, x), NEW y \in Name \ {x}
  PROVE  s.mag[y].ptr # s.mag[x].ptr
<1>1. IsFiniteSet(Sharing(s, x))
  BY AddrAssumption, FS_Subset DEF Sharing
<1>2. PICK z : Sharing(s, x) = {z}
  BY <1>1, FS_Singleton DEF Sole, UseCount
<1>3. x \in Sharing(s, x)
  BY DEF Sharing
<1>4. QED
  BY <1>2, <1>3 DEF Sharing

(* Use counts are about the pointers alone.                                *)
LEMMA SamePointers ==
  ASSUME NEW s, NEW t, \A y \in Name : t.mag[y].ptr = s.mag[y].ptr, NEW x \in Name
  PROVE  Sole(t, x) <=> Sole(s, x)
<1>1. Sharing(t, x) = Sharing(s, x)
  BY DEF Sharing
<1>2. QED
  BY <1>1 DEF Sole, UseCount

(* The name gets a vector of its own that was in nobody's use.             *)
LEMMA AllocateSound ==
  ASSUME NEW s, Sound(s), NEW x \in Name, NEW v \in Seq(Data),
         NEW lo \in Nat, NEW hi \in Nat, lo <= hi, hi <= Len(v)
  PROVE  /\ Differ(s, Allocate(s, x, v, lo, hi), x, Between(v, lo, hi))
         /\ Sole(Allocate(s, x, v, lo, hi), x)
<1> DEFINE a == CHOOSE p \in Addr : p \notin InUse(s)
           t == Allocate(s, x, v, lo, hi)
           m == [ptr |-> a, lo |-> lo, hi |-> hi]
<1>1. a \in Addr /\ a \notin InUse(s)
  BY FreeAddress
<1>2. t = [s EXCEPT !.mem[a] = v, !.mag[x] = m]
  BY DEF Allocate
<1> HIDE DEF a, t
<1>3. IsStore(s) /\ \A y \in Alive(s) : Inside(s, y)
  BY DEF Sound
<1>4. m \in Slices /\ m.ptr = a /\ m.lo = lo /\ m.hi = hi
  BY <1>1 DEF Slices
<1> HIDE DEF m
<1>5. /\ t.mem = [s.mem EXCEPT ![a] = v] /\ t.mag = [s.mag EXCEPT ![x] = m]
      /\ DOMAIN t = DOMAIN s
  BY <1>2, <1>3 DEF IsStore
<1>6. SameRest(s, t)
  BY <1>2, <1>3 DEF IsStore, SameRest
<1>7. IsStore(t)
  BY <1>1, <1>3, <1>4, <1>5 DEF IsStore
<1>8. t.mag[x] = m /\ t.mem[a] = v /\ \A y \in Name \ {x} : t.mag[y] = s.mag[y]
  BY <1>1, <1>3, <1>5 DEF IsStore
<1>9. Alive(t) = Alive(s) \cup {x}
  BY <1>4, <1>8 DEF Alive
<1>10. Inside(t, x) /\ Words(t, x) = Between(v, lo, hi)
  BY <1>4, <1>8 DEF Inside, Words, Vec, Between
<1>11. ASSUME NEW y \in Alive(s) \ {x}
       PROVE  Inside(t, y) /\ Words(t, y) = Words(s, y)
  <2>1. y \in Name /\ s.mag[y].ptr # a /\ s.mag[y].ptr \in Addr
    BY <1>1 DEF InUse, Alive, Slices
  <2>2. t.mag[y] = s.mag[y] /\ t.mem[s.mag[y].ptr] = s.mem[s.mag[y].ptr]
    BY <1>3, <1>5, <1>8, <2>1 DEF IsStore
  <2>3. QED
    BY <1>3, <2>2, SameWords
<1>12. Sound(t)
  BY <1>7, <1>9, <1>10, <1>11 DEF Sound
<1>13. Sole(t, x)
  <2>1. \A y \in Name \ {x} : t.mag[y].ptr # t.mag[x].ptr
    BY <1>1, <1>4, <1>8 DEF InUse
  <2>2. QED
    BY <2>1, SoleAt
<1>14. QED
  BY <1>6, <1>9, <1>10, <1>11, <1>12, <1>13 DEF Differ, t

(* A new vector and window for a name that shares its vector with none.    *)
Rewrites(s, t, x, v, lo, hi) ==
  LET a == s.mag[x].ptr
  IN  /\ IsStore(t) /\ SameRest(s, t)
      /\ t.mem[a] = v /\ \A p \in Addr \ {a} : t.mem[p] = s.mem[p]
      /\ t.mag[x].ptr = a /\ t.mag[x].lo = lo /\ t.mag[x].hi = hi
      /\ \A y \in Name \ {x} : t.mag[y] = s.mag[y]

(* Such a store is sound, and no other slice sees the difference; nor does *)
(* one that shares the vector if only the window moved.                    *)
LEMMA RewritesSound ==
  ASSUME NEW s, Sound(s), NEW x \in Alive(s), NEW v \in Seq(Data), Sole(s, x) \/ v = Vec(s, x),
         NEW lo \in Nat, NEW hi \in Nat, lo <= hi, hi <= Len(v),
         NEW t, Rewrites(s, t, x, v, lo, hi)
  PROVE  Differ(s, t, x, Between(v, lo, hi)) /\ (Sole(s, x) => Sole(t, x))
<1>1. IsStore(s) /\ (\A y \in Alive(s) : Inside(s, y)) /\ x \in Name
  BY DEF Sound, Alive
<1>2. Inside(t, x) /\ Words(t, x) = Between(v, lo, hi)
  BY DEF Rewrites, Inside, Words, Vec, Between
<1>3. ASSUME NEW y \in Alive(s) \ {x}
      PROVE  Inside(t, y) /\ Words(t, y) = Words(s, y)
  <2>1. y \in Name \ {x} /\ s.mag[y].ptr \in Addr
    BY DEF Alive, Slices
  <2>2. s.mag[y].ptr # s.mag[x].ptr \/ v = s.mem[s.mag[x].ptr]
    BY <1>1, <2>1, OwnVector DEF Vec
  <2>3. t.mag[y] = s.mag[y] /\ t.mem[s.mag[y].ptr] = s.mem[s.mag[y].ptr]
    BY <2>1, <2>2 DEF Rewrites
  <2>4. QED
    BY <1>1, <2>3, SameWords
<1>4. IsStore(t) /\ SameRest(s, t)
  BY DEF Rewrites
<1>5. Alive(t) = Alive(s) \cup {x}
  <2>1. t.mag[x] \in Slices
    <3>1. t.mag[x] \in Slices \/ t.mag[x] = Dead
      BY <1>1, <1>4 DEF IsStore
    <3>2. t.mag[x].ptr = s.mag[x].ptr /\ s.mag[x].ptr \in Addr
      BY DEF Rewrites, Alive, Slices
    <3>3. QED
      BY <3>1, <3>2, AddrAssumption DEF Dead, Nowhere
  <2>2. \A y \in Name \ {x} : t.mag[y] = s.mag[y]
    BY DEF Rewrites
  <2>3. QED
    BY <1>1, <2>1, <2>2 DEF Alive
<1>6. Sole(s, x) => Sole(t, x)
  <2>1. \A y \in Name : t.mag[y].ptr = s.mag[y].ptr
    BY DEF Rewrites
  <2>2. QED
    BY <1>1, <2>1, SamePointers
<1>7. QED
  BY <1>2, <1>3, <1>4, <1>5, <1>6 DEF Differ, Sound

(* x shares its vector with z at most, and z may see what is written.      *)
Only(s, x, z) == \A y \in Name \ {x, z} : s.mag[y].ptr # s.mag[x].ptr
DifferBut(s, t, x, z, v) == /\ Sound(t) /\ SameRest(s, t)
                            /\ Alive(t) = Alive(s) \cup {x}
                            /\ Words(t, x) = v
                            /\ \A y \in Alive(s) \ {x, z} : Words(t, y) = Words(s, y)

(* A vector that does not get shorter keeps the windows of both inside.    *)
LEMMA RewritesShared ==
  ASSUME NEW s, Sound(s), NEW x \in Alive(s), NEW z, Only(s, x, z),
         NEW v \in Seq(Data), Len(Vec(s, x)) <= Len(v),
         NEW lo \in Nat, NEW hi \in Nat, lo <= hi, hi <= Len(v),
         NEW t, Rewrites(s, t, x, v, lo, hi)
  PROVE  DifferBut(s, t, x, z, Between(v, lo, hi)) /\ Only(t, x, z)
<1>1. IsStore(s) /\ (\A y \in Alive(s) : Inside(s, y)) /\ x \in Name
  BY DEF Sound, Alive
<1>2. Inside(t, x) /\ Words(t, x) = Between(v, lo, hi)
  BY DEF Rewrites, Inside, Words, Vec, Between
<1>3. ASSUME NEW y \in Alive(s) \ {x}
      PROVE  Inside(t, y) /\ (y # z => Words(t, y) = Words(s, y))
  <2>1. y \in Name \ {x} /\ s.mag[y].ptr \in Addr /\ Inside(s, y) /\ t.mag[y] = s.mag[y]
    BY <1>1 DEF Alive, Slices, Rewrites
  <2>2. CASE s.mag[y].ptr # s.mag[x].ptr
    <3>1. t.mem[s.mag[y].ptr] = s.mem[s.mag[y].ptr]
      BY <2>1, <2>2 DEF Rewrites
    <3>2. QED
      BY <2>1, <3>1, SameWords
  <2>3. CASE s.mag[y].ptr = s.mag[x].ptr
    <3>1. y = z
      BY <2>1, <2>3 DEF Only
    <3>2. Vec(t, y) = v /\ Vec(s, y) = Vec(s, x)
      BY <2>1, <2>3 DEF Rewrites, Vec
    <3>3. s.mag[y].hi \in Nat /\ Len(Vec(s, x)) \in Nat /\ Len(v) \in Nat
      BY SliceWords, LenProperties
    <3>4. QED
      BY <2>1, <3>1, <3>2, <3>3 DEF Inside
  <2>4. QED
    BY <2>2, <2>3
<1>4. IsStore(t) /\ SameRest(s, t)
  BY DEF Rewrites
<1>5. t.mag[x] \in Slices /\ t.mag[x].ptr = s.mag[x].ptr
  <2>1. t.mag[x] \in Slices \/ t.mag[x] = Dead
    BY <1>1, <1>4 DEF IsStore
  <2>2. t.mag[x].ptr = s.mag[x].ptr /\ s.mag[x].ptr \in Addr
    BY DEF Rewrites, Alive, Slices
  <2>3. QED
    BY <2>1, <2>2, AddrAssumption DEF Dead, Nowhere
<1>6. \A y \in Name \ {x} : t.mag[y] = s.mag[y]
  BY DEF Rewrites
<1>7. Alive(t) = Alive(s) \cup {x}
  BY <1>1, <1>5, <1>6 DEF Alive
<1>8. Only(t, x, z)
  BY <1>5, <1>6 DEF Only
<1>9. QED
  BY <1>2, <1>3, <1>4, <1>7, <1>8 DEF DifferBut, Sound

-----------------------------------------------------------------------------
(* The sequences the member functions build: a window is what its elements *)
(* say it is.                                                              *)
LEMMA BetweenEqual ==
  ASSUME NEW v \in Seq(Data), NEW lo \in Nat, NEW hi \in Nat, lo <= hi, hi <= Len(v),
         NEW w \in Seq(Data), Len(w) = hi - lo, \A i \in 1 .. hi - lo : v[lo + i] = w[i]
  PROVE  Between(v, lo, hi) = w
<1> DEFINE u == Between(v, lo, hi)
<1>1. u \in Seq(Data) /\ Len(u) = hi - lo /\ \A i \in 1 .. hi - lo : u[i] = v[lo + i]
  BY BetweenProperties
<1> HIDE DEF u
<1>2. Len(u) = Len(w) /\ \A i \in 1 .. Len(u) : u[i] = w[i]
  BY <1>1
<1>3. u = w
  BY <1>1, <1>2, SeqEqual
<1>4. QED
  BY <1>3 DEF u

(* Put replaces one element.                                               *)
LEMMA PutProperties ==
  ASSUME NEW v \in Seq(Data), NEW i \in Int, NEW d \in Data
  PROVE  /\ Put(v, i, d) \in Seq(Data) /\ Len(Put(v, i, d)) = Len(v)
         /\ \A k \in 1 .. Len(v) : Put(v, i, d)[k] = IF k = i THEN d ELSE v[k]
<1>1. Len(v) \in Nat /\ DOMAIN v = 1 .. Len(v) /\ \A k \in 1 .. Len(v) : v[k] \in Data
  BY LenProperties, ElementOfSeq
<1>2. Put(v, i, d) = [k \in 1 .. Len(v) |-> IF k = i THEN d ELSE v[k]]
  BY <1>1 DEF Put
<1>3. QED
  BY <1>1, <1>2

(* resize() keeps what fits.                                               *)
LEMMA ResizeProperties ==
  ASSUME NEW v \in Seq(Data), NEW n \in Nat
  PROVE  /\ Resize(v, n) \in Seq(Data) /\ Len(Resize(v, n)) = n
         /\ \A k \in 1 .. n : k <= Len(v) => Resize(v, n)[k] = v[k]
<1>1. Len(v) \in Nat /\ DOMAIN v = 1 .. Len(v) /\ \A k \in 1 .. Len(v) : v[k] \in Data
  BY LenProperties, ElementOfSeq
<1>2. Resize(v, n) = [k \in 1 .. n |-> IF k \in 1 .. Len(v) THEN v[k] ELSE 0]
  BY <1>1 DEF Resize
<1>3. QED
  BY <1>1, <1>2, DataAssumption

-----------------------------------------------------------------------------
(* One lemma per member function: what it leaves in the slice it is called *)
(* on, and that no other slice notices.  A new slice is empty.             *)
LEMMA NewSliceSound ==
  ASSUME NEW s, Sound(s), NEW x \in Name
  PROVE  Differ(s, NewSlice(s, x), x, << >>) /\ Sole(NewSlice(s, x), x)
<1>1. Zeros(2) \in Seq(Data) /\ Len(Zeros(2)) = 2
  BY ZerosProperties
<1>2. Between(Zeros(2), 1, 1) = << >>
  BY SubSeqEmpty DEF Between
<1> DEFINE t == Allocate(s, x, Zeros(2), 1, 1)
<1>3. Differ(s, t, x, Between(Zeros(2), 1, 1)) /\ Sole(t, x)
  BY <1>1, AllocateSound
<1>4. NewSlice(s, x) = t
  BY DEF NewSlice, DefaultPreSpace
<1> HIDE DEF t
<1>5. QED
  BY <1>2, <1>3, <1>4

(* Slices that take over windows of others.                                *)
TakeOver(s, t, from) == \A y \in Name : t.mag[y] = s.mag[from[y]]
LEMMA WindowsMove ==
  ASSUME NEW s, Sound(s), NEW from \in [Name -> Name], NEW t, IsStore(t), t.mem = s.mem,
         TakeOver(s, t, from)
  PROVE  /\ Sound(t) /\ Alive(t) = {y \in Name : from[y] \in Alive(s)}
         /\ \A y \in Name : Words(t, y) = Words(s, from[y])
<1>1. IsStore(s) /\ \A y \in Alive(s) : Inside(s, y)
  BY DEF Sound
<1>2. Alive(t) = {y \in Name : from[y] \in Alive(s)}
  BY DEF Alive, TakeOver
<1>3. \A y \in Name : /\ Words(t, y) = Words(s, from[y])
                      /\ Inside(s, from[y]) => Inside(t, y)
  BY SameWords DEF TakeOver
<1>4. QED
  BY <1>1, <1>2, <1>3 DEF Sound

(* Copying shares the vector: x holds what y holds.                        *)
LEMMA CopySliceSound ==
  ASSUME NEW s, Sound(s), NEW x \in Name, NEW y \in Alive(s)
  PROVE  Differ(s, CopySlice(s, x, y), x, Words(s, y))
<1> DEFINE t == CopySlice(s, x, y)
           from == [z \in Name |-> IF z = x THEN y ELSE z]
<1>1. IsStore(s) /\ y \in Name
  BY DEF Sound, Alive
<1>2. t.mem = s.mem /\ t.mag = [s.mag EXCEPT ![x] = s.mag[y]] /\ DOMAIN t = DOMAIN s
  BY <1>1 DEF CopySlice, IsStore
<1>3. SameRest(s, t)
  BY <1>1 DEF CopySlice, IsStore, SameRest
<1> HIDE DEF t
<1>4. IsStore(t)
  BY <1>1, <1>2 DEF IsStore
<1>5. from \in [Name -> Name] /\ TakeOver(s, t, from)
  BY <1>1, <1>2 DEF IsStore, TakeOver
<1>6. from[x] = y /\ \A z \in Name \ {x} : from[z] = z
  OBVIOUS
<1> HIDE DEF from
<1>7. /\ Sound(t) /\ Alive(t) = {z \in Name : from[z] \in Alive(s)}
      /\ \A z \in Name : Words(t, z) = Words(s, from[z])
  BY <1>2, <1>4, <1>5, WindowsMove
<1>8. Alive(t) = Alive(s) \cup {x}
  BY <1>6, <1>7 DEF Alive
<1>9. Words(t, x) = Words(s, y) /\ \A z \in Alive(s) \ {x} : Words(t, z) = Words(s, z)
  BY <1>6, <1>7 DEF Alive
<1>10. QED
  BY <1>3, <1>7, <1>8, <1>9 DEF Differ, t

(* Moving leaves y empty, on a vector of its own.                          *)
LEMMA MoveSliceSound ==
  ASSUME NEW s, Sound(s), NEW x \in Name, NEW y \in Alive(s), x # y
  PROVE  /\ Sound(MoveSlice(s, x, y)) /\ SameRest(s, MoveSlice(s, x, y))
         /\ Alive(MoveSlice(s, x, y)) = Alive(s) \cup {x}
         /\ Words(MoveSlice(s, x, y), x) = Words(s, y)
         /\ Words(MoveSlice(s, x, y), y) = << >>
         /\ \A z \in Alive(s) \ {x, y} : Words(MoveSlice(s, x, y), z) = Words(s, z)
<1>1. Differ(s, CopySlice(s, x, y), x, Words(s, y))
  BY CopySliceSound
<1>2. y \in Name
  BY DEF Alive
<1>3. Differ(CopySlice(s, x, y), MoveSlice(s, x, y), y, << >>)
  BY <1>1, <1>2, NewSliceSound DEF MoveSlice, Differ
<1>4. QED
  BY <1>1, <1>3 DEF Differ, SameRest

(* Swapping exchanges what x and y hold.                                   *)
LEMMA SwapSlicesSound ==
  ASSUME NEW s, Sound(s), NEW x \in Alive(s), NEW y \in Alive(s), x # y
  PROVE  /\ Sound(SwapSlices(s, x, y)) /\ SameRest(s, SwapSlices(s, x, y))
         /\ Alive(SwapSlices(s, x, y)) = Alive(s)
         /\ Words(SwapSlices(s, x, y), x) = Words(s, y)
         /\ Words(SwapSlices(s, x, y), y) = Words(s, x)
         /\ \A z \in Alive(s) \ {x, y} : Words(SwapSlices(s, x, y), z) = Words(s, z)
<1> DEFINE t == SwapSlices(s, x, y)
           from == [z \in Name |-> IF z = x THEN y ELSE IF z = y THEN x ELSE z]
<1>1. IsStore(s) /\ x \in Name /\ y \in Name
  BY DEF Sound, Alive
<1>2. /\ t.mem = s.mem /\ t.mag = [s.mag EXCEPT ![x] = s.mag[y], ![y] = s.mag[x]]
      /\ DOMAIN t = DOMAIN s
  BY <1>1 DEF SwapSlices, IsStore
<1>3. SameRest(s, t)
  BY <1>1 DEF SwapSlices, IsStore, SameRest
<1> HIDE DEF t
<1>4. IsStore(t)
  BY <1>1, <1>2 DEF IsStore
<1>5. from \in [Name -> Name] /\ TakeOver(s, t, from)
  BY <1>1, <1>2 DEF IsStore, TakeOver
<1>6. from[x] = y /\ from[y] = x /\ \A z \in Name \ {x, y} : from[z] = z
  BY <1>1
<1> HIDE DEF from
<1>7. /\ Sound(t) /\ Alive(t) = {z \in Name : from[z] \in Alive(s)}
      /\ \A z \in Name : Words(t, z) = Words(s, from[z])
  BY <1>2, <1>4, <1>5, WindowsMove
<1>8. Alive(t) = Alive(s)
  BY <1>6, <1>7 DEF Alive
<1>9. /\ Words(t, x) = Words(s, y) /\ Words(t, y) = Words(s, x)
      /\ \A z \in Alive(s) \ {x, y} : Words(t, z) = Words(s, z)
  BY <1>1, <1>6, <1>7 DEF Alive
<1>10. QED
  BY <1>3, <1>7, <1>8, <1>9 DEF t

(* Cloning changes what no slice holds.                                    *)
LEMMA CloneDataSound ==
  ASSUME NEW s, Sound(s), NEW x \in Alive(s)
  PROVE  Differ(s, CloneData(s, x), x, Words(s, x)) /\ Sole(CloneData(s, x), x)
<1> DEFINE w == Words(s, x)
           c == Count(s, x)
<1>1. w \in Seq(Data) /\ Len(w) = c /\ c \in Nat /\ x \in Name
  BY SliceWords DEF Alive
<1>2. CASE Sole(s, x)
  BY <1>2 DEF CloneData, Differ, SameRest, Sole
<1>3. CASE ~Sole(s, x)
  <2> DEFINE z == Zeros(1)
             v == z \o w
             t == Allocate(s, x, v, 1, 1 + c)
  <2>1. CloneData(s, x) = t
    BY <1>3 DEF CloneData, DefaultPreSpace, Sole
  <2>2. z \in Seq(Data) /\ Len(z) = 1
    BY ZerosProperties
  <2> HIDE DEF w, c, z, t
  <2>3. /\ v \in Seq(Data) /\ Len(v) = Len(z) + Len(w)
        /\ \A i \in 1 .. Len(z) + Len(w) : v[i] = IF i <= Len(z) THEN z[i] ELSE w[i - Len(z)]
    BY <1>1, <2>2, ConcatProperties
  <2> HIDE DEF v
  <2>4. \A i \in 1 .. (1 + c) - 1 : v[1 + i] = w[i]
    <3>1. TAKE i \in 1 .. (1 + c) - 1
    <3>2. 1 + i \in 1 .. Len(z) + Len(w) /\ ~(1 + i <= Len(z)) /\ (1 + i) - Len(z) = i
      BY <1>1, <2>2
    <3>3. QED
      BY <2>3, <3>2
  <2>5. /\ 1 \in Nat /\ 1 + c \in Nat /\ 1 <= 1 + c /\ 1 + c <= Len(v)
        /\ Len(w) = (1 + c) - 1
    BY <1>1, <2>2, <2>3
  <2>6. Between(v, 1, 1 + c) = w
    BY <1>1, <2>3, <2>4, <2>5, BetweenEqual
  <2>7. Differ(s, t, x, Between(v, 1, 1 + c)) /\ Sole(t, x)
    BY <1>1, <2>3, <2>5, AllocateSound DEF t
  <2>8. QED
    BY <2>1, <2>6, <2>7 DEF w
<1>4. QED
  BY <1>2, <1>3

(* Every other member function, called on an owner, leaves such a store.   *)
LEMMA SetVecRewrites ==
  ASSUME NEW s, Sound(s), NEW x \in Alive(s), NEW t, NEW v0, NEW l, NEW h, NEW v \in Seq(Data),
         Rewrites(s, t, x, v0, l, h)
  PROVE  Rewrites(s, SetVec(t, x, v), x, v, l, h)
<1> DEFINE a == s.mag[x].ptr
           r == SetVec(t, x, v)
<1>1. a \in Addr
  BY DEF Alive, Slices
<1>2. /\ IsStore(t) /\ SameRest(s, t) /\ t.mag[x].ptr = a
      /\ \A p \in Addr \ {a} : t.mem[p] = s.mem[p]
  BY DEF Rewrites
<1> HIDE DEF a
<1>3. r = [t EXCEPT !.mem[a] = v]
  BY <1>2 DEF SetVec
<1> HIDE DEF r
<1>4. r.mem = [t.mem EXCEPT ![a] = v] /\ r.mag = t.mag /\ DOMAIN r = DOMAIN t
  BY <1>2, <1>3 DEF IsStore
<1>5. SameRest(t, r)
  BY <1>2, <1>3 DEF IsStore, SameRest
<1>6. IsStore(r) /\ SameRest(s, r)
  BY <1>1, <1>2, <1>4, <1>5 DEF IsStore, SameRest
<1>7. r.mem[a] = v /\ \A p \in Addr \ {a} : r.mem[p] = s.mem[p]
  BY <1>1, <1>2, <1>4 DEF IsStore
<1>8. QED
  BY <1>4, <1>6, <1>7 DEF Rewrites, a, r

(* A slice whose vector is rewritten lives on.                             *)
LEMMA LivesOn ==
  ASSUME NEW s, NEW x \in Alive(s), NEW t, NEW v, NEW l, NEW h, Rewrites(s, t, x, v, l, h)
  PROVE  t.mag[x] \in Slices
<1>1. t.mag[x].ptr \in Addr /\ x \in Name
  BY DEF Rewrites, Alive, Slices
<1>2. t.mag[x] \in Slices \/ t.mag[x] = Dead
  BY <1>1 DEF Rewrites, IsStore
<1>3. QED
  BY <1>1, <1>2, AddrAssumption DEF Dead, Nowhere

(* Moving a window.                                                        *)
LEMMA MoveRewrites ==
  ASSUME NEW s, NEW x \in Alive(s), NEW t, NEW v, NEW l0, NEW h0,
         NEW l \in Nat, NEW h \in Nat, Rewrites(s, t, x, v, l0, h0), NEW r, SameRest(t, r),
         r.mem = t.mem, r.mag = [t.mag EXCEPT ![x] = [ptr |-> t.mag[x].ptr, lo |-> l, hi |-> h]]
  PROVE  Rewrites(s, r, x, v, l, h)
<1> DEFINE m == [ptr |-> t.mag[x].ptr, lo |-> l, hi |-> h]
<1>1. x \in Name /\ IsStore(t) /\ SameRest(s, t) /\ t.mag[x] \in Slices
  BY LivesOn DEF Rewrites, Alive
<1>2. m \in Slices /\ m.ptr = t.mag[x].ptr /\ m.lo = l /\ m.hi = h
  BY <1>1 DEF Slices
<1>3. r.mag = [t.mag EXCEPT ![x] = m]
  OBVIOUS
<1> HIDE DEF m
<1>4. IsStore(r) /\ SameRest(s, r)
  BY <1>1, <1>2, <1>3 DEF IsStore, SameRest
<1>5. r.mag[x] = m /\ \A y \in Name \ {x} : r.mag[y] = t.mag[y]
  BY <1>1, <1>3 DEF IsStore
<1>6. QED
  BY <1>2, <1>4, <1>5 DEF Rewrites

(* Both ends of it.                                                        *)
LEMMA BothRewrites ==
  ASSUME NEW s, Sound(s), NEW x \in Alive(s), NEW t, NEW v, NEW l0, NEW h0,
         NEW l \in Nat, NEW h \in Nat,
         Rewrites(s, t, x, v, l0, h0)
  PROVE  Rewrites(s, [t EXCEPT !.mag[x].lo = l, !.mag[x].hi = h], x, v, l, h)
<1> DEFINE r == [t EXCEPT !.mag[x].lo = l, !.mag[x].hi = h]
           m == [t.mag[x] EXCEPT !.lo = l, !.hi = h]
<1>1. IsStore(t) /\ x \in Name /\ t.mag[x] \in Slices /\ t.mag[x].lo = l0 /\ t.mag[x].hi = h0
  BY LivesOn DEF Rewrites, Alive
<1>2. r.mem = t.mem /\ r.mag = [t.mag EXCEPT ![x] = m]
  BY <1>1 DEF IsStore
<1>3. SameRest(t, r)
  BY <1>1 DEF IsStore, SameRest
<1>4. m = [ptr |-> t.mag[x].ptr, lo |-> l, hi |-> h] /\ l \in Nat /\ h \in Nat
  <2>1. PICK p \in Addr, a \in Nat, b \in Nat : t.mag[x] = [ptr |-> p, lo |-> a, hi |-> b]
    BY <1>1 DEF Slices
  <2> DEFINE e == [t.mag[x] EXCEPT !.lo = l]
  <2>2. e = [ptr |-> p, lo |-> l, hi |-> b]
    BY <2>1
  <2>3. m = [e EXCEPT !.hi = h]
    BY <2>1
  <2> HIDE DEF e, m
  <2>4. QED
    BY <2>1, <2>2, <2>3
<1> HIDE DEF m, r
<1>5. Rewrites(s, r, x, v, l, h)
  BY <1>2, <1>3, <1>4, MoveRewrites
<1>6. QED
  BY <1>5 DEF r

(* Its start.                                                              *)
LEMMA LowRewrites ==
  ASSUME NEW s, Sound(s), NEW x \in Alive(s), NEW t, NEW v, NEW l0, NEW h0, NEW l \in Nat,
         Rewrites(s, t, x, v, l0, h0)
  PROVE  Rewrites(s, [t EXCEPT !.mag[x].lo = l], x, v, l, h0)
<1> DEFINE r == [t EXCEPT !.mag[x].lo = l]
           m == [t.mag[x] EXCEPT !.lo = l]
<1>1. IsStore(t) /\ x \in Name /\ t.mag[x] \in Slices /\ t.mag[x].lo = l0 /\ t.mag[x].hi = h0
  BY LivesOn DEF Rewrites, Alive
<1>2. r.mem = t.mem /\ r.mag = [t.mag EXCEPT ![x] = m]
  BY <1>1 DEF IsStore
<1>3. SameRest(t, r)
  BY <1>1 DEF IsStore, SameRest
<1>4. m = [ptr |-> t.mag[x].ptr, lo |-> l, hi |-> h0] /\ l \in Nat /\ h0 \in Nat
  BY <1>1 DEF Slices
<1> HIDE DEF m, r
<1>5. Rewrites(s, r, x, v, l, h0)
  BY <1>2, <1>3, <1>4, MoveRewrites
<1>6. QED
  BY <1>5 DEF r

(* Its end.                                                                *)
LEMMA HighRewrites ==
  ASSUME NEW s, Sound(s), NEW x \in Alive(s), NEW t, NEW v, NEW l0, NEW h0, NEW h \in Nat,
         Rewrites(s, t, x, v, l0, h0)
  PROVE  Rewrites(s, [t EXCEPT !.mag[x].hi = h], x, v, l0, h)
<1> DEFINE r == [t EXCEPT !.mag[x].hi = h]
           m == [t.mag[x] EXCEPT !.hi = h]
<1>1. IsStore(t) /\ x \in Name /\ t.mag[x] \in Slices /\ t.mag[x].lo = l0 /\ t.mag[x].hi = h0
  BY LivesOn DEF Rewrites, Alive
<1>2. r.mem = t.mem /\ r.mag = [t.mag EXCEPT ![x] = m]
  BY <1>1 DEF IsStore
<1>3. SameRest(t, r)
  BY <1>1 DEF IsStore, SameRest
<1>4. m = [ptr |-> t.mag[x].ptr, lo |-> l0, hi |-> h] /\ l0 \in Nat /\ h \in Nat
  BY <1>1 DEF Slices
<1> HIDE DEF m, r
<1>5. Rewrites(s, r, x, v, l0, h)
  BY <1>2, <1>3, <1>4, MoveRewrites
<1>6. QED
  BY <1>5 DEF r

(* The store itself is of that form.                                       *)
LEMMA SelfRewrites ==
  ASSUME NEW s, Sound(s), NEW x \in Alive(s)
  PROVE  Rewrites(s, s, x, Vec(s, x), s.mag[x].lo, s.mag[x].hi)
  BY DEF Sound, Rewrites, Vec, SameRest

(* prepend(), with room below the window or without.                       *)
LEMMA PrependSound ==
  ASSUME NEW s, Sound(s), NEW x \in Alive(s), Sole(s, x), NEW d \in Data
  PROVE  Differ(s, Prepend_(s, x, d), x, <<d>> \o Words(s, x)) /\ Sole(Prepend_(s, x, d), x)
<1> DEFINE v == Vec(s, x)
           lo == s.mag[x].lo
           hi == s.mag[x].hi
           w == Words(s, x)
           w1 == <<d>> \o w
           t == Prepend_(s, x, d)
<1>1. /\ lo \in Nat /\ hi \in Nat /\ v \in Seq(Data) /\ Len(v) \in Nat
      /\ lo <= hi /\ hi <= Len(v) /\ w \in Seq(Data) /\ Len(w) = hi - lo
      /\ \A i \in 1 .. hi - lo : w[i] = v[lo + i]
  BY SliceWords DEF Count
<1>2. <<d>> \in Seq(Data) /\ Len(<<d>>) = 1 /\ <<d>>[1] = d
  OBVIOUS
<1>3. Rewrites(s, s, x, v, lo, hi)
  BY SelfRewrites
<1>4. CASE lo > 0
  <2> DEFINE v1 == Put(v, lo, d)
  <2>1. t = [SetVec(s, x, v1) EXCEPT !.mag[x].lo = lo - 1]
    BY <1>4 DEF Prepend_
  <2> HIDE DEF v, lo, hi, w, t
  <2>2. /\ v1 \in Seq(Data) /\ Len(v1) = Len(v)
        /\ \A k \in 1 .. Len(v) : v1[k] = IF k = lo THEN d ELSE v[k]
    <3>1. lo \in Int
      BY <1>1
    <3>2. QED
      BY <1>1, <3>1, PutProperties
  <2> HIDE DEF v1
  <2>3. lo - 1 \in Nat
    BY <1>1, <1>4
  <2>4. Rewrites(s, SetVec(s, x, v1), x, v1, lo, hi)
    BY <1>3, <2>2, SetVecRewrites
  <2>5. Rewrites(s, t, x, v1, lo - 1, hi)
    BY <2>1, <2>3, <2>4, LowRewrites
  <2>6. Differ(s, t, x, Between(v1, lo - 1, hi)) /\ Sole(t, x)
    BY <1>1, <2>2, <2>3, <2>5, RewritesSound
  <2>7. /\ w1 \in Seq(Data) /\ Len(w1) = hi - (lo - 1)
        /\ \A i \in 1 .. hi - (lo - 1) : w1[i] = IF i <= 1 THEN <<d>>[i] ELSE w[i - 1]
    <3>1. /\ w1 \in Seq(Data) /\ Len(w1) = 1 + Len(w)
          /\ \A i \in 1 .. 1 + Len(w) : w1[i] = IF i <= 1 THEN <<d>>[i] ELSE w[i - 1]
      BY <1>1, <1>2, ConcatProperties
    <3>2. QED
      BY <1>1, <3>1
  <2> HIDE DEF w1
  <2>8. ASSUME NEW i \in 1 .. hi - (lo - 1) PROVE v1[lo - 1 + i] = w1[i]
    <3>1. CASE i = 1
      BY <1>1, <1>2, <1>4, <2>2, <2>7, <3>1
    <3>2. CASE i # 1
      <4>1. /\ i - 1 \in 1 .. hi - lo /\ lo - 1 + i = lo + (i - 1) /\ lo - 1 + i # lo
            /\ lo - 1 + i \in 1 .. Len(v) /\ ~(i <= 1)
        BY <1>1, <1>4, <3>2
      <4>2. QED
        BY <1>1, <2>2, <2>7, <4>1
    <3>3. QED
      BY <3>1, <3>2
  <2>9. Between(v1, lo - 1, hi) = w1
    <3>1. lo - 1 <= hi /\ hi <= Len(v1)
      BY <1>1, <2>2
    <3>2. QED
      BY <1>1, <2>2, <2>3, <2>7, <2>8, <3>1, BetweenEqual
  <2>10. QED
    BY <2>6, <2>9 DEF w1, w, t
<1>5. CASE ~(lo > 0)
  <2> DEFINE v1 == <<d>> \o v
  <2>1. lo = 0
    BY <1>1, <1>5
  <2>2. t = [SetVec(s, x, v1) EXCEPT !.mag[x].hi = hi + 1]
    BY <1>5 DEF Prepend_
  <2> HIDE DEF v, lo, hi, w, t
  <2>3. /\ v1 \in Seq(Data) /\ Len(v1) = 1 + Len(v)
        /\ \A k \in 1 .. 1 + Len(v) : v1[k] = IF k <= 1 THEN <<d>>[k] ELSE v[k - 1]
    BY <1>1, <1>2, ConcatProperties
  <2>4. /\ w1 \in Seq(Data) /\ Len(w1) = 1 + Len(w)
        /\ \A i \in 1 .. 1 + Len(w) : w1[i] = IF i <= 1 THEN <<d>>[i] ELSE w[i - 1]
    BY <1>1, <1>2, ConcatProperties
  <2> HIDE DEF v1, w1
  <2>5. Rewrites(s, SetVec(s, x, v1), x, v1, lo, hi)
    BY <1>3, <2>3, SetVecRewrites
  <2>6. Rewrites(s, t, x, v1, lo, hi + 1)
    BY <1>1, <2>2, <2>5, HighRewrites
  <2>7. Differ(s, t, x, Between(v1, lo, hi + 1)) /\ Sole(t, x)
    <3>1. hi + 1 \in Nat /\ lo <= hi + 1 /\ hi + 1 <= Len(v1)
      BY <1>1, <2>3
    <3>2. QED
      BY <1>1, <2>3, <2>6, <3>1, RewritesSound
  <2>8. ASSUME NEW i \in 1 .. (hi + 1) - lo PROVE v1[lo + i] = w1[i]
    <3>1. CASE i = 1
      BY <1>1, <1>2, <2>1, <2>3, <2>4, <3>1
    <3>2. CASE i # 1
      <4>1. /\ i - 1 \in 1 .. hi - lo /\ lo + (i - 1) = i - 1 /\ lo + i = i
            /\ i \in 1 .. 1 + Len(v) /\ i \in 1 .. 1 + Len(w) /\ ~(i <= 1)
        BY <1>1, <2>1, <3>2
      <4>2. QED
        BY <1>1, <2>3, <2>4, <4>1
    <3>3. QED
      BY <3>1, <3>2
  <2>9. Between(v1, lo, hi + 1) = w1
    <3>1. hi + 1 \in Nat /\ lo <= hi + 1 /\ hi + 1 <= Len(v1) /\ Len(w1) = (hi + 1) - lo
      BY <1>1, <2>3, <2>4
    <3>2. QED
      BY <1>1, <2>3, <2>4, <2>8, <3>1, BetweenEqual
  <2>10. QED
    BY <2>7, <2>9 DEF w1, w, t
<1>6. QED
  BY <1>4, <1>5

(* append(), with a word above the window or without.                      *)
LEMMA AppendRewrites ==
  ASSUME NEW s, Sound(s), NEW x \in Alive(s), NEW d \in Data
  PROVE  \E v \in Seq(Data), lo, hi \in Nat :
           /\ Rewrites(s, Append_(s, x, d), x, v, lo, hi)
           /\ Len(Vec(s, x)) <= Len(v) /\ lo <= hi /\ hi <= Len(v)
           /\ Between(v, lo, hi) = Append(Words(s, x), d)
<1> DEFINE v == Vec(s, x)
           lo == s.mag[x].lo
           hi == s.mag[x].hi
           w == Words(s, x)
           w1 == Append(w, d)
           v1 == IF hi < Len(v) THEN Put(v, hi + 1, d) ELSE Append(v, d)
           t == Append_(s, x, d)
<1>1. /\ lo \in Nat /\ hi \in Nat /\ v \in Seq(Data) /\ Len(v) \in Nat
      /\ lo <= hi /\ hi <= Len(v) /\ w \in Seq(Data) /\ Len(w) = hi - lo
      /\ \A i \in 1 .. hi - lo : w[i] = v[lo + i]
  BY SliceWords DEF Count
<1>2. Rewrites(s, s, x, v, lo, hi)
  BY SelfRewrites
<1>3. t = [SetVec(s, x, v1) EXCEPT !.mag[x].hi = hi + 1]
  BY DEF Append_
<1> HIDE DEF v, lo, hi, w, t
<1>4. /\ v1 \in Seq(Data) /\ hi + 1 <= Len(v1) /\ v1[hi + 1] = d
      /\ \A k \in 1 .. hi : v1[k] = v[k]
      /\ Len(v) <= Len(v1)
  <2>1. CASE hi < Len(v)
    <3>1. v1 = Put(v, hi + 1, d) /\ hi + 1 \in Int /\ hi + 1 \in 1 .. Len(v)
      BY <1>1, <2>1
    <3>2. /\ Put(v, hi + 1, d) \in Seq(Data) /\ Len(Put(v, hi + 1, d)) = Len(v)
          /\ \A k \in 1 .. Len(v) : Put(v, hi + 1, d)[k] = IF k = hi + 1 THEN d ELSE v[k]
      BY <1>1, <3>1, PutProperties
    <3> HIDE DEF v1
    <3>3. QED
      BY <1>1, <2>1, <3>1, <3>2
  <2>2. CASE ~(hi < Len(v))
    <3>1. v1 = Append(v, d) /\ hi = Len(v)
      BY <1>1, <2>2
    <3>2. /\ Append(v, d) \in Seq(Data) /\ Len(Append(v, d)) = Len(v) + 1
          /\ Append(v, d)[Len(v) + 1] = d
          /\ \A k \in 1 .. Len(v) : Append(v, d)[k] = v[k]
      BY <1>1, AppendProperties
    <3> HIDE DEF v1
    <3>3. QED
      BY <1>1, <3>1, <3>2
  <2>3. QED
    BY <2>1, <2>2
<1>5. /\ w1 \in Seq(Data) /\ Len(w1) = Len(w) + 1 /\ w1[Len(w) + 1] = d
      /\ \A i \in 1 .. Len(w) : w1[i] = w[i]
  BY <1>1, AppendProperties
<1> HIDE DEF v1, w1
<1>6. hi + 1 \in Nat /\ lo <= hi + 1 /\ Len(w1) = (hi + 1) - lo
  BY <1>1, <1>5
<1>7. Rewrites(s, t, x, v1, lo, hi + 1)
  <2>1. Rewrites(s, SetVec(s, x, v1), x, v1, lo, hi)
    BY <1>2, <1>4, SetVecRewrites
  <2>2. QED
    BY <1>3, <1>6, <2>1, HighRewrites
<1>8. ASSUME NEW i \in 1 .. (hi + 1) - lo PROVE v1[lo + i] = w1[i]
  <2>1. CASE i = Len(w) + 1
    <3>1. lo + i = hi + 1
      BY <1>1, <2>1
    <3>2. QED
      BY <1>4, <1>5, <2>1, <3>1
  <2>2. CASE i # Len(w) + 1
    <3>1. i \in 1 .. Len(w) /\ i \in 1 .. hi - lo /\ lo + i \in 1 .. hi
      BY <1>1, <2>2
    <3>2. QED
      BY <1>1, <1>4, <1>5, <3>1
  <2>3. QED
    BY <2>1, <2>2
<1>9. Between(v1, lo, hi + 1) = w1
  BY <1>1, <1>4, <1>5, <1>6, <1>8, BetweenEqual
<1>10. QED
  BY <1>1, <1>4, <1>6, <1>7, <1>9 DEF w1, w, t, v

(* Of a slice that owns its vector.                                        *)
LEMMA AppendSound ==
  ASSUME NEW s, Sound(s), NEW x \in Alive(s), Sole(s, x), NEW d \in Data
  PROVE  Differ(s, Append_(s, x, d), x, Append(Words(s, x), d)) /\ Sole(Append_(s, x, d), x)
<1>1. PICK v \in Seq(Data), lo \in Nat, hi \in Nat :
        /\ Rewrites(s, Append_(s, x, d), x, v, lo, hi) /\ lo <= hi /\ hi <= Len(v)
        /\ Between(v, lo, hi) = Append(Words(s, x), d)
  BY AppendRewrites
<1> DEFINE t == Append_(s, x, d)
<1> HIDE DEF t
<1>2. Rewrites(s, t, x, v, lo, hi)
  BY <1>1 DEF t
<1>3. Differ(s, t, x, Between(v, lo, hi)) /\ Sole(t, x)
  BY <1>1, <1>2, RewritesSound
<1>4. QED
  BY <1>1, <1>3 DEF t

(* The same, of a slice that shares its vector with z.                     *)
LEMMA AppendShared ==
  ASSUME NEW s, Sound(s), NEW x \in Alive(s), NEW z, Only(s, x, z), NEW d \in Data
  PROVE  /\ DifferBut(s, Append_(s, x, d), x, z, Append(Words(s, x), d))
         /\ Only(Append_(s, x, d), x, z)
<1>1. PICK v \in Seq(Data), lo \in Nat, hi \in Nat :
        /\ Rewrites(s, Append_(s, x, d), x, v, lo, hi) /\ lo <= hi /\ hi <= Len(v)
        /\ Len(Vec(s, x)) <= Len(v) /\ Between(v, lo, hi) = Append(Words(s, x), d)
  BY AppendRewrites
<1> DEFINE t == Append_(s, x, d)
<1> HIDE DEF t
<1>2. Rewrites(s, t, x, v, lo, hi)
  BY <1>1 DEF t
<1>3. DifferBut(s, t, x, z, Between(v, lo, hi)) /\ Only(t, x, z)
  BY <1>1, <1>2, RewritesShared
<1>4. QED
  BY <1>1, <1>3 DEF t

(* Writes inside the window, from its start on.                            *)
LEMMA OverwriteRewrites ==
  ASSUME NEW s, Sound(s), NEW x \in Alive(s), NEW u \in Seq(Data), Len(u) <= Count(s, x)
  PROVE  \E v \in Seq(Data), lo, hi \in Nat :
           /\ Rewrites(s, Overwrite(s, x, u), x, v, lo, hi)
           /\ Len(Vec(s, x)) <= Len(v) /\ lo <= hi /\ hi <= Len(v)
           /\ Between(v, lo, hi) \in Seq(Data) /\ Len(Between(v, lo, hi)) = Count(s, x)
           /\ SubSeq(Between(v, lo, hi), 1, Len(u)) = u
<1> DEFINE v == Vec(s, x)
           lo == s.mag[x].lo
           hi == s.mag[x].hi
           v1 == [i \in DOMAIN v |-> IF i - lo \in DOMAIN u THEN u[i - lo] ELSE v[i]]
           t == Overwrite(s, x, u)
           w == Between(v1, lo, hi)
<1>1. /\ lo \in Nat /\ hi \in Nat /\ v \in Seq(Data) /\ Len(v) \in Nat
      /\ lo <= hi /\ hi <= Len(v) /\ Len(u) \in Nat /\ Len(u) <= hi - lo
      /\ Count(s, x) = hi - lo
  BY SliceWords, LenProperties DEF Count
<1>2. Rewrites(s, s, x, v, lo, hi)
  BY SelfRewrites
<1>3. t = SetVec(s, x, v1)
  BY DEF Overwrite
<1> HIDE DEF v, lo, hi, t
<1>4. /\ v1 \in Seq(Data) /\ Len(v1) = Len(v)
      /\ \A i \in 1 .. Len(u) : v1[lo + i] = u[i]
  <2>1. /\ DOMAIN v = 1 .. Len(v) /\ \A i \in 1 .. Len(v) : v[i] \in Data
        /\ DOMAIN u = 1 .. Len(u) /\ \A i \in 1 .. Len(u) : u[i] \in Data
    BY <1>1, LenProperties, ElementOfSeq
  <2>2. v1 = [i \in 1 .. Len(v) |-> IF i - lo \in 1 .. Len(u) THEN u[i - lo] ELSE v[i]]
    BY <2>1
  <2> HIDE DEF v1
  <2>3. v1 \in Seq(Data) /\ Len(v1) = Len(v)
    BY <1>1, <2>1, <2>2
  <2>4. ASSUME NEW i \in 1 .. Len(u) PROVE v1[lo + i] = u[i]
    <3>1. lo + i \in 1 .. Len(v) /\ (lo + i) - lo = i
      BY <1>1
    <3>2. QED
      BY <2>2, <3>1
  <2>5. QED
    BY <2>3, <2>4
<1> HIDE DEF v1
<1>5. Rewrites(s, t, x, v1, lo, hi)
  BY <1>2, <1>3, <1>4, SetVecRewrites
<1>6. /\ w \in Seq(Data) /\ Len(w) = hi - lo
      /\ \A i \in 1 .. hi - lo : w[i] = v1[lo + i]
  BY <1>1, <1>4, BetweenProperties
<1> HIDE DEF w
<1>7. \A i \in 1 .. Len(u) : w[i] = u[i]
  BY <1>1, <1>4, <1>6
<1>8. Between(w, 0, Len(u)) = u
  <2> DEFINE z == Between(w, 0, Len(u))
  <2>1. 0 \in Nat /\ 0 <= Len(u) /\ Len(u) <= Len(w)
    BY <1>1, <1>6
  <2>2. /\ z \in Seq(Data) /\ Len(z) = Len(u) - 0
        /\ \A i \in 1 .. Len(u) - 0 : z[i] = w[0 + i]
    BY <1>1, <1>6, <2>1, BetweenProperties
  <2> HIDE DEF z
  <2>3. Len(z) = Len(u) /\ \A i \in 1 .. Len(z) : z[i] = u[i]
    BY <1>1, <1>7, <2>2
  <2>4. z = u
    BY <2>2, <2>3, SeqEqual
  <2>5. QED
    BY <2>4 DEF z
<1>9. SubSeq(w, 1, Len(u)) = u
  BY <1>8 DEF Between
<1>10. Len(Vec(s, x)) <= Len(v1)
  BY <1>1, <1>4 DEF v
<1>11. w = Between(v1, lo, hi) /\ Len(w) = Count(s, x)
  BY <1>1, <1>6 DEF w
<1> HIDE DEF w
<1>12. QED
  BY <1>1, <1>4, <1>5, <1>6, <1>9, <1>10, <1>11 DEF t

(* Of a slice that owns its vector.                                        *)
LEMMA OverwritePrefix ==
  ASSUME NEW s, Sound(s), NEW x \in Alive(s), Sole(s, x),
         NEW u \in Seq(Data), Len(u) <= Count(s, x)
  PROVE  LET t == Overwrite(s, x, u)
         IN  /\ Differ(s, t, x, Words(t, x)) /\ Sole(t, x)
             /\ Len(Words(t, x)) = Count(s, x)
             /\ SubSeq(Words(t, x), 1, Len(u)) = u
<1>1. PICK v \in Seq(Data), lo \in Nat, hi \in Nat :
        /\ Rewrites(s, Overwrite(s, x, u), x, v, lo, hi) /\ lo <= hi /\ hi <= Len(v)
        /\ Len(Between(v, lo, hi)) = Count(s, x) /\ SubSeq(Between(v, lo, hi), 1, Len(u)) = u
  BY OverwriteRewrites
<1> DEFINE t == Overwrite(s, x, u)
<1> HIDE DEF t
<1>2. Rewrites(s, t, x, v, lo, hi)
  BY <1>1 DEF t
<1>3. Differ(s, t, x, Between(v, lo, hi)) /\ Sole(t, x)
  BY <1>1, <1>2, RewritesSound
<1>4. Words(t, x) = Between(v, lo, hi)
  BY <1>3 DEF Differ
<1>5. QED
  BY <1>1, <1>3, <1>4 DEF t

(* Writes of all the words of the window.                                  *)
LEMMA OverwriteSound ==
  ASSUME NEW s, Sound(s), NEW x \in Alive(s), Sole(s, x),
         NEW u \in Seq(Data), Len(u) = Count(s, x)
  PROVE  Differ(s, Overwrite(s, x, u), x, u) /\ Sole(Overwrite(s, x, u), x)
<1> DEFINE t == Overwrite(s, x, u)
           w == Words(t, x)
<1>1. Count(s, x) \in Nat
  BY SliceWords
<1>2. Differ(s, t, x, w) /\ Sole(t, x) /\ Len(w) = Len(u) /\ SubSeq(w, 1, Len(u)) = u
  BY <1>1, OverwritePrefix
<1>3. w \in Seq(Data)
  BY <1>2, SliceWords DEF Differ
<1> HIDE DEF w, t
<1>4. w = u
  BY <1>2, <1>3, SubSeqFull
<1>5. QED
  BY <1>2, <1>4 DEF t

(* The same, of a slice that shares its vector with z.                     *)
LEMMA OverwriteShared ==
  ASSUME NEW s, Sound(s), NEW x \in Alive(s), NEW z, Only(s, x, z),
         NEW u \in Seq(Data), Len(u) = Count(s, x)
  PROVE  DifferBut(s, Overwrite(s, x, u), x, z, u) /\ Only(Overwrite(s, x, u), x, z)
<1>1. Len(u) <= Count(s, x)
  BY SliceWords
<1>2. PICK v \in Seq(Data), lo \in Nat, hi \in Nat :
        /\ Rewrites(s, Overwrite(s, x, u), x, v, lo, hi) /\ lo <= hi /\ hi <= Len(v)
        /\ Len(Vec(s, x)) <= Len(v)
        /\ Between(v, lo, hi) \in Seq(Data) /\ Len(Between(v, lo, hi)) = Count(s, x)
        /\ SubSeq(Between(v, lo, hi), 1, Len(u)) = u
  <2>1. \E v \in Seq(Data), lo, hi \in Nat :
           /\ Rewrites(s, Overwrite(s, x, u), x, v, lo, hi)
           /\ Len(Vec(s, x)) <= Len(v) /\ lo <= hi /\ hi <= Len(v)
           /\ Between(v, lo, hi) \in Seq(Data) /\ Len(Between(v, lo, hi)) = Count(s, x)
           /\ SubSeq(Between(v, lo, hi), 1, Len(u)) = u
    BY ONLY Sound(s), x \in Alive(s), u \in Seq(Data), <1>1, OverwriteRewrites
  <2>2. QED
    BY <2>1
<1> DEFINE t == Overwrite(s, x, u)
           w == Between(v, lo, hi)
<1> HIDE DEF t
<1>3. Rewrites(s, t, x, v, lo, hi)
  BY <1>2 DEF t
<1>4. DifferBut(s, t, x, z, w) /\ Only(t, x, z)
  BY <1>2, <1>3, RewritesShared
<1> HIDE DEF w
<1>5. w = u
  BY <1>2, SubSeqFull DEF w
<1>6. QED
  BY <1>4, <1>5 DEF t

(* preExtend(), with n words below the window or without.                  *)
LEMMA PreExtendSound ==
  ASSUME NEW s, Sound(s), NEW x \in Alive(s), Sole(s, x), NEW n \in Nat
  PROVE  Differ(s, PreExtend(s, x, n), x, Zeros(n) \o Words(s, x)) /\ Sole(PreExtend(s, x, n), x)
<1> DEFINE v == Vec(s, x)
           lo == s.mag[x].lo
           hi == s.mag[x].hi
           w == Words(s, x)
           w1 == Zeros(n) \o w
           ex == n - lo + 1
           t1 == IF lo >= n THEN [s EXCEPT !.mag[x].lo = lo - n]
                 ELSE [SetVec(s, x, Zeros(ex) \o v) EXCEPT !.mag[x].lo = 1,
                                                           !.mag[x].hi = hi + ex]
           l1 == t1.mag[x].lo
           h1 == t1.mag[x].hi
           v0 == Vec(t1, x)
           v1 == [i \in DOMAIN v0 |-> IF i \in l1 + 1 .. l1 + n THEN 0 ELSE v0[i]]
           t == PreExtend(s, x, n)
<1>1. /\ lo \in Nat /\ hi \in Nat /\ v \in Seq(Data) /\ Len(v) \in Nat
      /\ lo <= hi /\ hi <= Len(v) /\ w \in Seq(Data) /\ Len(w) = hi - lo
      /\ \A i \in 1 .. hi - lo : w[i] = v[lo + i]
  BY SliceWords DEF Count
<1>2. Rewrites(s, s, x, v, lo, hi)
  BY SelfRewrites
<1>3. t = SetVec(t1, x, v1)
  BY SMTT(60) DEF PreExtend, DefaultPreSpace
<1>4. /\ Rewrites(s, t1, x, v0, l1, h1) /\ v0 \in Seq(Data)
      /\ l1 \in Nat /\ h1 \in Nat /\ h1 - l1 = n + (hi - lo) /\ h1 <= Len(v0)
      /\ \A i \in 1 .. hi - lo : v0[l1 + n + i] = v[lo + i]
  <2>1. ASSUME NEW r, NEW l, NEW h, NEW u, r = t1, Rewrites(s, r, x, u, l, h)
        PROVE  l1 = l /\ h1 = h /\ v0 = u /\ Rewrites(s, t1, x, v0, l1, h1)
    <3>1. r.mag[x].lo = l /\ r.mag[x].hi = h /\ r.mem[r.mag[x].ptr] = u
      BY <2>1 DEF Rewrites
    <3> HIDE DEF t1
    <3>2. l1 = l /\ h1 = h /\ v0 = u
      BY <2>1, <3>1 DEF Vec
    <3> HIDE DEF l1, h1, v0
    <3>3. QED
      BY <2>1, <3>2, SMTT(60)
  <2>2. CASE lo >= n
    <3> DEFINE r == [s EXCEPT !.mag[x].lo = lo - n]
    <3>1. r = t1
      BY <2>2
    <3> HIDE DEF v, lo, hi, w, w1, ex, t, t1, l1, h1, v0, v1
    <3>2. lo - n \in Nat
      BY <1>1, <2>2
    <3>3. Rewrites(s, r, x, v, lo - n, hi)
      BY <1>2, <3>2, LowRewrites
    <3> HIDE DEF r
    <3>4. l1 = lo - n /\ h1 = hi /\ v0 = v /\ Rewrites(s, t1, x, v0, l1, h1)
      BY <2>1, <3>1, <3>3
    <3>5. \A i \in 1 .. hi - lo : (lo - n) + n + i = lo + i
      BY <1>1
    <3>6. \A i \in 1 .. hi - lo : v0[l1 + n + i] = v[lo + i]
      BY <3>4, <3>5
    <3>7. hi - (lo - n) = n + (hi - lo)
      BY <1>1
    <3>8. QED
      BY <1>1, <3>2, <3>4, <3>6, <3>7
  <2>3. CASE ~(lo >= n)
    <3> DEFINE z == Zeros(ex)
               u == z \o v
               r == [SetVec(s, x, u) EXCEPT !.mag[x].lo = 1, !.mag[x].hi = hi + ex]
    <3>1. r = t1
      BY <2>3
    <3>2. ex \in Nat /\ ex = n - lo + 1
      BY <1>1, <2>3
    <3>3. z \in Seq(Data) /\ Len(z) = ex
      BY <3>2, ZerosProperties
    <3> HIDE DEF v, lo, hi, w, w1, ex, t, t1, l1, h1, v0, v1, z
    <3>4. /\ u \in Seq(Data) /\ Len(u) = Len(z) + Len(v)
          /\ \A i \in 1 .. Len(z) + Len(v) : u[i] = IF i <= Len(z) THEN z[i] ELSE v[i - Len(z)]
      BY <1>1, <3>3, ConcatProperties
    <3> HIDE DEF u
    <3>5. Rewrites(s, SetVec(s, x, u), x, u, lo, hi)
      BY <1>2, <3>4, SetVecRewrites
    <3>6. Rewrites(s, r, x, u, 1, hi + ex)
      <4>1. 1 \in Nat /\ hi + ex \in Nat
        BY <1>1, <3>2
      <4>2. QED
        BY <3>5, <4>1, BothRewrites
    <3> HIDE DEF r
    <3>7. l1 = 1 /\ h1 = hi + ex /\ v0 = u /\ Rewrites(s, t1, x, v0, l1, h1)
      BY <2>1, <3>1, <3>6
    <3>8. ASSUME NEW i \in 1 .. hi - lo PROVE u[1 + n + i] = v[lo + i]
      <4>1. /\ 1 + n + i \in 1 .. Len(z) + Len(v) /\ ~(1 + n + i <= Len(z))
            /\ (1 + n + i) - Len(z) = lo + i
        BY <1>1, <3>2, <3>3
      <4>2. QED
        BY <3>4, <4>1
    <3>9. (hi + ex) - 1 = n + (hi - lo) /\ hi + ex <= Len(u) /\ hi + ex \in Nat
      BY <1>1, <3>2, <3>3, <3>4
    <3>10. QED
      BY <3>4, <3>7, <3>8, <3>9
  <2>4. QED
    BY <2>2, <2>3
<1> HIDE DEF v, lo, hi, w, ex, t, t1, l1, h1, v0
<1>5. /\ v1 \in Seq(Data) /\ Len(v1) = Len(v0)
      /\ \A i \in 1 .. Len(v0) : v1[i] = IF i \in l1 + 1 .. l1 + n THEN 0 ELSE v0[i]
  <2>1. /\ DOMAIN v0 = 1 .. Len(v0) /\ Len(v0) \in Nat
        /\ \A i \in 1 .. Len(v0) : v0[i] \in Data
    BY <1>4, LenProperties, ElementOfSeq
  <2>2. v1 = [i \in 1 .. Len(v0) |-> IF i \in l1 + 1 .. l1 + n THEN 0 ELSE v0[i]]
    BY <2>1
  <2> HIDE DEF v1
  <2>3. QED
    BY <2>1, <2>2, DataAssumption
<1> HIDE DEF v1
<1> DEFINE z == Zeros(n)
<1>6. z \in Seq(Data) /\ Len(z) = n /\ \A i \in 1 .. n : z[i] = 0
  BY ZerosProperties
<1> HIDE DEF z
<1>7. /\ w1 \in Seq(Data) /\ Len(w1) = n + Len(w)
      /\ \A i \in 1 .. n + Len(w) : w1[i] = IF i <= n THEN z[i] ELSE w[i - n]
  <2>1. /\ z \o w \in Seq(Data) /\ Len(z \o w) = Len(z) + Len(w)
        /\ \A i \in 1 .. Len(z) + Len(w) : (z \o w)[i] = IF i <= Len(z) THEN z[i] ELSE w[i - Len(z)]
    BY <1>1, <1>6, ConcatProperties
  <2>2. w1 = z \o w
    BY DEF z
  <2> HIDE DEF w1
  <2>3. QED
    BY <1>6, <2>1, <2>2
<1> HIDE DEF w1
<1>8. Rewrites(s, t, x, v1, l1, h1)
  BY <1>3, <1>4, <1>5, SetVecRewrites
<1>9. l1 <= h1 /\ h1 <= Len(v1) /\ Len(w1) = h1 - l1 /\ Len(v0) \in Nat
  BY <1>1, <1>4, <1>5, <1>7, LenProperties
<1>10. Differ(s, t, x, Between(v1, l1, h1)) /\ Sole(t, x)
  BY <1>4, <1>5, <1>8, <1>9, RewritesSound
<1>11. ASSUME NEW i \in 1 .. h1 - l1 PROVE v1[l1 + i] = w1[i]
  <2>1. l1 + i \in 1 .. Len(v0) /\ i \in 1 .. n + Len(w)
    BY <1>4, <1>5, <1>7, <1>9
  <2>2. CASE i <= n
    <3>1. l1 + i \in l1 + 1 .. l1 + n /\ i \in 1 .. n
      BY <1>4, <2>2
    <3>2. QED
      BY <1>5, <1>6, <1>7, <2>1, <2>2, <3>1
  <2>3. CASE ~(i <= n)
    <3>1. /\ ~(l1 + i \in l1 + 1 .. l1 + n) /\ i - n \in 1 .. hi - lo
          /\ l1 + n + (i - n) = l1 + i
      BY <1>1, <1>4, <2>3
    <3>2. v1[l1 + i] = v0[l1 + n + (i - n)]
      BY <1>5, <2>1, <3>1
    <3>3. w1[i] = w[i - n]
      BY <1>7, <2>1, <2>3
    <3>4. QED
      BY <1>1, <1>4, <3>1, <3>2, <3>3
  <2>4. QED
    BY <2>2, <2>3
<1>12. Between(v1, l1, h1) = w1
  BY <1>4, <1>5, <1>7, <1>9, <1>11, BetweenEqual
<1>13. QED
  BY <1>10, <1>12 DEF w1, w, t

(* slice() inside the window: nothing is written, so that the vector may   *)
(* be shared.                                                              *)
LEMMA NarrowSound ==
  ASSUME NEW s, Sound(s), NEW x \in Alive(s),
         NEW h \in 0 .. Count(s, x), NEW l \in 0 .. h
  PROVE  LET t == SubSlice(s, x, l, h)
         IN  /\ Differ(s, t, x, SubSeq(Words(s, x), l + 1, h))
             /\ Sole(s, x) => Sole(t, x)
<1> DEFINE v == Vec(s, x)
           lo == s.mag[x].lo
           hi == s.mag[x].hi
           w == Words(s, x)
           w1 == Between(w, l, h)
           t == SubSlice(s, x, l, h)
           a == IF l = h THEN lo ELSE lo + l
           b == IF l = h THEN lo ELSE lo + h
<1>1. /\ lo \in Nat /\ hi \in Nat /\ v \in Seq(Data) /\ Len(v) \in Nat
      /\ lo <= hi /\ hi <= Len(v) /\ w \in Seq(Data) /\ Len(w) = hi - lo
      /\ \A i \in 1 .. hi - lo : w[i] = v[lo + i]
      /\ Count(s, x) = hi - lo
  BY SliceWords DEF Count
<1>2. Rewrites(s, s, x, v, lo, hi)
  BY SelfRewrites
<1>3. h \in Nat /\ l \in Nat /\ l <= h /\ h <= hi - lo
  BY <1>1
<1>4. t = IF l = h THEN [s EXCEPT !.mag[x].hi = lo]
          ELSE [s EXCEPT !.mag[x].lo = lo + l, !.mag[x].hi = lo + h]
  <2>1. ~(h > Count(s, x))
    BY <1>1, <1>3
  <2>2. QED
    BY <2>1 DEF SubSlice
<1>5. w1 \in Seq(Data) /\ Len(w1) = h - l /\ \A i \in 1 .. h - l : w1[i] = w[l + i]
  <2> HIDE DEF w
  <2>1. h <= Len(w)
    BY <1>1, <1>3
  <2>2. QED
    BY <1>1, <1>3, <2>1, BetweenProperties
<1> HIDE DEF v, lo, hi, w, w1, t
<1>6. /\ a \in Nat /\ b \in Nat /\ a <= b /\ b <= Len(v) /\ lo + l \in Nat /\ lo + h \in Nat
      /\ Len(w1) = b - a
  BY <1>1, <1>3, <1>5
<1>7. Rewrites(s, t, x, v, a, b)
  <2>1. CASE l = h
    BY <1>1, <1>2, <1>4, <2>1, HighRewrites
  <2>2. CASE l # h
    <3>1. a = lo + l /\ b = lo + h /\ t = [s EXCEPT !.mag[x].lo = lo + l, !.mag[x].hi = lo + h]
      BY <1>4, <2>2
    <3> HIDE DEF a, b
    <3>2. t = [s EXCEPT !.mag[x].lo = a, !.mag[x].hi = b] /\ a \in Nat /\ b \in Nat
      BY <1>6, <3>1
    <3>3. QED
      BY <1>2, <3>2, BothRewrites
  <2>3. QED
    BY <2>1, <2>2
<1>8. ASSUME NEW i \in 1 .. b - a PROVE v[a + i] = w1[i]
  <2>1. l # h /\ i \in 1 .. h - l /\ l + i \in 1 .. hi - lo /\ a + i = lo + (l + i)
    BY <1>1, <1>3
  <2>2. QED
    BY <1>1, <1>5, <2>1
<1> HIDE DEF a, b
<1>9. Between(v, a, b) = w1
  BY <1>1, <1>5, <1>6, <1>8, BetweenEqual
<1>10. Differ(s, t, x, Between(v, a, b)) /\ (Sole(s, x) => Sole(t, x))
  <2>1. v = Vec(s, x)
    BY DEF v
  <2>2. QED
    BY <1>1, <1>6, <1>7, <2>1, RewritesSound
<1>11. QED
  BY <1>9, <1>10 DEF t, w1, w, Between

(* slice() beyond the window's end: what was left of the window is there,  *)
(* and what else there is comes from the vector.                           *)
LEMMA WidenSound ==
  ASSUME NEW s, Sound(s), NEW x \in Alive(s), Sole(s, x),
         NEW h \in Nat, h > Count(s, x), NEW l \in 0 .. Count(s, x)
  PROVE  LET t == SubSlice(s, x, l, h)
         IN  /\ Differ(s, t, x, Words(t, x)) /\ Sole(t, x)
             /\ Len(Words(t, x)) = h - l
             /\ SubSeq(Words(t, x), 1, Count(s, x) - l) = SubSeq(Words(s, x), l + 1, Count(s, x))
<1> DEFINE v == Vec(s, x)
           lo == s.mag[x].lo
           hi == s.mag[x].hi
           w == Words(s, x)
           c == Count(s, x)
           v1 == Resize(v, lo + h)
           t == SubSlice(s, x, l, h)
           w1 == Between(v1, lo + l, lo + h)
<1>1. /\ lo \in Nat /\ hi \in Nat /\ v \in Seq(Data) /\ Len(v) \in Nat
      /\ lo <= hi /\ hi <= Len(v) /\ w \in Seq(Data) /\ Len(w) = c
      /\ \A i \in 1 .. c : w[i] = v[lo + i]
      /\ c = hi - lo
  BY SliceWords DEF Count
<1>2. l \in Nat /\ l <= c /\ l < h /\ h > c /\ c \in Nat
  BY <1>1
<1>3. t = [SetVec(s, x, v1) EXCEPT !.mag[x].lo = lo + l, !.mag[x].hi = lo + h]
  BY <1>2 DEF SubSlice
<1>4. Rewrites(s, s, x, v, lo, hi)
  BY SelfRewrites
<1> HIDE DEF v, lo, hi, w, c, t
<1>5. lo + l \in Nat /\ lo + h \in Nat /\ lo + l <= lo + h
  BY <1>1, <1>2
<1>6. /\ v1 \in Seq(Data) /\ Len(v1) = lo + h
      /\ \A k \in 1 .. lo + h : k <= Len(v) => v1[k] = v[k]
  BY <1>1, <1>5, ResizeProperties
<1> HIDE DEF v1
<1>7. Rewrites(s, t, x, v1, lo + l, lo + h)
  <2>1. Rewrites(s, SetVec(s, x, v1), x, v1, lo, hi)
    BY <1>4, <1>6, SetVecRewrites
  <2>2. QED
    BY <1>3, <1>5, <2>1, BothRewrites
<1>8. lo + h <= Len(v1)
  BY <1>5, <1>6
<1>9. Differ(s, t, x, w1) /\ Sole(t, x)
  BY <1>5, <1>6, <1>7, <1>8, RewritesSound
<1>10. /\ w1 \in Seq(Data) /\ Len(w1) = (lo + h) - (lo + l)
       /\ \A i \in 1 .. (lo + h) - (lo + l) : w1[i] = v1[(lo + l) + i]
  BY <1>5, <1>6, <1>8, BetweenProperties
<1>11. Len(w1) = h - l
  BY <1>1, <1>2, <1>10
<1> HIDE DEF w1
<1> DEFINE u == Between(w, l, c)
<1>12. u \in Seq(Data) /\ Len(u) = c - l /\ \A i \in 1 .. c - l : u[i] = w[l + i]
  <2>1. c <= Len(w)
    BY <1>1, <1>2
  <2>2. QED
    BY <1>1, <1>2, <2>1, BetweenProperties
<1> HIDE DEF u
<1>13. ASSUME NEW i \in 1 .. c - l PROVE w1[i] = u[i]
  <2>1. /\ i \in 1 .. (lo + h) - (lo + l) /\ l + i \in 1 .. c
        /\ (lo + l) + i = lo + (l + i)
        /\ lo + (l + i) \in 1 .. lo + h /\ lo + (l + i) <= Len(v)
    BY <1>1, <1>2
  <2>2. w1[i] = v1[lo + (l + i)]
    BY <1>10, <2>1
  <2>3. QED
    BY <1>1, <1>6, <1>12, <2>1, <2>2
<1>14. Between(w1, 0, c - l) = u
  <2> DEFINE e == c - l
  <2>1. e \in Nat /\ 0 <= e /\ e <= Len(w1) /\ Len(u) = e - 0
    BY <1>1, <1>2, <1>11, <1>12
  <2>2. \A i \in 1 .. e - 0 : w1[0 + i] = u[i]
    BY <1>2, <1>13
  <2>3. w1 \in Seq(Data) /\ u \in Seq(Data)
    BY <1>10, <1>12
  <2> HIDE DEF e
  <2>4. Between(w1, 0, e) = u
    BY <2>1, <2>2, <2>3, BetweenEqual
  <2>5. QED
    BY <2>4 DEF e
<1>15. SubSeq(w1, 1, c - l) = SubSeq(w, l + 1, c)
  <2>1. 0 + 1 = 1
    OBVIOUS
  <2>2. SubSeq(w1, 0 + 1, c - l) = SubSeq(w, l + 1, c)
    BY <1>14 DEF u, Between
  <2>3. QED
    BY <2>1, <2>2
<1>16. Words(t, x) = w1
  BY <1>9 DEF Differ
<1>17. QED
  BY <1>9, <1>11, <1>15, <1>16 DEF t, w, c


-----------------------------------------------------------------------------
(* Which slices share a vector: writes and moving windows do not matter.   *)
Placed(s, t) == \A y \in Name : t.mag[y].ptr = s.mag[y].ptr

(* The member functions that allocate nothing.                             *)
LEMMA SlicesStayPut ==
  ASSUME NEW s, Sound(s), NEW x, NEW l, NEW h, NEW u, NEW d
  PROVE  /\ Placed(s, SubSlice(s, x, l, h))
         /\ Placed(s, Overwrite(s, x, u))
         /\ Placed(s, Append_(s, x, d))
<1>1. {"mem", "mag"} \subseteq DOMAIN s /\ s.mag \in [Name -> Slices \cup {Dead}]
  BY DEF Sound, IsStore
<1>2. \A y \in Name : {"ptr", "lo", "hi"} \subseteq DOMAIN s.mag[y]
  BY <1>1 DEF Slices, Dead
<1>3. ASSUME NEW v
      PROVE  SetVec(s, x, v).mag = s.mag /\ "mag" \in DOMAIN SetVec(s, x, v)
  BY <1>1 DEF SetVec
<1>4. ASSUME NEW t, t.mag = s.mag, "mag" \in DOMAIN t, NEW i, NEW j
      PROVE  /\ Placed(s, t) /\ Placed(s, [t EXCEPT !.mag[x].hi = j])
             /\ Placed(s, [t EXCEPT !.mag[x].lo = i, !.mag[x].hi = j])
  <2>1. [t EXCEPT !.mag[x].hi = j].mag = [s.mag EXCEPT ![x].hi = j]
    BY <1>4
  <2>2. [t EXCEPT !.mag[x].lo = i, !.mag[x].hi = j].mag = [s.mag EXCEPT ![x].lo = i, ![x].hi = j]
    BY <1>4
  <2>3. QED
    BY <1>1, <1>2, <1>4, <2>1, <2>2 DEF Placed
<1>5. Placed(s, SubSlice(s, x, l, h))
  <2> DEFINE t == IF h > Count(s, x) THEN SetVec(s, x, Resize(Vec(s, x), s.mag[x].lo + h)) ELSE s
  <2>1. t.mag = s.mag /\ "mag" \in DOMAIN t /\ "mag" \in DOMAIN s
    BY <1>1, <1>3
  <2>2. SubSlice(s, x, l, h) = IF l = h THEN [s EXCEPT !.mag[x].hi = s.mag[x].lo]
                               ELSE [t EXCEPT !.mag[x].lo = s.mag[x].lo + l, !.mag[x].hi = s.mag[x].lo + h]
    BY DEF SubSlice
  <2> HIDE DEF t
  <2>3. Placed(s, [t EXCEPT !.mag[x].lo = s.mag[x].lo + l, !.mag[x].hi = s.mag[x].lo + h])
    BY <1>4, <2>1
  <2>4. Placed(s, [s EXCEPT !.mag[x].hi = s.mag[x].lo])
    BY <1>4, <2>1
  <2>5. QED
    BY <2>2, <2>3, <2>4
<1>6. Placed(s, Overwrite(s, x, u))
  BY <1>3, <1>4 DEF Overwrite
<1>7. Placed(s, Append_(s, x, d))
  <2> DEFINE v == IF s.mag[x].hi < Len(Vec(s, x)) THEN Put(Vec(s, x), s.mag[x].hi + 1, d)
                  ELSE Append(Vec(s, x), d)
  <2>1. Append_(s, x, d) = [SetVec(s, x, v) EXCEPT !.mag[x].hi = s.mag[x].hi + 1]
    BY DEF Append_
  <2> HIDE DEF v
  <2>2. QED
    BY <1>3, <1>4, <2>1
<1>8. QED
  BY <1>5, <1>6, <1>7

(* cloneData() of one slice leaves another's vector its own.               *)
LEMMA CloneSpares ==
  ASSUME NEW s, Sound(s), NEW x \in Alive(s), NEW y \in Alive(s), x # y, Sole(s, y)
  PROVE  Sole(CloneData(s, x), y)
<1>1. CASE UseCount(s, x) = 1
  BY <1>1 DEF CloneData
<1>2. CASE UseCount(s, x) # 1
  <2> DEFINE p == CHOOSE a \in Addr : a \notin InUse(s)
             v == Zeros(DefaultPreSpace) \o Words(s, x)
             m == [ptr |-> p, lo |-> DefaultPreSpace, hi |-> DefaultPreSpace + Count(s, x)]
             t == CloneData(s, x)
  <2>1. p \notin InUse(s)
    BY FreeAddress
  <2>2. t = [s EXCEPT !.mem[p] = v, !.mag[x] = m]
    BY <1>2 DEF CloneData, Allocate
  <2> HIDE DEF p, v, t
  <2>3. /\ {"mem", "mag"} \subseteq DOMAIN s /\ s.mag \in [Name -> Slices \cup {Dead}]
        /\ x \in Name /\ y \in Name
    BY DEF Sound, IsStore, Alive
  <2>4. t.mag = [s.mag EXCEPT ![x] = m]
    BY <2>2, <2>3
  <2>5. t.mag[x] = m /\ \A z \in Name \ {x} : t.mag[z] = s.mag[z]
    BY <2>3, <2>4
  <2>6. \A z \in Name \ {y} : t.mag[z].ptr # t.mag[y].ptr
    <3>1. t.mag[x].ptr # t.mag[y].ptr
      BY <2>1, <2>3, <2>5 DEF InUse
    <3>2. \A z \in Name \ {y} : s.mag[z].ptr # s.mag[y].ptr
      BY <2>3, OwnVector
    <3>3. QED
      BY <2>3, <2>5, <3>1, <3>2
  <2>7. QED
    BY <2>3, <2>6, SoleAt DEF t
<1>3. QED
  BY <1>1, <1>2

(* A slice that owns its vector shares it with z at most.                  *)
LEMMA SoleOnly ==
  ASSUME NEW s, NEW x \in Name, Sole(s, x), NEW z
  PROVE  Only(s, x, z)
  BY OwnVector DEF Only
=============================================================================
