----------------------- MODULE BigIntegerImpl_proofs -----------------------
(* Objects that share vectors compute as integers do, whatever sequence of *)
(* calls a client makes that neither works on bits nor loads binary images.*)
EXTENDS BigIntegerImpl, Words_proofs

Nums == [sign : Sign, cached : BOOLEAN, nz : Nat]

(* Stores of objects: of slices of words with their flags and caches.      *)
Proper(s) == Sound(s) /\ "num" \in DOMAIN s /\ s.num \in [Name -> Nums]

(* Sign and words of an object that stands for v, as the class keeps them. *)
SignumOf(sign) == CASE sign = "POSITIVE" -> 1 [] sign = "ZERO" -> 0 [] OTHER -> -1
Represents(sign, w, v) == /\ w \in Seq(Word) /\ Trimmed(w)
                          /\ sign \in Sign /\ (sign = "ZERO" <=> w = << >>)
                          /\ v = SignumOf(sign) * ToNat(w)
Holds(s, x, v) == x \in Alive(s) /\ Represents(SignOf(s, x), Words(s, x), v)

(* The objects that live in s, but those of X, are in t what they were.    *)
Preserves(s, t, X) ==
  /\ Proper(t)
  /\ \A y \in Alive(s) \ X : /\ y \in Alive(t)
                             /\ Words(t, y) = Words(s, y) /\ SignOf(t, y) = SignOf(s, y)

(* x gets sign and words, or a value; nobody else notices.                 *)
Writes(s, t, x, sign, w) == /\ Preserves(s, t, {x}) /\ x \in Alive(t)
                            /\ SignOf(t, x) = sign /\ Words(t, x) = w
Yields(s, t, x, v) == Preserves(s, t, {x}) /\ Holds(t, x, v)

-----------------------------------------------------------------------------
(* Every member function is a sequence of steps, each of which spares what *)
(* it is not about.                                                        *)
LEMMA PreservesTwice ==
  ASSUME NEW s, NEW t, NEW r, NEW X, Preserves(s, t, X), Preserves(t, r, X)
  PROVE  Preserves(s, r, X)
  BY DEF Preserves

(* A local that did not live is no object that changes.                    *)
LEMMA PreservesDead ==
  ASSUME NEW s, NEW t, NEW X, NEW z, z \notin Alive(s), Preserves(s, t, X \cup {z})
  PROVE  Preserves(s, t, X)
  BY DEF Preserves

(* What changes less.                                                      *)
LEMMA PreservesMore ==
  ASSUME NEW s, NEW t, NEW X, NEW Y, X \subseteq Y, Preserves(s, t, X)
  PROVE  Preserves(s, t, Y)
  BY DEF Preserves

(* Nothing done is nothing changed.                                        *)
LEMMA PreservesNothing ==
  ASSUME NEW s, Proper(s), NEW X
  PROVE  Preserves(s, s, X)
  BY DEF Preserves

(* Member functions of the slice leave flags and caches alone.             *)
LEMMA DifferWrites ==
  ASSUME NEW s, Proper(s), NEW t, NEW x, NEW w, Differ(s, t, x, w)
  PROVE  Writes(s, t, x, SignOf(s, x), w)
<1>1. t.num = s.num /\ "num" \in DOMAIN t
  BY DEF Differ, SameRest, Proper
<1>2. Proper(t)
  BY <1>1 DEF Proper, Differ
<1>3. QED
  BY <1>1, <1>2 DEF Differ, Writes, Preserves, SignOf

(* Flags and caches are none of the slice's business.                      *)
SameSlices(s, t) == t.mem = s.mem /\ t.mag = s.mag /\ DOMAIN t = DOMAIN s
(* A store that differs in flags and caches alone shows the same words.    *)
LEMMA SameSlicesSound ==
  ASSUME NEW s, Sound(s), NEW t, SameSlices(s, t)
  PROVE  /\ Sound(t) /\ Alive(t) = Alive(s)
         /\ \A y : Words(t, y) = Words(s, y) /\ Count(t, y) = Count(s, y)
         /\ \A y : Sole(t, y) <=> Sole(s, y)
  BY DEF SameSlices, Sound, IsStore, Alive, Inside, Words, Vec, Count, Sole, UseCount, Sharing

(* setFlags(), beginWrite(): of one object.                                *)
LEMMA NumWrites ==
  ASSUME NEW s, Proper(s), NEW x \in Alive(s), NEW m \in Nums
  PROVE  LET t == [s EXCEPT !.num[x] = m]
         IN  /\ Writes(s, t, x, m.sign, Words(s, x))
             /\ SameSlices(s, t) /\ t.num[x] = m
<1> DEFINE t == [s EXCEPT !.num[x] = m]
<1>1. {"mem", "mag", "num"} \subseteq DOMAIN s /\ x \in Name /\ s.num \in [Name -> Nums]
  BY DEF Proper, Sound, IsStore, Alive
<1>2. t.num = [s.num EXCEPT ![x] = m] /\ SameSlices(s, t) /\ "num" \in DOMAIN t
  BY <1>1 DEF SameSlices
<1> HIDE DEF t
<1>3. t.num \in [Name -> Nums] /\ t.num[x] = m /\ \A y \in Name \ {x} : t.num[y] = s.num[y]
  BY <1>1, <1>2
<1>4. /\ Sound(t) /\ Alive(t) = Alive(s)
      /\ \A y : Words(t, y) = Words(s, y)
  BY <1>2, SameSlicesSound DEF Proper
<1>5. Proper(t)
  BY <1>2, <1>3, <1>4 DEF Proper
<1>6. Writes(s, t, x, m.sign, Words(s, x))
  BY <1>3, <1>4, <1>5 DEF Writes, Preserves, SignOf, Alive
<1>7. QED
  BY <1>2, <1>3, <1>6 DEF t

(* One write after another.                                                *)
LEMMA WritesTwice ==
  ASSUME NEW s, NEW t, NEW r, NEW x, NEW a, NEW b, NEW c, NEW d,
         Writes(s, t, x, a, b), Writes(t, r, x, c, d)
  PROVE  Writes(s, r, x, c, d)
  BY PreservesTwice DEF Writes

(* A write that sets the value.                                            *)
LEMMA WritesYields ==
  ASSUME NEW s, NEW t, NEW x, NEW sign, NEW w, NEW v,
         Writes(s, t, x, sign, w), Represents(sign, w, v)
  PROVE  Yields(s, t, x, v)
  BY DEF Writes, Yields, Holds

(* A call within a call.                                                   *)
LEMMA WritesThenYields ==
  ASSUME NEW s, NEW t, NEW r, NEW x, NEW a, NEW b, NEW v,
         Writes(s, t, x, a, b), Yields(t, r, x, v)
  PROVE  Yields(s, r, x, v)
  BY PreservesTwice DEF Writes, Yields

(* The same write, its words named otherwise.                              *)
LEMMA WritesOf ==
  ASSUME NEW s, NEW t, NEW x, NEW sign, NEW w, Writes(s, t, x, sign, w)
  PROVE  Proper(t) /\ x \in Alive(t) /\ x \in Name /\ Sound(t)
  BY DEF Writes, Preserves, Proper, Alive

(* setFlags().                                                             *)
LEMMA SetFlagsSound ==
  ASSUME NEW s, Proper(s), NEW x \in Alive(s), NEW sign \in Sign
  PROVE  /\ Writes(s, SetFlags(s, x, sign), x, sign, Words(s, x))
         /\ SameSlices(s, SetFlags(s, x, sign))
<1> DEFINE m == [s.num[x] EXCEPT !.sign = sign]
<1>1. s.num[x] \in Nums
  BY DEF Proper, Alive
<1>2. m \in Nums /\ m.sign = sign
  BY <1>1 DEF Nums
<1>3. SetFlags(s, x, sign) = [s EXCEPT !.num[x] = m]
  BY DEF SetFlags
<1> HIDE DEF m
<1>4. QED
  BY <1>2, <1>3, NumWrites

(* beginWrite().                                                           *)
LEMMA BeginWriteSound ==
  ASSUME NEW s, Proper(s), NEW x \in Alive(s)
  PROVE  /\ Writes(s, BeginWrite(s, x), x, SignOf(s, x), Words(s, x))
         /\ SameSlices(s, BeginWrite(s, x))
<1> DEFINE m == [s.num[x] EXCEPT !.cached = FALSE, !.nz = 0]
<1>1. s.num[x] \in Nums
  BY DEF Proper, Alive
<1>2. m \in Nums /\ m.sign = SignOf(s, x)
  BY <1>1 DEF Nums, SignOf
<1>3. BeginWrite(s, x) = [s EXCEPT !.num[x] = m]
  BY DEF BeginWrite
<1> HIDE DEF m
<1>4. QED
  BY <1>2, <1>3, NumWrites

(* beZero(), also of an object that does not live yet.                     *)
LEMMA BeZeroSound ==
  ASSUME NEW s, Proper(s), NEW x \in Name
  PROVE  Writes(s, BeZero(s, x), x, "ZERO", << >>)
<1> DEFINE t == NewSlice(s, x)
<1>1. Differ(s, t, x, << >>)
  BY NewSliceSound DEF Proper
<1> HIDE DEF t
<1>2. Writes(s, t, x, SignOf(s, x), << >>)
  BY <1>1, DifferWrites
<1>3. Proper(t) /\ x \in Alive(t) /\ Words(t, x) = << >>
  BY <1>2, WritesOf DEF Writes
<1>4. ZeroNum \in Nums /\ ZeroNum.sign = "ZERO"
  BY DEF ZeroNum, Nums, Sign
<1>5. BeZero(s, x) = [t EXCEPT !.num[x] = ZeroNum]
  BY DEF BeZero, t
<1>6. Writes(t, BeZero(s, x), x, "ZERO", << >>)
  BY <1>3, <1>4, <1>5, NumWrites
<1>7. QED
  BY <1>2, <1>6, WritesTwice

(* beOne() and beNegOne().                                                 *)
LEMMA BeUnitSound ==
  ASSUME NEW s, Proper(s), NEW x \in Name, NEW sign \in Sign
  PROVE  Writes(s, BeUnit(s, x, sign), x, sign, << 1 >>)
<1> DEFINE t == NewSlice(s, x)
           r == Append_(t, x, 1)
           m == [sign |-> sign, cached |-> TRUE, nz |-> 0]
<1>1. Differ(s, t, x, << >>) /\ Sole(t, x)
  BY NewSliceSound DEF Proper
<1> HIDE DEF t
<1>2. Writes(s, t, x, SignOf(s, x), << >>)
  BY <1>1, DifferWrites
<1>3. Proper(t) /\ x \in Alive(t) /\ Words(t, x) = << >> /\ Sound(t)
  BY <1>2, WritesOf DEF Writes
<1>4. 1 \in Data /\ Append(<< >>, 1) = << 1 >>
  BY BaseProperties, WordsAssumption DEF Word
<1>5. Differ(t, r, x, << 1 >>)
  BY <1>1, <1>3, <1>4, AppendSound
<1> HIDE DEF r
<1>6. Writes(t, r, x, SignOf(t, x), << 1 >>)
  BY <1>3, <1>5, DifferWrites
<1>7. m \in Nums /\ m.sign = sign
  BY DEF Nums
<1>8. BeUnit(s, x, sign) = [r EXCEPT !.num[x] = m]
  BY DEF BeUnit, r, t
<1> HIDE DEF m
<1>9. Proper(r) /\ x \in Alive(r) /\ Words(r, x) = << 1 >>
  BY <1>6, WritesOf DEF Writes
<1>10. Writes(r, BeUnit(s, x, sign), x, sign, << 1 >>)
  BY <1>7, <1>8, <1>9, NumWrites
<1>11. QED
  BY <1>2, <1>6, <1>10, WritesTwice

(* The copy constructor: a copy shares its vector.                         *)
LEMMA CopyConstructSound ==
  ASSUME NEW s, Proper(s), NEW x \in Name, NEW y \in Alive(s)
  PROVE  Writes(s, CopyConstruct(s, x, y), x, SignOf(s, y), Words(s, y))
<1> DEFINE t == CopySlice(s, x, y)
           m == s.num[y]
<1>1. Differ(s, t, x, Words(s, y))
  BY CopySliceSound DEF Proper
<1>2. CopyConstruct(s, x, y) = [t EXCEPT !.num[x] = m]
  BY DEF CopyConstruct
<1>3. m \in Nums /\ m.sign = SignOf(s, y)
  BY DEF Proper, Alive, SignOf
<1> HIDE DEF t, m
<1>4. Writes(s, t, x, SignOf(s, x), Words(s, y))
  BY <1>1, DifferWrites
<1>5. Proper(t) /\ x \in Alive(t) /\ Words(t, x) = Words(s, y)
  BY <1>4, WritesOf DEF Writes
<1>6. Writes(t, CopyConstruct(s, x, y), x, SignOf(s, y), Words(s, y))
  BY <1>2, <1>3, <1>5, NumWrites
<1>7. QED
  BY <1>4, <1>6, WritesTwice

-----------------------------------------------------------------------------
(* The kernels, on the slice that owns its vector.                         *)
LEMMA DifferTwice ==
  ASSUME NEW s, NEW t, NEW r, NEW x, NEW a, NEW b, Differ(s, t, x, a), Differ(t, r, x, b)
  PROVE  Differ(s, r, x, b)
  BY DEF Differ, SameRest

(* Words are elements.                                                     *)
LEMMA WordsAre ==
  ASSUME NEW s, Sound(s), NEW x \in Alive(s)
  PROVE  /\ Words(s, x) \in Seq(Word) /\ Len(Words(s, x)) = Count(s, x) /\ Count(s, x) \in Nat
         /\ x \in Name
  BY SliceWords, WordsAssumption DEF Alive

(* The first words.                                                        *)
LEMMA PrefixProperties ==
  ASSUME NEW r \in Seq(Data), NEW len \in Nat, len <= Len(r)
  PROVE  /\ SubSeq(r, 1, len) \in Seq(Data) /\ Len(SubSeq(r, 1, len)) = len
         /\ \A i \in 1 .. len : SubSeq(r, 1, len)[i] = r[i]
<1> DEFINE b == Between(r, 0, len)
<1>1. 0 \in Nat /\ 0 <= len /\ len <= Len(r)
  OBVIOUS
<1>2. b \in Seq(Data) /\ Len(b) = len - 0 /\ \A i \in 1 .. len - 0 : b[i] = r[0 + i]
  BY <1>1, BetweenProperties
<1>3. b = SubSeq(r, 1, len)
  BY DEF Between
<1> HIDE DEF b
<1>4. len - 0 = len /\ \A i \in 1 .. len : 0 + i = i
  OBVIOUS
<1>5. QED
  BY <1>2, <1>3, <1>4

(* a.slice(0, len), shorter or longer.                                     *)
LEMMA WindowSound ==
  ASSUME NEW s, Sound(s), NEW x \in Alive(s), Sole(s, x), NEW len \in Nat
  PROVE  LET t == SubSlice(s, x, 0, len)
         IN  Differ(s, t, x, Words(t, x)) /\ Sole(t, x) /\ Count(t, x) = len
<1> DEFINE t == SubSlice(s, x, 0, len)
           w == Words(s, x)
<1>1. w \in Seq(Data) /\ Len(w) = Count(s, x) /\ Count(s, x) \in Nat
  BY SliceWords
<1>2. Differ(s, t, x, Words(t, x)) /\ Sole(t, x) /\ Len(Words(t, x)) = len
  <2>1. CASE len <= Count(s, x)
    <3>1. len \in 0 .. Count(s, x) /\ 0 \in 0 .. len /\ 0 + 1 = 1
      BY <1>1, <2>1
    <3>2. Differ(s, t, x, SubSeq(w, 1, len)) /\ Sole(t, x)
      BY <3>1, NarrowSound
    <3>3. Words(t, x) = SubSeq(w, 1, len)
      BY <3>2 DEF Differ
    <3>4. Len(SubSeq(w, 1, len)) = len
      BY <1>1, <2>1, PrefixProperties
    <3>5. QED
      BY <3>2, <3>3, <3>4
  <2>2. CASE ~(len <= Count(s, x))
    <3>1. len > Count(s, x) /\ 0 \in 0 .. Count(s, x) /\ len - 0 = len
      BY <1>1, <2>2
    <3>2. QED
      BY <3>1, WidenSound
  <2>3. QED
    BY <2>1, <2>2
<1> HIDE DEF t
<1>3. Count(t, x) = len
  BY <1>2, SliceWords DEF Differ
<1>4. QED
  BY <1>2, <1>3 DEF t

(* The words of a result, with a word above the window for its carry.      *)
LEMMA StoreSound ==
  ASSUME NEW s, Sound(s), NEW x \in Alive(s), Sole(s, x), NEW len \in Nat,
         NEW r \in Seq(Word), Len(r) \in {len, len + 1}
  PROVE  Differ(s, Store(s, x, len, r), x, r)
<1> DEFINE a == SubSlice(s, x, 0, len)
           u == SubSeq(r, 1, len)
           t == Overwrite(a, x, u)
<1>1. Differ(s, a, x, Words(a, x)) /\ Sole(a, x) /\ Count(a, x) = len
  BY WindowSound
<1>2. u \in Seq(Data) /\ Len(u) = len /\ \A i \in 1 .. len : u[i] = r[i]
  <2>1. r \in Seq(Data) /\ len <= Len(r)
    BY WordsAssumption
  <2>2. QED
    BY <2>1, PrefixProperties
<1> HIDE DEF a, u
<1>3. Sound(a) /\ x \in Alive(a)
  BY <1>1 DEF Differ
<1>4. Differ(a, t, x, u) /\ Sole(t, x)
  BY <1>1, <1>2, <1>3, OverwriteSound
<1> HIDE DEF t
<1>5. Differ(s, t, x, u)
  BY <1>1, <1>4, DifferTwice
<1>6. Store(s, x, len, r) = IF Len(r) > len THEN Append_(t, x, r[len + 1]) ELSE t
  BY DEF Store, t, u, a
<1>7. CASE Len(r) = len
  <2>1. u = r
    BY <1>2, <1>7, SeqEqual, WordsAssumption
  <2>2. QED
    BY <1>5, <1>6, <1>7, <2>1
<1>8. CASE Len(r) = len + 1
  <2> DEFINE d == r[len + 1]
             q == Append(u, d)
  <2>1. d \in Data
    BY <1>8, ElementOfSeq, WordsAssumption
  <2>2. /\ q \in Seq(Data) /\ Len(q) = len + 1 /\ q[len + 1] = d
        /\ \A i \in 1 .. len : q[i] = u[i]
    BY <1>2, <2>1, AppendProperties
  <2>3. Sound(t) /\ x \in Alive(t) /\ Words(t, x) = u
    BY <1>4 DEF Differ
  <2>4. Differ(t, Append_(t, x, d), x, q)
    BY <1>4, <2>1, <2>3, AppendSound
  <2> HIDE DEF q
  <2>5. \A i \in 1 .. len + 1 : q[i] = r[i]
    <3>1. ASSUME NEW i \in 1 .. len + 1 PROVE q[i] = r[i]
      <4>1. i \in 1 .. len \/ i = len + 1
        BY <3>1
      <4>2. QED
        BY <1>2, <2>2, <4>1 DEF d
    <3>2. QED
      BY <3>1
  <2>6. q = r
    BY <1>8, <2>2, <2>5, SeqEqual, WordsAssumption
  <2>7. Store(s, x, len, r) = Append_(t, x, d)
    BY <1>6, <1>8
  <2>8. QED
    BY <1>5, <2>4, <2>6, <2>7, DifferTwice
<1>9. QED
  BY <1>7, <1>8

(* eraseZerosSuffix().                                                     *)
LEMMA EraseZerosSound ==
  ASSUME NEW s, Sound(s), NEW x \in Alive(s)
  PROVE  Differ(s, EraseZeros(s, x), x, EraseZerosSuffix(Words(s, x)))
<1> DEFINE w == Words(s, x)
<1>1. w \in Seq(Word) /\ Len(w) = Count(s, x) /\ Count(s, x) \in Nat
  BY WordsAre
<1> HIDE DEF w
<1>2. TopWord(w) \in 0 .. Count(s, x)
  BY <1>1, EraseProperties
<1>3. 0 \in 0 .. TopWord(w)
  BY <1>1, <1>2
<1> DEFINE t == SubSlice(s, x, 0, TopWord(w))
<1>4. Differ(s, t, x, SubSeq(w, 0 + 1, TopWord(w)))
  BY <1>2, <1>3, NarrowSound DEF w
<1> HIDE DEF t
<1>5. EraseZeros(s, x) = t /\ 0 + 1 = 1
  BY DEF EraseZeros, w, t
<1>6. Differ(s, t, x, SubSeq(w, 1, TopWord(w)))
  BY <1>4, <1>5
<1>7. QED
  BY <1>5, <1>6 DEF EraseZerosSuffix, w

(* addMag, with the carry in a word above the window.                      *)
LEMMA AddMagToSound ==
  ASSUME NEW s, Sound(s), NEW x \in Alive(s), Sole(s, x), NEW y \in Alive(s)
  PROVE  Differ(s, AddMagTo(s, x, y), x, AddMag(Words(s, x), Words(s, y)))
<1> DEFINE a == Words(s, x)
           b == Words(s, y)
           len == Max({Len(a), Len(b)})
           r == AddMag(a, b)
<1>1. /\ a \in Seq(Word) /\ Len(a) = Count(s, x) /\ Count(s, x) \in Nat
      /\ b \in Seq(Word) /\ Len(b) = Count(s, y) /\ Count(s, y) \in Nat
  BY WordsAre
<1>2. AddMagTo(s, x, y) = Store(s, x, len, r)
  BY <1>1 DEF AddMagTo
<1> HIDE DEF a, b
<1>3. len \in Nat
  BY <1>1, MaxOfTwo
<1>4. r \in Seq(Word) /\ Len(r) \in {len, len + 1}
  BY <1>1, AddMagExact
<1> HIDE DEF len, r
<1>5. Differ(s, Store(s, x, len, r), x, r)
  BY <1>3, <1>4, StoreSound
<1>6. QED
  BY <1>2, <1>5 DEF r, a, b

(* subMag, of a magnitude that is not larger.                              *)
LEMMA SubMagFromSound ==
  ASSUME NEW s, Sound(s), NEW x \in Alive(s), Sole(s, x), NEW y \in Alive(s),
         Len(Words(s, y)) <= Len(Words(s, x)), ToNat(Words(s, y)) <= ToNat(Words(s, x))
  PROVE  Differ(s, SubMagFrom(s, x, y), x, SubMag(Words(s, x), Words(s, y)))
<1> DEFINE r == SubMag(Words(s, x), Words(s, y))
<1>1. /\ Words(s, x) \in Seq(Word) /\ Len(Words(s, x)) = Count(s, x)
      /\ Words(s, y) \in Seq(Word)
  BY WordsAre
<1>2. r \in Seq(Word) /\ Len(r) = Count(s, x)
  BY <1>1, SubMagExact
<1>3. SubMagFrom(s, x, y) = Overwrite(s, x, r)
  BY DEF SubMagFrom
<1> HIDE DEF r
<1>4. Differ(s, Overwrite(s, x, r), x, r)
  BY <1>2, OverwriteSound, WordsAssumption
<1>5. QED
  BY <1>3, <1>4 DEF r

(* inc.                                                                    *)
LEMMA IncMagOfSound ==
  ASSUME NEW s, Sound(s), NEW x \in Alive(s), Sole(s, x)
  PROVE  Differ(s, IncMagOf(s, x), x, IncMag(Words(s, x)))
<1> DEFINE r == IncMag(Words(s, x))
<1>1. Words(s, x) \in Seq(Word) /\ Len(Words(s, x)) = Count(s, x) /\ Count(s, x) \in Nat
  BY WordsAre
<1>2. r \in Seq(Word) /\ Len(r) \in {Count(s, x), Count(s, x) + 1}
  BY <1>1, IncMagExact
<1>3. IncMagOf(s, x) = Store(s, x, Count(s, x), r)
  BY DEF IncMagOf
<1> HIDE DEF r
<1>4. Differ(s, Store(s, x, Count(s, x), r), x, r)
  BY <1>1, <1>2, StoreSound
<1>5. QED
  BY <1>3, <1>4 DEF r

(* dec.                                                                    *)
LEMMA DecMagOfSound ==
  ASSUME NEW s, Sound(s), NEW x \in Alive(s), Sole(s, x)
  PROVE  Differ(s, DecMagOf(s, x), x, DecMag(Words(s, x)))
<1> DEFINE w == Words(s, x)
           r == Ripple(w, -1).words
           t == Overwrite(s, x, r)
<1>1. w \in Seq(Word) /\ Len(w) = Count(s, x)
  BY WordsAre
<1> HIDE DEF w
<1>2. w \in Seq(Int) /\ -1 \in Int
  BY <1>1, WordsProperties
<1>3. r \in Seq(Word) /\ Len(r) = Count(s, x)
  BY <1>1, <1>2, RippleExact
<1> HIDE DEF r
<1>4. Differ(s, t, x, r)
  BY <1>3, OverwriteSound, WordsAssumption
<1> HIDE DEF t
<1>5. Sound(t) /\ x \in Alive(t) /\ Words(t, x) = r
  BY <1>4 DEF Differ
<1>6. Differ(t, EraseZeros(t, x), x, EraseZerosSuffix(r))
  BY <1>5, EraseZerosSound
<1>7. Differ(s, EraseZeros(t, x), x, EraseZerosSuffix(r))
  BY <1>4, <1>6, DifferTwice
<1>8. QED
  BY <1>7 DEF DecMagOf, DecMag, t, r, w

(* Multiplying by a word, in place.                                        *)
LEMMA MulMagBySound ==
  ASSUME NEW s, Sound(s), NEW x \in Alive(s), Sole(s, x), NEW w \in Word
  PROVE  Differ(s, MulMagBy(s, x, w), x, GradSchoolMulInplace(Words(s, x), w))
<1> DEFINE r == GradSchoolMulInplace(Words(s, x), w)
<1>1. Words(s, x) \in Seq(Word) /\ Len(Words(s, x)) = Count(s, x) /\ Count(s, x) \in Nat
  BY WordsAre
<1>2. r \in Seq(Word) /\ Len(r) \in {Count(s, x), Count(s, x) + 1}
  BY <1>1, GradSchoolMulInplaceExact
<1>3. MulMagBy(s, x, w) = Store(s, x, Count(s, x), r)
  BY DEF MulMagBy
<1> HIDE DEF r
<1>4. Differ(s, Store(s, x, Count(s, x), r), x, r)
  BY <1>1, <1>2, StoreSound
<1>5. QED
  BY <1>3, <1>4 DEF r

(* shlMag: by whole words the window only grows downwards.                 *)
LEMMA ShlMagOfSound ==
  ASSUME NEW s, Sound(s), NEW x \in Alive(s), Sole(s, x), NEW n \in Nat
  PROVE  Differ(s, ShlMagOf(s, x, n), x,
                IF n % WordBits = 0 THEN Zeros(n \div WordBits) \o Words(s, x)
                                    ELSE ShlMag(Words(s, x), n))
<1> DEFINE r == ShlMag(Words(s, x), n)
<1>1. n \div WordBits \in Nat
  BY WordBitsAssumption
<1>2. CASE n % WordBits = 0
  <2>1. ShlMagOf(s, x, n) = PreExtend(s, x, n \div WordBits)
    BY <1>2 DEF ShlMagOf
  <2> DEFINE k == n \div WordBits
  <2>2. k \in Nat
    BY <1>1
  <2> HIDE DEF k
  <2>3. Differ(s, PreExtend(s, x, k), x, Zeros(k) \o Words(s, x))
    BY <2>2, PreExtendSound
  <2>4. QED
    BY <1>2, <2>1, <2>3 DEF k
<1>3. CASE n % WordBits # 0
  <2>1. ShlMagOf(s, x, n) = Store(s, x, Len(r), r)
    BY <1>3 DEF ShlMagOf
  <2>2. Words(s, x) \in Seq(Word)
    BY WordsAre
  <2>3. r \in Seq(Word)
    BY <2>2, ShlMagParts
  <2> HIDE DEF r
  <2>4. Len(r) \in Nat /\ Len(r) \in {Len(r), Len(r) + 1}
    BY <2>3, LenProperties
  <2>5. Differ(s, Store(s, x, Len(r), r), x, r)
    BY <2>3, <2>4, StoreSound
  <2>6. QED
    BY <1>3, <2>1, <2>5 DEF r
<1>4. QED
  BY <1>2, <1>3

(* What is left of a magnitude is not longer than the words shifted.       *)
LEMMA ShrMagLength ==
  ASSUME NEW a \in Seq(Word), NEW n \in Nat, n \div WordBits < Len(a)
  PROVE  /\ ShrMag(a, n) \in Seq(Word)
         /\ Len(ShrMag(a, n)) \in 0 .. Len(a) - n \div WordBits
<1> DEFINE words == n \div WordBits
           m == Len(a) - words
           kept == SubSeq(a, words + 1, Len(a))
           r == ShrWords(kept, n % WordBits)
<1>1. words \in Nat /\ words <= Len(a) /\ Len(a) \in Nat /\ m \in Nat
  BY WordBitsAssumption, LenProperties
<1>2. kept \in Seq(Word) /\ Len(kept) = m
  <2> HIDE DEF words
  <2>1. Len(a) <= Len(a)
    BY <1>1
  <2>2. Between(a, words, Len(a)) \in Seq(Data) /\ Len(Between(a, words, Len(a))) = m
    BY <1>1, <2>1, BetweenProperties, WordsAssumption
  <2>3. QED
    BY <2>2, WordsAssumption DEF Between
<1>3. ShrMag(a, n) = IF n % WordBits # 0 /\ r # << >> /\ r[Len(r)] = 0
                     THEN SubSeq(r, 1, Len(r) - 1) ELSE r
  BY DEF ShrMag
<1>4. n % WordBits \in 0 .. WordBits - 1
  BY WordBitsAssumption
<1> HIDE DEF kept, words
<1>5. r \in Seq(Word) /\ Len(r) = m
  BY <1>2, <1>4, ShrWordsExact
<1> HIDE DEF r, m
<1>6. CASE ShrMag(a, n) = r
  BY <1>1, <1>5, <1>6 DEF m, words
<1>7. CASE ShrMag(a, n) # r
  <2> DEFINE l == m - 1
  <2>1. r # << >> /\ ShrMag(a, n) = SubSeq(r, 1, l)
    BY <1>3, <1>5, <1>7
  <2>2. m # 0
    BY <1>5, <2>1, EmptySeq
  <2>3. l \in Nat /\ l <= Len(r) /\ l \in 0 .. m
    BY <1>1, <1>5, <2>2
  <2> HIDE DEF l
  <2>4. SubSeq(r, 1, l) \in Seq(Word) /\ Len(SubSeq(r, 1, l)) = l
    BY <1>5, <2>3, PrefixProperties, WordsAssumption
  <2>5. QED
    BY <2>1, <2>3, <2>4 DEF m, words
<1>8. QED
  BY <1>6, <1>7

(* shrMag: the words kept are moved down, and the window cut behind them.  *)
LEMMA ShrMagOfSound ==
  ASSUME NEW s, Sound(s), NEW x \in Alive(s), Sole(s, x), NEW n \in Nat,
         n \div WordBits < Count(s, x)
  PROVE  LET t == ShrMagOf(s, x, n)
         IN  Differ(s, t, x, ShrMag(Words(s, x), n)) /\ Sole(t, x)
<1> DEFINE words == n \div WordBits
           c == Count(s, x)
           r == ShrMag(Words(s, x), n)
           a == SubSlice(s, x, words, c)
           b == Overwrite(a, x, r)
           d == SubSlice(b, x, 0, Len(r))
<1>1. Words(s, x) \in Seq(Word) /\ Len(Words(s, x)) = c /\ c \in Nat /\ words \in Nat
  BY WordsAre, WordBitsAssumption
<1>2. ShrMagOf(s, x, n) = d
  <2>1. ~(words >= c)
    BY <1>1
  <2>2. QED
    BY <2>1 DEF ShrMagOf
<1>3. r \in Seq(Word) /\ Len(r) \in 0 .. c - words
  BY <1>1, ShrMagLength
<1> HIDE DEF r
<1>4. c \in 0 .. Count(s, x) /\ words \in 0 .. c
  BY <1>1
<1> HIDE DEF words
<1>5. Differ(s, a, x, SubSeq(Words(s, x), words + 1, c)) /\ Sole(a, x)
  BY <1>4, NarrowSound
<1>6. Differ(s, a, x, Words(a, x)) /\ Sound(a) /\ x \in Alive(a)
  BY <1>5 DEF Differ
<1>7. Count(a, x) = c - words
  <2>1. Words(a, x) = Between(Words(s, x), words, c)
    BY <1>5 DEF Differ, Between
  <2>2. Words(s, x) \in Seq(Data) /\ words <= c /\ c <= Len(Words(s, x))
    BY <1>1, <1>4, WordsAssumption
  <2>3. Len(Between(Words(s, x), words, c)) = c - words
    BY <1>1, <2>2, BetweenProperties
  <2>4. QED
    BY <1>6, <2>1, <2>3, SliceWords
<1> HIDE DEF c, a
<1>8. r \in Seq(Data) /\ Len(r) <= Count(a, x) /\ Len(r) \in Nat
  BY <1>3, <1>7, WordsAssumption
<1>9. /\ Differ(a, b, x, Words(b, x)) /\ Sole(b, x)
      /\ Len(Words(b, x)) = Count(a, x)
      /\ SubSeq(Words(b, x), 1, Len(r)) = r
  BY <1>5, <1>6, <1>8, OverwritePrefix
<1>10. Sound(b) /\ x \in Alive(b)
  BY <1>9 DEF Differ
<1> HIDE DEF b
<1>11. Count(b, x) = Count(a, x)
  BY <1>9, <1>10, SliceWords
<1>12. Len(r) \in 0 .. Count(b, x) /\ 0 \in 0 .. Len(r) /\ 0 + 1 = 1
  BY <1>3, <1>7, <1>8, <1>11
<1>13. Differ(b, d, x, SubSeq(Words(b, x), 1, Len(r))) /\ Sole(d, x)
  BY <1>9, <1>10, <1>12, NarrowSound
<1> HIDE DEF d
<1>14. Differ(b, d, x, r) /\ Sole(d, x)
  BY <1>9, <1>12, <1>13
<1>15. Differ(s, b, x, Words(b, x))
  BY <1>6, <1>9, DifferTwice
<1>16. Differ(s, d, x, r)
  BY <1>14, <1>15, DifferTwice
<1>17. QED
  BY <1>2, <1>14, <1>16 DEF r

-----------------------------------------------------------------------------
(* What the kernels leave are magnitudes without leading zeros.            *)
Makes(r, v) == r \in Seq(Word) /\ Trimmed(r) /\ ToNat(r) = v

(* A magnitude is zero when it has no words.                               *)
LEMMA EmptyIsZero ==
  ASSUME NEW w \in Seq(Word), Trimmed(w)
  PROVE  ToNat(w) \in Nat /\ (w = << >> <=> ToNat(w) = 0)
<1>1. w \in Seq(Nat) /\ Len(w) \in Nat
  BY WordsProperties
<1>2. CASE w = << >>
  BY <1>2, ToNatEmpty
<1>3. CASE w # << >>
  <2>1. w[Len(w)] # 0 /\ Len(w) # 0
    BY <1>1, <1>3, EmptySeq DEF Trimmed
  <2>2. QED
    BY <1>1, <1>3, <2>1, ToNatPositive
<1>4. QED
  BY <1>2, <1>3

(* inc: no carry leaves a top word that was zero.                          *)
LEMMA IncMakes ==
  ASSUME NEW w \in Seq(Word), Trimmed(w)
  PROVE  Makes(IncMag(w), ToNat(w) + 1) /\ IncMag(w) # << >>
<1> DEFINE r == IncMag(w)
           u == Ripple(w, 1).words
           out == Ripple(w, 1).out
<1>1. r \in Seq(Word) /\ ToNat(r) = ToNat(w) + 1
  BY IncMagExact
<1>2. ToNat(w) \in Nat
  BY EmptyIsZero
<1>3. r # << >>
  BY <1>1, <1>2, ToNatEmpty
<1>4. r = IF out = 0 THEN u ELSE Append(u, out)
  BY DEF IncMag, WithCarry
<1>5. /\ w \in Seq(Int) /\ w \in Seq(Nat) /\ Len(w) \in Nat /\ 1 \in Int /\ 1 \in Nat
  BY WordsProperties
<1>6. u \in Seq(Word) /\ Len(u) = Len(w) /\ out \in Int
  BY <1>5, RippleExact
<1>7. r[Len(r)] # 0
  <2>1. CASE out = 0
    <3>1. w # << >> /\ Len(w) # 0
      BY <1>3, <1>4, <1>6, <2>1, EmptySeq
    <3>2. w[Len(w)] # 0 /\ w[Len(w)] \in Nat
      BY <1>5, <3>1 DEF Trimmed
    <3>3. u[Len(w)] # 0
      BY <1>5, <2>1, <3>1, <3>2, RippleTop
    <3>4. QED
      BY <1>4, <1>6, <2>1, <3>3
  <2>2. CASE out # 0
    <3> DEFINE S == Int
    <3>1. \A i \in 1 .. Len(u) : u[i] \in S
      BY <1>6, WordsProperties
    <3>2. u \in Seq(S) /\ out \in S
      BY <1>6, WordsProperties
    <3> HIDE DEF S, u, out
    <3>3. /\ Append(u, out)[Len(u) + 1] = out /\ Len(Append(u, out)) = Len(u) + 1
      BY <3>2, AppendProperties
    <3>4. QED
      BY <1>4, <2>2, <3>3
  <2>3. QED
    BY <2>1, <2>2
<1>8. QED
  BY <1>1, <1>3, <1>7 DEF Makes, Trimmed

(* Zero words below: a shift by whole words.                               *)
LEMMA ZerosBelow ==
  ASSUME NEW w \in Seq(Word), w # << >>, Trimmed(w), NEW n \in Nat, PowersUpTo(n),
         n % WordBits = 0
  PROVE  Makes(Zeros(n \div WordBits) \o w, ToNat(w) * 2 ^ n)
<1> DEFINE k == n \div WordBits
           z == Zeros(k)
           r == z \o w
<1>1. k \in Nat /\ k <= k
  BY WordBitsAssumption
<1>2. PICK q : Weights(q, k)
  BY <1>1, WeightsExist
<1>3. 2 ^ n = q[k] * 2 ^ (n % WordBits) /\ q[k] \in Nat
  BY <1>2, PowerSplit
<1>4. 2 ^ (n % WordBits) = 1
  <2> DEFINE e == n % WordBits
  <2>1. e = 0
    OBVIOUS
  <2> HIDE DEF e
  <2>2. 2 ^ e = 1
    BY <2>1 DEF PowersUpTo
  <2>3. QED
    BY <2>2 DEF e
<1>5. 2 ^ n = q[k]
  BY <1>3, <1>4
<1> HIDE DEF k
<1>6. z \in Seq(Word) /\ Len(z) = k /\ \A i \in 1 .. k : z[i] = 0
  BY <1>1, ZerosProperties, WordsAssumption
<1> HIDE DEF z
<1>7. /\ r \in Seq(Word) /\ Len(r) = k + Len(w)
      /\ \A i \in 1 .. k : r[i] = z[i]
      /\ \A i \in 1 .. Len(w) : r[k + i] = w[i]
  <2>1. /\ r \in Seq(Word) /\ Len(r) = Len(z) + Len(w)
        /\ \A i \in 1 .. Len(z) + Len(w) : r[i] = IF i <= Len(z) THEN z[i] ELSE w[i - Len(z)]
    BY <1>6, ConcatProperties
  <2>2. Len(w) \in Nat
    BY LenProperties
  <2>3. ASSUME NEW i \in 1 .. Len(w) PROVE r[k + i] = w[i]
    <3>1. k + i \in 1 .. k + Len(w) /\ ~(k + i <= k) /\ (k + i) - k = i
      BY <1>1, <2>2
    <3>2. QED
      BY <1>6, <2>1, <3>1
  <2>4. QED
    BY <1>1, <1>6, <2>1, <2>2, <2>3
<1> HIDE DEF r
<1>8. z \in Seq(Int) /\ w \in Seq(Int) /\ r \in Seq(Int) /\ Len(w) \in Nat
  BY <1>6, <1>7, WordsProperties
<1>9. Parts(r, z, w)
  BY <1>6, <1>7, <1>8 DEF Parts
<1>10. ToNat(r) = ToNat(z) + q[k] * ToNat(w)
  BY <1>1, <1>2, <1>6, <1>9, ToNatParts
<1>11. ToNat(z) = 0
  BY <1>6, <1>8, ToNatZeros
<1>12. ToNat(w) \in Nat
  BY EmptyIsZero
<1>13. ToNat(r) = ToNat(w) * 2 ^ n
  <2> DEFINE p == q[k]
             v == ToNat(w)
  <2>1. p \in Nat /\ v \in Nat /\ ToNat(r) = 0 + p * v /\ 2 ^ n = p
    BY <1>3, <1>5, <1>10, <1>11, <1>12
  <2> HIDE DEF p, v
  <2>2. ToNat(r) = v * p
    BY <2>1
  <2>3. QED
    BY <2>1, <2>2 DEF v
<1>14. r[Len(r)] # 0
  <2>1. Len(w) \in 1 .. Len(w) /\ w[Len(w)] # 0
    BY <1>8, EmptySeq DEF Trimmed
  <2>2. QED
    BY <1>7, <2>1
<1>15. QED
  BY <1>7, <1>13, <1>14 DEF Makes, Trimmed, r, z, k

(* An object's sign and magnitude, and its value.                          *)
LEMMA RepresentsCases ==
  ASSUME NEW sign, NEW w, NEW v, Represents(sign, w, v)
  PROVE  /\ w \in Seq(Word) /\ Trimmed(w) /\ ToNat(w) \in Nat /\ v \in Int
         /\ \/ sign = "ZERO" /\ w = << >> /\ v = 0 /\ ToNat(w) = 0
            \/ sign = "POSITIVE" /\ w # << >> /\ v = ToNat(w) /\ ToNat(w) > 0
            \/ sign = "NEGATIVE" /\ w # << >> /\ v = - ToNat(w) /\ ToNat(w) > 0
         /\ SignumOf(sign) = IF v > 0 THEN 1 ELSE IF v = 0 THEN 0 ELSE -1
<1> DEFINE m == ToNat(w)
<1>1. /\ w \in Seq(Word) /\ Trimmed(w) /\ sign \in Sign /\ (sign = "ZERO" <=> w = << >>)
      /\ v = SignumOf(sign) * m
  BY DEF Represents
<1>2. m \in Nat /\ (w = << >> <=> m = 0)
  BY <1>1, EmptyIsZero
<1> HIDE DEF m
<1>3. sign = "ZERO" \/ sign = "POSITIVE" \/ sign = "NEGATIVE"
  BY <1>1 DEF Sign
<1>4. CASE sign = "ZERO"
  <2>1. SignumOf(sign) = 0
    BY <1>4 DEF SignumOf
  <2>2. QED
    BY <1>1, <1>2, <1>4, <2>1 DEF m
<1>5. CASE sign = "POSITIVE"
  <2>1. SignumOf(sign) = 1
    BY <1>5 DEF SignumOf
  <2>2. QED
    BY <1>1, <1>2, <1>5, <2>1 DEF m
<1>6. CASE sign = "NEGATIVE"
  <2>1. SignumOf(sign) = -1
    BY <1>6 DEF SignumOf
  <2>2. v = - m /\ m > 0 /\ w # << >> /\ v < 0
    BY <1>1, <1>2, <1>6, <2>1
  <2>3. QED
    BY <1>1, <1>2, <1>6, <2>1, <2>2 DEF m
<1>7. QED
  BY <1>3, <1>4, <1>5, <1>6

(* No words, no sign.                                                      *)
LEMMA RepresentsZero == Represents("ZERO", << >>, 0)
<1>1. << >> \in Seq(Word) /\ Trimmed(<< >>)
  BY DEF Trimmed
<1>2. SignumOf("ZERO") = 0 /\ ToNat(<< >>) = 0
  BY ToNatEmpty DEF SignumOf
<1>3. QED
  BY <1>1, <1>2 DEF Represents, Sign

(* A magnitude with the flags for a test of its sign.                      *)
LEMMA RepresentsSigned ==
  ASSUME NEW w, NEW m, Makes(w, m), w # << >> \/ m # 0, NEW same \in BOOLEAN
  PROVE  /\ Represents(FlagsFor(same), w, IF same THEN m ELSE - m)
         /\ FlagsFor(same) \in Sign /\ FlagsFor(same) # "ZERO"
<1>1. w \in Seq(Word) /\ Trimmed(w) /\ ToNat(w) = m
  BY DEF Makes
<1>2. m \in Nat /\ w # << >>
  BY <1>1, EmptyIsZero
<1>3. CASE same
  <2>1. FlagsFor(same) = "POSITIVE" /\ SignumOf("POSITIVE") = 1
    BY <1>3 DEF FlagsFor, SignumOf
  <2>2. m = 1 * m
    BY <1>2
  <2>3. QED
    BY <1>1, <1>2, <1>3, <2>1, <2>2 DEF Represents, Sign
<1>4. CASE ~same
  <2>1. FlagsFor(same) = "NEGATIVE" /\ SignumOf("NEGATIVE") = -1
    BY <1>4 DEF FlagsFor, SignumOf
  <2>2. - m = (-1) * m
    BY <1>2
  <2>3. QED
    BY <1>1, <1>2, <1>4, <2>1, <2>2 DEF Represents, Sign
<1>5. QED
  BY <1>3, <1>4

(* One word, the one.                                                      *)
LEMMA OneMakes == Makes(<< 1 >>, 1) /\ << 1 >> # << >>
<1> DEFINE w == << 1 >>
<1>1. w \in Seq(Word) /\ w \in Seq(Int) /\ Len(w) = 1 /\ w[1] = 1
  BY BaseProperties DEF Word
<1>2. ToNat(w) = 1
  BY <1>1, ToNatSingle
<1> HIDE DEF w
<1>3. QED
  BY <1>1, <1>2 DEF Makes, Trimmed, w

-----------------------------------------------------------------------------
(* beginWrite() and cloneData(), which every write starts with.            *)
LEMMA OwnedSound ==
  ASSUME NEW s, Proper(s), NEW x \in Alive(s)
  PROVE  LET t == CloneData(BeginWrite(s, x), x)
         IN  Writes(s, t, x, SignOf(s, x), Words(s, x)) /\ Sole(t, x)
<1> DEFINE a == BeginWrite(s, x)
           t == CloneData(a, x)
<1>1. Writes(s, a, x, SignOf(s, x), Words(s, x))
  BY BeginWriteSound
<1> HIDE DEF a
<1>2. Proper(a) /\ Sound(a) /\ x \in Alive(a) /\ SignOf(a, x) = SignOf(s, x)
      /\ Words(a, x) = Words(s, x)
  BY <1>1, WritesOf DEF Writes
<1>3. Differ(a, t, x, Words(s, x)) /\ Sole(t, x)
  BY <1>2, CloneDataSound
<1> HIDE DEF t
<1>4. Writes(a, t, x, SignOf(s, x), Words(s, x))
  BY <1>2, <1>3, DifferWrites
<1>5. QED
  BY <1>1, <1>3, <1>4, WritesTwice DEF a, t

(* A kernel on the slice, after a write.                                   *)
LEMMA ThenDiffer ==
  ASSUME NEW s, NEW t, NEW r, NEW x, NEW sign, NEW w, NEW u,
         Writes(s, t, x, sign, w), Differ(t, r, x, u)
  PROVE  Writes(s, r, x, sign, u)
<1>1. Proper(t) /\ SignOf(t, x) = sign
  BY WritesOf DEF Writes
<1>2. Writes(t, r, x, sign, u)
  BY <1>1, DifferWrites
<1>3. QED
  BY <1>2, WritesTwice

(* setFlags(), after a write.                                              *)
LEMMA ThenFlags ==
  ASSUME NEW s, NEW t, NEW x, NEW sign, NEW w, Writes(s, t, x, sign, w), NEW new \in Sign
  PROVE  Writes(s, SetFlags(t, x, new), x, new, w)
<1>1. Proper(t) /\ x \in Alive(t) /\ Words(t, x) = w
  BY WritesOf DEF Writes
<1>2. Writes(t, SetFlags(t, x, new), x, new, w)
  BY <1>1, SetFlagsSound
<1>3. QED
  BY <1>2, WritesTwice

(* One call after another.                                                 *)
LEMMA YieldsTwice ==
  ASSUME NEW s, NEW t, NEW r, NEW x, NEW u, NEW v, Yields(s, t, x, u), Yields(t, r, x, v)
  PROVE  Yields(s, r, x, v)
  BY PreservesTwice DEF Yields

(* A call that does nothing.                                               *)
LEMMA YieldsSame ==
  ASSUME NEW s, Proper(s), NEW x, NEW v, Holds(s, x, v)
  PROVE  Yields(s, s, x, v)
  BY PreservesNothing DEF Yields

(* What an object that stands for a number consists of.                    *)
LEMMA HoldsCases ==
  ASSUME NEW s, Proper(s), NEW x, NEW v, Holds(s, x, v)
  PROVE  /\ Sound(s) /\ x \in Alive(s) /\ x \in Name
         /\ Words(s, x) \in Seq(Word) /\ Trimmed(Words(s, x)) /\ ToNat(Words(s, x)) \in Nat
         /\ v \in Int /\ Count(s, x) = Len(Words(s, x)) /\ Count(s, x) \in Nat
         /\ \/ SignOf(s, x) = "ZERO" /\ Words(s, x) = << >> /\ v = 0 /\ ToNat(Words(s, x)) = 0
            \/ /\ SignOf(s, x) = "POSITIVE" /\ Words(s, x) # << >>
               /\ v = ToNat(Words(s, x)) /\ ToNat(Words(s, x)) > 0
            \/ /\ SignOf(s, x) = "NEGATIVE" /\ Words(s, x) # << >>
               /\ v = - ToNat(Words(s, x)) /\ ToNat(Words(s, x)) > 0
         /\ Signum(s, x) = IF v > 0 THEN 1 ELSE IF v = 0 THEN 0 ELSE -1
<1>1. Represents(SignOf(s, x), Words(s, x), v) /\ x \in Alive(s) /\ x \in Name /\ Sound(s)
  BY DEF Holds, Alive, Proper
<1>2. Signum(s, x) = SignumOf(SignOf(s, x))
  BY DEF Signum, SignumOf
<1>3. Count(s, x) = Len(Words(s, x)) /\ Count(s, x) \in Nat
  BY <1>1, WordsAre
<1>4. QED
  BY <1>1, <1>2, <1>3, RepresentsCases

(* beZero().                                                               *)
LEMMA ZeroYields ==
  ASSUME NEW s, Proper(s), NEW x \in Name
  PROVE  Yields(s, BeZero(s, x), x, 0)
  BY BeZeroSound, RepresentsZero, WritesYields

(* beOne() and beNegOne().                                                 *)
LEMMA UnitYields ==
  ASSUME NEW s, Proper(s), NEW x \in Name, NEW positive \in BOOLEAN
  PROVE  Yields(s, BeUnit(s, x, FlagsFor(positive)), x, IF positive THEN 1 ELSE -1)
<1>1. /\ Represents(FlagsFor(positive), << 1 >>, IF positive THEN 1 ELSE - 1)
      /\ FlagsFor(positive) \in Sign
  BY OneMakes, RepresentsSigned
<1> DEFINE sign == FlagsFor(positive)
<1> HIDE DEF sign
<1>2. Writes(s, BeUnit(s, x, sign), x, sign, << 1 >>)
  BY <1>1, BeUnitSound DEF sign
<1>3. QED
  BY <1>1, <1>2, WritesYields DEF sign

(* assign(), of an object to itself too.                                   *)
LEMMA AssignYields ==
  ASSUME NEW s, Proper(s), NEW x \in Name, NEW y, NEW v, Holds(s, y, v)
  PROVE  Yields(s, Assign(s, x, y), x, v)
<1>1. CASE x = y
  BY <1>1, YieldsSame DEF Assign
<1>2. CASE x # y
  <2>1. y \in Alive(s) /\ Represents(SignOf(s, y), Words(s, y), v)
    BY DEF Holds
  <2>2. Writes(s, CopyConstruct(s, x, y), x, SignOf(s, y), Words(s, y))
    BY <2>1, CopyConstructSound
  <2>3. QED
    BY <1>2, <2>1, <2>2, WritesYields DEF Assign
<1>3. QED
  BY <1>1, <1>2

(* negate().                                                               *)
LEMMA NegateYields ==
  ASSUME NEW s, Proper(s), NEW x, NEW v, Holds(s, x, v)
  PROVE  Yields(s, Negate(s, x), x, - v)
<1> DEFINE w == Words(s, x)
           m == ToNat(w)
<1>1. /\ x \in Alive(s) /\ w \in Seq(Word) /\ Trimmed(w) /\ m \in Nat /\ v \in Int
      /\ \/ SignOf(s, x) = "ZERO" /\ w = << >> /\ v = 0
         \/ SignOf(s, x) = "POSITIVE" /\ w # << >> /\ v = m
         \/ SignOf(s, x) = "NEGATIVE" /\ w # << >> /\ v = - m
  BY HoldsCases
<1>2. Makes(w, m)
  BY <1>1 DEF Makes
<1> HIDE DEF w, m
<1>3. CASE SignOf(s, x) = "ZERO"
  <2>1. Negate(s, x) = s
    BY <1>3 DEF Negate
  <2>2. v = 0
    BY <1>1, <1>3
  <2>3. - v = v
    <3>1. v <= 0 /\ v >= 0 /\ v \in Int
      BY <2>2
    <3>2. QED
      BY ONLY <3>1
  <2>4. QED
    BY <2>1, <2>3, YieldsSame
<1>4. ASSUME NEW same \in BOOLEAN, Negate(s, x) = SetFlags(s, x, FlagsFor(same)),
             w # << >>, - v = IF same THEN m ELSE - m
      PROVE  Yields(s, Negate(s, x), x, - v)
  <2>1. Represents(FlagsFor(same), w, - v) /\ FlagsFor(same) \in Sign
    BY <1>2, <1>4, RepresentsSigned
  <2>2. Writes(s, Negate(s, x), x, FlagsFor(same), w)
    BY <1>1, <1>4, <2>1, SetFlagsSound DEF w
  <2>3. QED
    BY <2>1, <2>2, WritesYields
<1>5. CASE SignOf(s, x) = "POSITIVE"
  <2>1. Negate(s, x) = SetFlags(s, x, FlagsFor(FALSE)) /\ w # << >> /\ - v = - m
    BY <1>1, <1>5 DEF Negate, FlagsFor
  <2>2. QED
    BY <1>4, <2>1
<1>6. CASE SignOf(s, x) = "NEGATIVE"
  <2>1. Negate(s, x) = SetFlags(s, x, FlagsFor(TRUE)) /\ w # << >> /\ - v = m
    BY <1>1, <1>6 DEF Negate, FlagsFor
  <2>2. QED
    BY <1>4, <2>1
<1>7. QED
  BY <1>1, <1>3, <1>5, <1>6

(* abs().                                                                  *)
LEMMA AbsSelfYields ==
  ASSUME NEW s, Proper(s), NEW x, NEW v, Holds(s, x, v)
  PROVE  Yields(s, AbsSelf(s, x), x, Abs(v))
<1>1. v \in Int /\ (SignOf(s, x) = "NEGATIVE" <=> v < 0)
  BY HoldsCases
<1>2. CASE v < 0
  <2>1. Abs(v) = - v /\ AbsSelf(s, x) = Negate(s, x)
    BY <1>1, <1>2 DEF Abs, AbsSelf
  <2>2. QED
    BY <2>1, NegateYields
<1>3. CASE ~(v < 0)
  <2>1. Abs(v) = v /\ AbsSelf(s, x) = s
    BY <1>1, <1>3 DEF Abs, AbsSelf
  <2>2. QED
    BY <2>1, YieldsSame
<1>4. QED
  BY <1>2, <1>3

(* swap(): both ways.                                                      *)
LEMMA SwapWithSound ==
  ASSUME NEW s, Proper(s), NEW x, NEW y, x # y, NEW v, NEW u, Holds(s, x, v), Holds(s, y, u)
  PROVE  LET t == SwapWith(s, x, y)
         IN  Preserves(s, t, {x, y}) /\ Holds(t, x, u) /\ Holds(t, y, v)
<1> DEFINE a == SwapSlices(s, x, y)
           b == [a EXCEPT !.num[x] = s.num[y]]
           t == [b EXCEPT !.num[y] = s.num[x]]
<1>1. /\ x \in Alive(s) /\ y \in Alive(s) /\ Sound(s)
      /\ Represents(SignOf(s, x), Words(s, x), v) /\ Represents(SignOf(s, y), Words(s, y), u)
  BY DEF Holds, Proper
<1>2. /\ Sound(a) /\ SameRest(s, a) /\ Alive(a) = Alive(s)
      /\ Words(a, x) = Words(s, y) /\ Words(a, y) = Words(s, x)
      /\ \A z \in Alive(s) \ {x, y} : Words(a, z) = Words(s, z)
  BY <1>1, SwapSlicesSound
<1>3. a.num = s.num /\ Proper(a)
  BY <1>2 DEF Proper, SameRest
<1>4. SwapWith(s, x, y) = t
  BY DEF SwapWith
<1> HIDE DEF a
<1>5. s.num[x] \in Nums /\ s.num[y] \in Nums
  BY <1>1 DEF Proper, Alive
<1>6. Writes(a, b, x, SignOf(s, y), Words(a, x))
  BY <1>1, <1>2, <1>3, <1>5, NumWrites DEF SignOf
<1> HIDE DEF b
<1>7. Proper(b) /\ y \in Alive(b) /\ Words(b, y) = Words(a, y)
  BY <1>1, <1>2, <1>6, WritesOf DEF Writes, Preserves
<1>8. Writes(b, t, y, SignOf(s, x), Words(b, y))
  BY <1>5, <1>7, NumWrites DEF SignOf
<1> HIDE DEF t
<1>9. \A z \in Alive(s) \ {x, y} : SignOf(a, z) = SignOf(s, z)
  BY <1>3 DEF SignOf
<1>10. Preserves(s, t, {x, y})
  BY <1>2, <1>6, <1>8, <1>9 DEF Writes, Preserves
<1>11. Holds(t, y, v)
  BY <1>1, <1>2, <1>7, <1>8 DEF Writes, Holds
<1>12. x \in Alive(t) /\ SignOf(t, x) = SignOf(s, y) /\ Words(t, x) = Words(s, y)
  BY <1>1, <1>2, <1>6, <1>8 DEF Writes, Preserves
<1>13. QED
  BY <1>1, <1>4, <1>10, <1>11, <1>12 DEF Holds

(* A call that only reads fills the cache.                                 *)
LEMMA GetU32Yields ==
  ASSUME NEW s, Proper(s), NEW x, NEW v, Holds(s, x, v), NEW n
  PROVE  Yields(s, GetU32(s, x, n), x, v)
<1> DEFINE f == FirstNonZeroU32Index(s, x)
           m == [s.num[x] EXCEPT !.cached = TRUE, !.nz = f]
           t == GetFirstNonZeroU32Index(s, x)
<1>1. /\ x \in Alive(s) /\ x \in Name /\ Words(s, x) \in Seq(Word) /\ Trimmed(Words(s, x))
      /\ SignOf(s, x) = "NEGATIVE" => Words(s, x) # << >>
      /\ Represents(SignOf(s, x), Words(s, x), v)
  BY HoldsCases DEF Holds
<1>2. s.num[x] \in Nums
  BY <1>1 DEF Proper
<1>3. CASE SignOf(s, x) = "NEGATIVE"
  <2>1. f \in Nat
    <3>1. FirstNonZero(Words(s, x)) \in Nat
      BY <1>1, <1>3, FirstNonZeroProperties DEF FirstAt
    <3>2. QED
      BY <1>2, <3>1 DEF FirstNonZeroU32Index, Nums
  <2>2. t = [s EXCEPT !.num[x] = m]
    BY DEF GetFirstNonZeroU32Index
  <2> HIDE DEF f, t
  <2>3. m \in Nums /\ m.sign = SignOf(s, x)
    BY <1>2, <2>1 DEF Nums, SignOf
  <2> HIDE DEF m
  <2>4. Writes(s, t, x, SignOf(s, x), Words(s, x))
    BY <1>1, <2>2, <2>3, NumWrites
  <2>5. Yields(s, t, x, v)
    BY <1>1, <2>4, WritesYields
  <2>6. QED
    BY <2>5, YieldsSame DEF GetU32, t
<1>4. CASE SignOf(s, x) # "NEGATIVE"
  <2>1. GetU32(s, x, n) = s
    BY <1>4 DEF GetU32
  <2>2. QED
    BY <2>1, YieldsSame
<1>5. QED
  BY <1>3, <1>4

(* cmp, with its shortcut for equal windows.                               *)
LEMMA CmpExact ==
  ASSUME NEW s, Proper(s), NEW x, NEW y, NEW v, NEW u, Holds(s, x, v), Holds(s, y, u)
  PROVE  Cmp(s, x, y) = IF v < u THEN -1 ELSE IF v = u THEN 0 ELSE 1
<1> DEFINE a == Words(s, x)
           b == Words(s, y)
           p == ToNat(a)
           q == ToNat(b)
           c == CmpMag(a, b)
           sx == Signum(s, x)
           sy == Signum(s, y)
<1>1. /\ a \in Seq(Word) /\ Trimmed(a) /\ b \in Seq(Word) /\ Trimmed(b)
      /\ p \in Nat /\ q \in Nat /\ v \in Int /\ u \in Int
      /\ \/ v = 0 /\ p = 0
         \/ v = p /\ p > 0
         \/ v = - p /\ p > 0
      /\ \/ u = 0 /\ q = 0
         \/ u = q /\ q > 0
         \/ u = - q /\ q > 0
  BY HoldsCases
<1>2. /\ sx = IF v > 0 THEN 1 ELSE IF v = 0 THEN 0 ELSE -1
      /\ sy = IF u > 0 THEN 1 ELSE IF u = 0 THEN 0 ELSE -1
  BY HoldsCases
<1>3. c = IF p < q THEN -1 ELSE IF p = q THEN 0 ELSE 1
  BY <1>1, CmpMagExact
<1>4. WeakEquals(s, x, y) => a = b
  BY DEF WeakEquals, Words, Vec
<1>5. WeakEquals(s, x, y) => p = q
  BY <1>4
<1>6. Cmp(s, x, y) = IF sx # sy THEN (IF sx < sy THEN -1 ELSE 1)
                     ELSE IF sx = 0 \/ WeakEquals(s, x, y) \/ c = 0 THEN 0
                     ELSE sx * c
  BY DEF Cmp
<1> DEFINE same == WeakEquals(s, x, y)
<1> HIDE DEF same, a, b, p, q, c, sx, sy
<1>7. /\ Cmp(s, x, y) = IF sx # sy THEN (IF sx < sy THEN -1 ELSE 1)
                        ELSE IF sx = 0 \/ same \/ c = 0 THEN 0 ELSE sx * c
      /\ same => p = q
  BY <1>5, <1>6 DEF same
<1>8. CASE sx # sy
  BY <1>1, <1>2, <1>7, <1>8
<1>9. CASE sx = sy /\ sx = 0
  BY <1>1, <1>2, <1>7, <1>9
<1>10. CASE sx = sy /\ sx = 1
  BY <1>1, <1>2, <1>3, <1>7, <1>10
<1>11. CASE sx = sy /\ sx = -1
  BY <1>1, <1>2, <1>3, <1>7, <1>11
<1>12. QED
  BY <1>2, <1>8, <1>9, <1>10, <1>11

(* The magnitude of an int64_t: one word below WordMax, two words above.   *)
LEMMA I64Makes ==
  ASSUME NEW m \in Nat, m # 0, m # WordMax, 2 * m < Base * Base
  PROVE  LET len == IF m < WordMax THEN 1 ELSE 2
             r   == SubSeq(<<m % Base, m \div Base>>, 1, len)
         IN  Makes(r, m) /\ Len(r) = len /\ len \in Nat
<1> DEFINE B == Base
           lo == m % B
           hi == m \div B
           pair == <<lo, hi>>
<1>1. B \in Nat /\ B >= 2 /\ WordMax = B - 1
  BY BaseProperties
<1>2. lo \in 0 .. B - 1 /\ hi \in Nat /\ m = hi * B + lo
  <2> HIDE DEF B
  <2>1. QED
    BY <1>1
<1>3. hi < B
  <2> HIDE DEF B, lo, hi
  <2>1. CASE hi >= B
    <3>1. hi * B >= B * B
      BY <1>1, <1>2, <2>1
    <3>2. B * B \in Nat /\ hi * B \in Nat /\ 2 * m < B * B
      BY <1>1, <1>2 DEF B
    <3>3. QED
      BY <1>2, <3>1, <3>2
  <2>2. QED
    BY <1>1, <1>2, <2>1
<1>4. lo \in Word /\ hi \in Word
  BY <1>1, <1>2, <1>3 DEF Word, B
<1>5. CASE m < WordMax
  <2>1. lo = m
    <3> HIDE DEF B
    <3>1. QED
      BY <1>1, <1>5
  <2> HIDE DEF lo, hi
  <2>2. pair \in Seq(Data) /\ Len(pair) = 2 /\ pair[1] = lo
    BY <1>4, WordsAssumption
  <2> DEFINE r == SubSeq(pair, 1, 1)
  <2> HIDE DEF pair
  <2>3. r \in Seq(Data) /\ Len(r) = 1 /\ r[1] = lo
    <3>1. /\ r \in Seq(Data) /\ Len(r) = 1
          /\ \A i \in 1 .. 1 : r[i] = pair[i]
      BY <2>2, PrefixProperties
    <3>2. QED
      BY <2>2, <3>1
  <2> HIDE DEF r
  <2>4. r \in Seq(Word) /\ r \in Seq(Int)
    BY <2>3, WordsAssumption, WordsProperties
  <2>5. ToNat(r) = m
    BY <2>1, <2>3, <2>4, ToNatSingle
  <2>6. Makes(r, m)
    BY <2>1, <2>3, <2>4, <2>5 DEF Makes, Trimmed
  <2>7. QED
    BY <1>5, <2>3, <2>6 DEF r, pair, lo, hi, B
<1>6. CASE ~(m < WordMax)
  <2>1. hi # 0
    <3> HIDE DEF B, lo, hi
    <3>1. QED
      BY <1>1, <1>2, <1>6
  <2> HIDE DEF lo, hi
  <2>2. pair \in Seq(Word) /\ Len(pair) = 2 /\ pair[1] = lo /\ pair[2] = hi
    BY <1>4
  <2> HIDE DEF pair
  <2>3. SubSeq(pair, 1, 2) = pair /\ pair \in Seq(Int)
    BY <2>2, SubSeqFull, WordsProperties
  <2>4. ToNat(pair) = m
    BY <1>2, <2>2, <2>3, ToNatTwo DEF B
  <2>5. Makes(pair, m)
    BY <2>1, <2>2, <2>4 DEF Makes, Trimmed
  <2>6. QED
    BY <1>6, <2>2, <2>3, <2>5 DEF pair, lo, hi, B
<1>7. QED
  BY <1>5, <1>6

(* assign(int64_t).                                                        *)
LEMMA AssignI64Yields ==
  ASSUME NEW s, Proper(s), NEW x \in Alive(s),
         NEW i \in Int, Abs(i) # WordMax, 2 * Abs(i) < Base * Base
  PROVE  Yields(s, AssignI64(s, x, i), x, i)
<1> DEFINE t == CloneData(BeginWrite(s, x), x)
           m == Abs(i)
           len == IF m < WordMax THEN 1 ELSE 2
           r == SubSeq(<<m % Base, m \div Base>>, 1, len)
           a == SubSlice(t, x, 0, len)
           e == SubSlice(t, x, 0, 0)
           b == Overwrite(a, x, r)
           sign == FlagsFor(i > 0)
<1>1. AssignI64(s, x, i) = IF i = 0 THEN SetFlags(e, x, "ZERO") ELSE SetFlags(b, x, sign)
  BY DEF AssignI64
<1>2. Writes(s, t, x, SignOf(s, x), Words(s, x)) /\ Sole(t, x)
  BY OwnedSound
<1> HIDE DEF t
<1>3. Sound(t) /\ x \in Alive(t)
  BY <1>2, WritesOf
<1>4. m \in Nat /\ (i = 0 <=> m = 0) /\ i = IF i > 0 THEN m ELSE - m
  BY DEF Abs
<1> HIDE DEF m
<1>5. CASE i = 0
  <2>1. Differ(t, e, x, << >>)
    <3> DEFINE z == 0
    <3>1. z \in 0 .. Count(t, x) /\ z \in 0 .. z /\ z + 1 = 1
      BY <1>3, WordsAre
    <3> HIDE DEF z
    <3>2. Differ(t, SubSlice(t, x, z, z), x, SubSeq(Words(t, x), z + 1, z))
      BY <1>3, <3>1, NarrowSound
    <3>3. SubSeq(Words(t, x), 1, 0) = << >>
      <4>1. Words(t, x) \in Seq(Word)
        BY <1>3, WordsAre
      <4>2. QED
        BY <4>1, SubSeqEmpty
    <3>4. QED
      BY <3>1, <3>2, <3>3 DEF z
  <2>2. Writes(s, e, x, SignOf(s, x), << >>)
    BY <1>2, <2>1, ThenDiffer
  <2> HIDE DEF e
  <2>3. Writes(s, SetFlags(e, x, "ZERO"), x, "ZERO", << >>)
    BY <2>2, ThenFlags DEF Sign
  <2>4. QED
    BY <1>1, <1>5, <2>3, RepresentsZero, WritesYields
<1>6. CASE i # 0
  <2>1. Makes(r, m) /\ Len(r) = len /\ len \in Nat /\ m # 0
    <3>1. m # 0 /\ m # WordMax /\ 2 * m < Base * Base
      BY <1>4, <1>6 DEF m
    <3>2. QED
      BY <1>4, <3>1, I64Makes
  <2> HIDE DEF r, len
  <2>2. Differ(t, a, x, Words(a, x)) /\ Sole(a, x) /\ Count(a, x) = len
    BY <1>2, <1>3, <2>1, WindowSound
  <2> HIDE DEF a
  <2>3. Sound(a) /\ x \in Alive(a) /\ r \in Seq(Data)
    BY <2>1, <2>2, WordsAssumption DEF Differ, Makes
  <2>4. Differ(a, b, x, r)
    BY <2>1, <2>2, <2>3, OverwriteSound
  <2> HIDE DEF b
  <2>5. Writes(s, b, x, SignOf(s, x), r)
    BY <1>2, <2>2, <2>4, ThenDiffer
  <2>6. Represents(sign, r, i) /\ sign \in Sign
    <3>1. (i > 0) \in BOOLEAN
      OBVIOUS
    <3>2. /\ Represents(FlagsFor(i > 0), r, IF i > 0 THEN m ELSE - m)
          /\ FlagsFor(i > 0) \in Sign
      BY <2>1, <3>1, RepresentsSigned
    <3>3. QED
      BY <1>4, <3>2
  <2> HIDE DEF sign
  <2>7. Writes(s, SetFlags(b, x, sign), x, sign, r)
    BY <2>5, <2>6, ThenFlags
  <2>8. QED
    BY <1>1, <1>6, <2>6, <2>7, WritesYields
<1>7. QED
  BY <1>5, <1>6

(* A magnitude that is rewritten under its sign.                           *)
LEMMA RepresentsLike ==
  ASSUME NEW sign \in {"POSITIVE", "NEGATIVE"}, NEW w, NEW m, Makes(w, m), w # << >> \/ m # 0
  PROVE  Represents(sign, w, IF sign = "POSITIVE" THEN m ELSE - m)
<1> DEFINE same == sign = "POSITIVE"
<1>1. same \in BOOLEAN /\ FlagsFor(same) = sign
  BY DEF FlagsFor
<1> HIDE DEF same
<1>2. Represents(FlagsFor(same), w, IF same THEN m ELSE - m)
  BY <1>1, RepresentsSigned
<1>3. QED
  BY <1>1, <1>2 DEF same

(* What ends with a look whether anything is left.                         *)
LEMMA ZeroIfEmptyYields ==
  ASSUME NEW s, NEW t, NEW x, NEW sign \in {"POSITIVE", "NEGATIVE"}, NEW w, NEW m,
         Writes(s, t, x, sign, w), Makes(w, m),
         NEW v, IF m = 0 THEN v = 0 ELSE v = IF sign = "POSITIVE" THEN m ELSE - m
  PROVE  Yields(s, ZeroIfEmpty(t, x), x, v)
<1>1. Proper(t) /\ x \in Alive(t) /\ x \in Name /\ Sound(t) /\ Words(t, x) = w
  BY WritesOf DEF Writes
<1>2. /\ w \in Seq(Word) /\ Len(w) = Count(t, x)
      /\ (w = << >> <=> m = 0) /\ (w = << >> <=> Len(w) = 0)
  <2>1. w \in Seq(Word) /\ (w = << >> <=> m = 0)
    BY EmptyIsZero DEF Makes
  <2>2. Len(w) = Count(t, x)
    BY <1>1, WordsAre
  <2>3. QED
    BY <2>1, <2>2, EmptySeq
<1>3. CASE m = 0
  <2>1. ZeroIfEmpty(t, x) = BeZero(t, x) /\ v = 0
    BY <1>2, <1>3 DEF ZeroIfEmpty
  <2>2. QED
    BY <1>1, <2>1, ZeroYields, WritesThenYields
<1>4. CASE m # 0
  <2>1. ZeroIfEmpty(t, x) = t /\ v = IF sign = "POSITIVE" THEN m ELSE - m
    BY <1>2, <1>4 DEF ZeroIfEmpty
  <2>2. QED
    BY <1>4, <2>1, RepresentsLike, WritesYields
<1>5. QED
  BY <1>3, <1>4

(* inc and dec.                                                            *)
LEMMA StepByYields ==
  ASSUME NEW s, Proper(s), NEW x, NEW v, Holds(s, x, v), NEW step \in {1, -1}
  PROVE  Yields(s, StepBy(s, x, step), x, v + step)
<1> DEFINE t == CloneData(BeginWrite(s, x), x)
           w == Words(s, x)
           m == ToNat(w)
           sg == SignOf(s, x)
<1>1. /\ x \in Alive(s) /\ x \in Name /\ w \in Seq(Word) /\ Trimmed(w) /\ m \in Nat /\ v \in Int
      /\ \/ sg = "ZERO" /\ w = << >> /\ v = 0 /\ m = 0
         \/ sg = "POSITIVE" /\ w # << >> /\ v = m /\ m > 0
         \/ sg = "NEGATIVE" /\ w # << >> /\ v = - m /\ m > 0
      /\ Signum(s, x) = IF v > 0 THEN 1 ELSE IF v = 0 THEN 0 ELSE -1
  BY HoldsCases
<1>2. Writes(s, t, x, sg, w) /\ Sole(t, x)
  BY <1>1, OwnedSound
<1>3. StepBy(s, x, step) = IF Signum(t, x) = 0 THEN BeUnit(t, x, FlagsFor(step = 1))
                           ELSE IF Signum(t, x) = step THEN IncMagOf(t, x)
                           ELSE ZeroIfEmpty(DecMagOf(t, x), x)
  BY DEF StepBy
<1> HIDE DEF t
<1>4. Proper(t) /\ Sound(t) /\ x \in Alive(t) /\ Words(t, x) = w /\ Signum(t, x) = Signum(s, x)
  BY <1>2, WritesOf DEF Writes, Signum
<1> HIDE DEF w, m, sg
<1>5. CASE v = 0
  <2>1. (step = 1) \in BOOLEAN /\ v + step = IF step = 1 THEN 1 ELSE -1
    BY <1>5
  <2>2. Yields(t, BeUnit(t, x, FlagsFor(step = 1)), x, v + step)
    BY <1>1, <1>4, <2>1, UnitYields
  <2>3. StepBy(s, x, step) = BeUnit(t, x, FlagsFor(step = 1))
    BY <1>1, <1>3, <1>4, <1>5
  <2>4. QED
    BY <1>2, <2>2, <2>3, WritesThenYields
<1>6. CASE v # 0
  <2>1. sg \in {"POSITIVE", "NEGATIVE"} /\ m > 0 /\ v = IF sg = "POSITIVE" THEN m ELSE - m
    BY <1>1, <1>6
  <2>2. Signum(t, x) = IF sg = "POSITIVE" THEN 1 ELSE -1
    BY <1>1, <1>4, <2>1
  <2>3. CASE Signum(t, x) = step
    <3>1. StepBy(s, x, step) = IncMagOf(t, x)
      BY <1>3, <2>3
    <3>2. Differ(t, IncMagOf(t, x), x, IncMag(w))
      BY <1>2, <1>4, IncMagOfSound
    <3>3. Writes(s, IncMagOf(t, x), x, sg, IncMag(w))
      BY <1>2, <3>2, ThenDiffer
    <3>4. Makes(IncMag(w), m + 1) /\ IncMag(w) # << >>
      BY <1>1, IncMakes DEF m
    <3>5. Represents(sg, IncMag(w), IF sg = "POSITIVE" THEN m + 1 ELSE - (m + 1))
      BY <2>1, <3>4, RepresentsLike
    <3>6. v + step = IF sg = "POSITIVE" THEN m + 1 ELSE - (m + 1)
      BY <1>1, <2>1, <2>2, <2>3
    <3>7. QED
      BY <3>1, <3>3, <3>5, <3>6, WritesYields
  <2>4. CASE Signum(t, x) # step
    <3>1. StepBy(s, x, step) = ZeroIfEmpty(DecMagOf(t, x), x)
      BY <1>3, <2>2, <2>4
    <3>2. Differ(t, DecMagOf(t, x), x, DecMag(w))
      BY <1>2, <1>4, DecMagOfSound
    <3>3. Writes(s, DecMagOf(t, x), x, sg, DecMag(w))
      BY <1>2, <3>2, ThenDiffer
    <3>4. Makes(DecMag(w), m - 1)
      BY <1>1, <2>1, DecMagExact DEF Makes, m
    <3>5. IF m - 1 = 0 THEN v + step = 0
          ELSE v + step = IF sg = "POSITIVE" THEN m - 1 ELSE - (m - 1)
      BY <1>1, <2>1, <2>2, <2>4
    <3>6. QED
      BY <2>1, <3>1, <3>3, <3>4, <3>5, ZeroIfEmptyYields
  <2>5. QED
    BY <2>3, <2>4
<1>7. QED
  BY <1>5, <1>6

(* addAssign() of a magnitude, under the sign the object has.              *)
LEMMA AddMagYields ==
  ASSUME NEW s, Proper(s), NEW x, NEW y, NEW v, NEW u, Holds(s, x, v), Holds(s, y, u), v # 0
  PROVE  Yields(s, AddMagTo(CloneData(BeginWrite(s, x), x), x, y), x,
                IF v > 0 THEN v + Abs(u) ELSE v - Abs(u))
<1> DEFINE t == CloneData(BeginWrite(s, x), x)
           r == AddMagTo(t, x, y)
           a == Words(s, x)
           b == Words(s, y)
           m == ToNat(a)
           k == ToNat(b)
           sg == SignOf(s, x)
           z == IF v > 0 THEN v + Abs(u) ELSE v - Abs(u)
<1>1. /\ x \in Alive(s) /\ x \in Name /\ a \in Seq(Word) /\ Trimmed(a) /\ m \in Nat /\ v \in Int
      /\ sg \in {"POSITIVE", "NEGATIVE"} /\ m > 0 /\ v = IF sg = "POSITIVE" THEN m ELSE - m
  <2>1. /\ x \in Alive(s) /\ x \in Name /\ a \in Seq(Word) /\ Trimmed(a) /\ m \in Nat /\ v \in Int
        /\ \/ v = 0
           \/ sg = "POSITIVE" /\ v = m /\ m > 0
           \/ sg = "NEGATIVE" /\ v = - m /\ m > 0
    BY HoldsCases
  <2> HIDE DEF a, m, sg
  <2>2. QED
    BY <2>1
<1>2. /\ y \in Alive(s) /\ b \in Seq(Word) /\ Trimmed(b) /\ k \in Nat /\ u \in Int
      /\ Abs(u) = k
  <2>1. /\ y \in Alive(s) /\ b \in Seq(Word) /\ Trimmed(b) /\ k \in Nat /\ u \in Int
        /\ \/ u = 0 /\ k = 0
           \/ u = k /\ k > 0
           \/ u = - k /\ k > 0
    BY HoldsCases
  <2> HIDE DEF b, k
  <2>2. QED
    BY <2>1 DEF Abs
<1>3. Writes(s, t, x, sg, a) /\ Sole(t, x)
  BY <1>1, OwnedSound
<1> HIDE DEF t
<1>4. Sound(t) /\ x \in Alive(t) /\ y \in Alive(t) /\ Words(t, x) = a /\ Words(t, y) = b
  <2>1. Sound(t) /\ x \in Alive(t) /\ Words(t, x) = a
    BY <1>3, WritesOf DEF Writes
  <2>2. y \in Alive(t) /\ Words(t, y) = b
    BY <1>2, <1>3, <2>1 DEF Writes, Preserves
  <2>3. QED
    BY <2>1, <2>2
<1>5. Differ(t, r, x, AddMag(a, b))
  BY <1>3, <1>4, AddMagToSound
<1> HIDE DEF r
<1>6. Writes(s, r, x, sg, AddMag(a, b))
  BY <1>3, <1>5, ThenDiffer
<1>7. Makes(AddMag(a, b), m + k)
  BY <1>1, <1>2, AddMagExact DEF Makes
<1> HIDE DEF a, b, m, k, sg
<1>8. m + k # 0
  BY <1>1, <1>2
<1>9. Represents(sg, AddMag(a, b), IF sg = "POSITIVE" THEN m + k ELSE - (m + k))
  BY <1>1, <1>7, <1>8, RepresentsLike
<1>10. z = IF sg = "POSITIVE" THEN m + k ELSE - (m + k)
  BY <1>1, <1>2
<1> HIDE DEF z
<1>11. Yields(s, r, x, z)
  BY <1>6, <1>9, <1>10, WritesYields
<1>12. QED
  BY <1>11 DEF r, t, z

(* The difference of magnitudes, with the flags the comparison gives it.   *)
LEMMA DifferenceYields ==
  ASSUME NEW s, Proper(s), NEW x, NEW y, NEW v, NEW u, Holds(s, x, v), Holds(s, y, u),
         v # 0, u # 0, "copy" \notin Alive(s)
  PROVE  Yields(s, Difference(s, x, y), x, IF v > 0 THEN v - Abs(u) ELSE v + Abs(u))
<1> DEFINE a == Words(s, x)
           b == Words(s, y)
           m == ToNat(a)
           k == ToNat(b)
           c == CmpMag(a, b)
           mine == CloneData(s, x)
           shared == CopySlice(s, "copy", y)
           copy == CloneData(shared, "copy")
           down == SubMagFrom(mine, x, y)
           up == SubMagFrom(copy, "copy", x)
           over == CopySlice(up, x, "copy")
           same == Signum(s, x) = c
           z == IF v > 0 THEN v - Abs(u) ELSE v + Abs(u)
<1>1. /\ x \in Alive(s) /\ x \in Name /\ a \in Seq(Word) /\ Trimmed(a) /\ m \in Nat /\ v \in Int
      /\ m > 0 /\ v = IF v > 0 THEN m ELSE - m
      /\ Signum(s, x) = IF v > 0 THEN 1 ELSE -1
  <2>1. /\ x \in Alive(s) /\ x \in Name /\ a \in Seq(Word) /\ Trimmed(a) /\ m \in Nat /\ v \in Int
        /\ \/ v = 0
           \/ v = m /\ m > 0
           \/ v = - m /\ m > 0
        /\ Signum(s, x) = IF v > 0 THEN 1 ELSE IF v = 0 THEN 0 ELSE -1
    BY HoldsCases
  <2> HIDE DEF a, m
  <2>2. QED
    BY <2>1
<1>2. /\ y \in Alive(s) /\ b \in Seq(Word) /\ Trimmed(b) /\ k \in Nat /\ u \in Int
      /\ Abs(u) = k
  <2>1. /\ y \in Alive(s) /\ b \in Seq(Word) /\ Trimmed(b) /\ k \in Nat /\ u \in Int
        /\ \/ u = 0 /\ k = 0
           \/ u = k /\ k > 0
           \/ u = - k /\ k > 0
    BY HoldsCases
  <2> HIDE DEF b, k
  <2>2. QED
    BY <2>1 DEF Abs
<1>3. c = IF m < k THEN -1 ELSE IF m = k THEN 0 ELSE 1
  BY <1>1, <1>2, CmpMagExact
<1>4. Sound(s)
  BY DEF Proper
<1>5. Difference(s, x, y) =
        IF c = 0 THEN BeZero(s, x)
        ELSE SetFlags(EraseZeros(IF c > 0 THEN down ELSE over, x), x, FlagsFor(same))
  BY DEF Difference
<1>6. same \in BOOLEAN
  OBVIOUS
<1> HIDE DEF same
<1>7. ASSUME NEW t, Preserves(s, t, {x}), x \in Alive(t), NEW d, Words(t, x) = d,
             d \in Seq(Word), ToNat(d) # 0, z = IF same THEN ToNat(d) ELSE - ToNat(d)
      PROVE  Yields(s, SetFlags(EraseZeros(t, x), x, FlagsFor(same)), x, z)
  <2> DEFINE e == EraseZeros(t, x)
             o == EraseZerosSuffix(d)
             n == ToNat(d)
  <2>1. Proper(t) /\ Sound(t)
    BY <1>7 DEF Preserves, Proper
  <2>2. Differ(t, e, x, o)
    BY <1>7, <2>1, EraseZerosSound
  <2>3. Writes(s, t, x, SignOf(t, x), d)
    BY <1>7 DEF Writes
  <2>4. Writes(s, e, x, SignOf(t, x), o)
    BY <2>2, <2>3, ThenDiffer
  <2>5. Makes(o, n) /\ n # 0
    BY <1>7, EraseProperties DEF Makes
  <2> HIDE DEF e, o, n
  <2>6. Represents(FlagsFor(same), o, IF same THEN n ELSE - n) /\ FlagsFor(same) \in Sign
    BY <1>6, <2>5, RepresentsSigned
  <2>7. Writes(s, SetFlags(e, x, FlagsFor(same)), x, FlagsFor(same), o)
    BY <2>4, <2>6, ThenFlags
  <2>8. z = IF same THEN n ELSE - n
    BY <1>7 DEF n
  <2> HIDE DEF z
  <2>9. QED
    BY <2>6, <2>7, <2>8, WritesYields DEF e
<1>8. CASE c = 0
  <2>1. z = 0
    <3> HIDE DEF a, b, m, k, c
    <3>1. QED
      BY <1>1, <1>2, <1>3, <1>8
  <2>2. Yields(s, BeZero(s, x), x, 0)
    BY <1>1, ZeroYields
  <2>3. QED
    BY <1>5, <1>8, <2>1, <2>2
<1>9. CASE c > 0
  <2> DEFINE d == SubMag(a, b)
  <2>1. k < m /\ z = IF same THEN m - k ELSE - (m - k)
    <3> HIDE DEF a, b, m, k, c
    <3>1. QED
      BY <1>1, <1>2, <1>3, <1>9 DEF same
  <2>2. Len(b) <= Len(a) /\ k <= m
    BY <1>1, <1>2, <2>1, NotLonger
  <2>3. d \in Seq(Word) /\ ToNat(d) = m - k
    BY <1>1, <1>2, <2>2, SubMagExact
  <2>4. Differ(s, mine, x, a) /\ Sole(mine, x)
    BY <1>1, <1>4, CloneDataSound
  <2>5. Sound(mine) /\ x \in Alive(mine) /\ y \in Alive(mine)
        /\ Words(mine, x) = a /\ Words(mine, y) = b
    BY <1>2, <2>4 DEF Differ
  <2> HIDE DEF mine
  <2>6. Differ(mine, down, x, d)
    BY <2>2, <2>4, <2>5, SubMagFromSound
  <2>7. Differ(s, down, x, d)
    BY <2>4, <2>6, DifferTwice
  <2>8. Writes(s, down, x, SignOf(s, x), d)
    BY <2>7, DifferWrites
  <2> HIDE DEF down, z, d, a, b, m, k, c
  <2>9. /\ Preserves(s, down, {x}) /\ x \in Alive(down) /\ Words(down, x) = d
        /\ d \in Seq(Word) /\ ToNat(d) # 0 /\ z = IF same THEN ToNat(d) ELSE - ToNat(d)
    BY <1>1, <1>2, <2>1, <2>3, <2>8 DEF Writes
  <2>10. Yields(s, SetFlags(EraseZeros(down, x), x, FlagsFor(same)), x, z)
    BY <1>7, <2>9
  <2>11. Difference(s, x, y) = SetFlags(EraseZeros(down, x), x, FlagsFor(same))
    BY <1>5, <1>9
  <2>12. QED
    BY <2>10, <2>11 DEF z
<1>10. CASE c < 0
  <2> DEFINE d == SubMag(b, a)
  <2>1. m < k /\ z = IF same THEN k - m ELSE - (k - m)
    <3> HIDE DEF a, b, m, k, c
    <3>1. QED
      BY <1>1, <1>2, <1>3, <1>10 DEF same
  <2>2. Len(a) <= Len(b) /\ m <= k
    BY <1>1, <1>2, <2>1, NotLonger
  <2>3. d \in Seq(Word) /\ ToNat(d) = k - m
    BY <1>1, <1>2, <2>2, SubMagExact
  <2>4. "copy" \in Name /\ x # "copy"
    BY <1>1, NameAssumption DEF Local
  <2> DEFINE loc == "copy"
  <2>5. loc \in Name /\ x # loc /\ loc \notin Alive(s)
    BY <2>4
  <2>6. /\ shared = CopySlice(s, loc, y) /\ copy = CloneData(shared, loc)
        /\ up = SubMagFrom(copy, loc, x) /\ over = CopySlice(up, x, loc)
    OBVIOUS
  <2> HIDE DEF loc, shared, copy, up, over
  <2>7. Differ(s, shared, loc, b)
    BY <1>2, <1>4, <2>5, <2>6, CopySliceSound
  <2>8. Sound(shared) /\ loc \in Alive(shared) /\ Words(shared, loc) = b
    BY <2>7 DEF Differ
  <2>9. Differ(shared, copy, loc, b) /\ Sole(copy, loc)
    BY <2>6, <2>8, CloneDataSound
  <2>10. Differ(s, copy, loc, b)
    BY <2>7, <2>9, DifferTwice
  <2>11. /\ Sound(copy) /\ loc \in Alive(copy) /\ x \in Alive(copy)
         /\ Words(copy, loc) = b /\ Words(copy, x) = a
    BY <1>1, <2>5, <2>10 DEF Differ
  <2>12. Differ(copy, up, loc, d)
    BY <2>2, <2>6, <2>9, <2>11, SubMagFromSound
  <2>13. Differ(s, up, loc, d)
    BY <2>10, <2>12, DifferTwice
  <2>14. Sound(up) /\ loc \in Alive(up) /\ Words(up, loc) = d
    BY <2>13 DEF Differ
  <2>15. Differ(up, over, x, d)
    BY <1>1, <2>6, <2>14, CopySliceSound
  <2>16. Writes(s, up, loc, SignOf(s, loc), d)
    BY <2>13, DifferWrites
  <2>17. Proper(up)
    BY <2>16, WritesOf
  <2>18. Writes(up, over, x, SignOf(up, x), d)
    BY <2>15, <2>17, DifferWrites
  <2>19. Preserves(s, over, {x} \cup {loc})
    <3>1. Preserves(s, up, {loc}) /\ Preserves(up, over, {x})
      BY <2>16, <2>18 DEF Writes
    <3>2. QED
      BY <3>1, PreservesMore, PreservesTwice
  <2>20. Preserves(s, over, {x})
    BY <2>5, <2>19, PreservesDead
  <2> HIDE DEF z, d, a, b, m, k, c
  <2>21. /\ Preserves(s, over, {x}) /\ x \in Alive(over) /\ Words(over, x) = d
         /\ d \in Seq(Word) /\ ToNat(d) # 0 /\ z = IF same THEN ToNat(d) ELSE - ToNat(d)
    BY <1>1, <1>2, <2>1, <2>3, <2>18, <2>20 DEF Writes
  <2>22. Yields(s, SetFlags(EraseZeros(over, x), x, FlagsFor(same)), x, z)
    BY <1>7, <2>21
  <2>23. Difference(s, x, y) = SetFlags(EraseZeros(over, x), x, FlagsFor(same))
    <3>1. ~(c > 0) /\ c # 0
      BY <1>3, <1>1, <1>2, <1>10
    <3>2. QED
      BY <1>5, <3>1
  <2>24. QED
    BY <2>22, <2>23 DEF z
<1>11. QED
  <2> HIDE DEF a, b, m, k, c
  <2>1. c = 0 \/ c > 0 \/ c < 0
    BY <1>1, <1>2, <1>3
  <2>2. QED
    BY <1>8, <1>9, <1>10, <2>1

(* beginWrite() changes no value.                                          *)
LEMMA BeginWriteHolds ==
  ASSUME NEW s, Proper(s), NEW x, NEW y, NEW v, NEW u, Holds(s, x, v), Holds(s, y, u)
  PROVE  LET t == BeginWrite(s, x)
         IN  /\ Proper(t) /\ Preserves(s, t, {x}) /\ Alive(t) = Alive(s)
             /\ Holds(t, x, v) /\ Holds(t, y, u)
<1> DEFINE t == BeginWrite(s, x)
<1>1. x \in Alive(s) /\ y \in Alive(s) /\ Sound(s)
  BY HoldsCases
<1>2. Writes(s, t, x, SignOf(s, x), Words(s, x)) /\ SameSlices(s, t)
  BY <1>1, BeginWriteSound
<1> HIDE DEF t
<1>3. Alive(t) = Alive(s)
  BY <1>1, <1>2, SameSlicesSound
<1>4. Proper(t) /\ Preserves(s, t, {x}) /\ Holds(t, x, v)
  BY <1>2 DEF Writes, Preserves, Holds
<1>5. Holds(t, y, u)
  <2>1. CASE x = y
    BY <1>2, <2>1 DEF Writes, Holds
  <2>2. CASE x # y
    BY <1>1, <1>4, <2>2 DEF Preserves, Holds
  <2>3. QED
    BY <2>1, <2>2
<1>6. QED
  BY <1>3, <1>4, <1>5 DEF t

(* A call after a step that changed no value.                              *)
LEMMA ThenYields ==
  ASSUME NEW s, NEW t, NEW r, NEW x, NEW v, Preserves(s, t, {x}), Yields(t, r, x, v)
  PROVE  Yields(s, r, x, v)
  BY PreservesTwice DEF Yields

(* addAssign().                                                            *)
LEMMA AddAssignYields ==
  ASSUME NEW s, Proper(s), NEW x, NEW y, NEW v, NEW u, Holds(s, x, v), Holds(s, y, u),
         "copy" \notin Alive(s)
  PROVE  Yields(s, AddAssign(s, x, y), x, v + u)
<1> DEFINE t == BeginWrite(s, x)
           sx == SignOf(s, x)
           sy == SignOf(s, y)
           add == AddMagTo(CloneData(t, x), x, y)
           dif == Difference(t, x, y)
<1>1. /\ x \in Name /\ v \in Int /\ u \in Int
      /\ \/ sx = "ZERO" /\ v = 0
         \/ sx = "POSITIVE" /\ v > 0
         \/ sx = "NEGATIVE" /\ v < 0
      /\ \/ sy = "ZERO" /\ u = 0
         \/ sy = "POSITIVE" /\ u > 0
         \/ sy = "NEGATIVE" /\ u < 0
  BY HoldsCases
<1>2. AddAssign(s, x, y) = IF sy = "ZERO" THEN s ELSE IF sx = "ZERO" THEN Assign(s, x, y)
                           ELSE IF sx = sy THEN add ELSE dif
  BY DEF AddAssign
<1>3. Yields(s, add, x, IF v > 0 THEN v + Abs(u) ELSE v - Abs(u)) \/ v = 0
  BY AddMagYields
<1>4. /\ Proper(t) /\ Preserves(s, t, {x}) /\ Alive(t) = Alive(s)
      /\ Holds(t, x, v) /\ Holds(t, y, u)
  BY BeginWriteHolds
<1> HIDE DEF t, sx, sy, add
<1>5. CASE sy = "ZERO"
  <2>1. AddAssign(s, x, y) = s /\ v + u = v
    BY <1>1, <1>2, <1>5
  <2>2. QED
    BY <2>1, YieldsSame
<1>6. CASE sy # "ZERO" /\ sx = "ZERO"
  <2>1. AddAssign(s, x, y) = Assign(s, x, y) /\ v + u = u
    BY <1>1, <1>2, <1>6
  <2>2. QED
    BY <1>1, <2>1, AssignYields
<1>7. CASE sy # "ZERO" /\ sx # "ZERO" /\ sx = sy
  <2>1. AddAssign(s, x, y) = add /\ v # 0
    BY <1>1, <1>2, <1>7
  <2>2. v + u = IF v > 0 THEN v + Abs(u) ELSE v - Abs(u)
    BY <1>1, <1>7 DEF Abs
  <2>3. QED
    BY <1>3, <2>1, <2>2
<1>8. CASE sy # "ZERO" /\ sx # "ZERO" /\ sx # sy
  <2>1. AddAssign(s, x, y) = dif /\ v # 0 /\ u # 0
    BY <1>1, <1>2, <1>8
  <2>2. v + u = IF v > 0 THEN v - Abs(u) ELSE v + Abs(u)
    BY <1>1, <1>8 DEF Abs
  <2>3. Yields(t, dif, x, IF v > 0 THEN v - Abs(u) ELSE v + Abs(u))
    BY <1>4, <2>1, DifferenceYields
  <2>4. Yields(t, dif, x, v + u)
    BY <2>2, <2>3
  <2>5. QED
    BY <1>4, <2>1, <2>4, ThenYields
<1>9. QED
  BY <1>5, <1>6, <1>7, <1>8

(* subAssign(), with its shortcut for equal windows.                       *)
LEMMA SubAssignYields ==
  ASSUME NEW s, Proper(s), NEW x, NEW y, NEW v, NEW u, Holds(s, x, v), Holds(s, y, u),
         "copy" \notin Alive(s)
  PROVE  Yields(s, SubAssign(s, x, y), x, v - u)
<1> DEFINE t == BeginWrite(s, x)
           sx == SignOf(s, x)
           sy == SignOf(s, y)
           add == AddMagTo(CloneData(t, x), x, y)
           dif == Difference(t, x, y)
           neg == Negate(Assign(s, x, y), x)
           equal == x = y \/ (sx = sy /\ WeakEquals(s, x, y))
<1>1. /\ x \in Name /\ v \in Int /\ u \in Int
      /\ \/ sx = "ZERO" /\ v = 0
         \/ sx = "POSITIVE" /\ v > 0
         \/ sx = "NEGATIVE" /\ v < 0
      /\ \/ sy = "ZERO" /\ u = 0
         \/ sy = "POSITIVE" /\ u > 0
         \/ sy = "NEGATIVE" /\ u < 0
  BY HoldsCases
<1>2. SubAssign(s, x, y) = IF sy = "ZERO" THEN s ELSE IF sx = "ZERO" THEN neg
                           ELSE IF equal THEN BeZero(s, x)
                           ELSE IF sx # sy THEN add ELSE dif
  BY DEF SubAssign
<1>3. Yields(s, add, x, IF v > 0 THEN v + Abs(u) ELSE v - Abs(u)) \/ v = 0
  BY AddMagYields
<1>4. /\ Proper(t) /\ Preserves(s, t, {x}) /\ Alive(t) = Alive(s)
      /\ Holds(t, x, v) /\ Holds(t, y, u)
  BY BeginWriteHolds
<1>5. equal => v = u
  <2>1. CASE equal
    <3>1. sx = sy /\ Words(s, x) = Words(s, y)
      BY <2>1 DEF WeakEquals, Words, Vec
    <3>2. v = SignumOf(sx) * ToNat(Words(s, x)) /\ u = SignumOf(sy) * ToNat(Words(s, y))
      BY DEF Holds, Represents
    <3>3. QED
      BY <3>1, <3>2
  <2>2. QED
    BY <2>1
<1> HIDE DEF t, sx, sy, add, neg, equal
<1>6. CASE sy = "ZERO"
  <2>1. SubAssign(s, x, y) = s /\ v - u = v
    BY <1>1, <1>2, <1>6
  <2>2. QED
    BY <2>1, YieldsSame
<1>7. CASE sy # "ZERO" /\ sx = "ZERO"
  <2>1. SubAssign(s, x, y) = neg /\ v - u = - u
    BY <1>1, <1>2, <1>7
  <2> DEFINE a == Assign(s, x, y)
  <2>2. Yields(s, a, x, u)
    BY <1>1, AssignYields
  <2> HIDE DEF a
  <2>3. Proper(a) /\ Holds(a, x, u)
    BY <2>2 DEF Yields, Preserves
  <2>4. Yields(a, Negate(a, x), x, - u)
    BY <2>3, NegateYields
  <2>5. QED
    BY <2>1, <2>2, <2>4, YieldsTwice DEF neg, a
<1>8. CASE sy # "ZERO" /\ sx # "ZERO" /\ equal
  <2>1. SubAssign(s, x, y) = BeZero(s, x) /\ v - u = 0
    BY <1>1, <1>2, <1>5, <1>8
  <2>2. QED
    BY <1>1, <2>1, ZeroYields
<1>9. CASE sy # "ZERO" /\ sx # "ZERO" /\ ~equal /\ sx # sy
  <2>1. SubAssign(s, x, y) = add /\ v # 0
    BY <1>1, <1>2, <1>9
  <2>2. v - u = IF v > 0 THEN v + Abs(u) ELSE v - Abs(u)
    BY <1>1, <1>9 DEF Abs
  <2>3. QED
    BY <1>3, <2>1, <2>2
<1>10. CASE sy # "ZERO" /\ sx # "ZERO" /\ ~equal /\ sx = sy
  <2>1. SubAssign(s, x, y) = dif /\ v # 0 /\ u # 0
    BY <1>1, <1>2, <1>10
  <2>2. v - u = IF v > 0 THEN v - Abs(u) ELSE v + Abs(u)
    BY <1>1, <1>10 DEF Abs
  <2>3. Yields(t, dif, x, IF v > 0 THEN v - Abs(u) ELSE v + Abs(u))
    BY <1>4, <2>1, DifferenceYields
  <2>4. Yields(t, dif, x, v - u)
    BY <2>2, <2>3
  <2>5. QED
    BY <1>4, <2>1, <2>4, ThenYields
<1>11. QED
  BY <1>6, <1>7, <1>8, <1>9, <1>10

(* The product of two magnitudes that are not empty, and its sign.         *)
LEMMA ProductRepresents ==
  ASSUME NEW a, NEW b, NEW sx, NEW sy, NEW v, NEW u,
         Represents(sx, a, v), Represents(sy, b, u), v # 0, u # 0
  PROVE  /\ a # << >> /\ b # << >>
         /\ FlagsFor(sx = sy) \in Sign
         /\ Represents(FlagsFor(sx = sy), SchoolProduct(a, b), v * u)
<1> DEFINE m == ToNat(a)
           k == ToNat(b)
           r == SchoolProduct(a, b)
           same == sx = sy
<1>1. /\ a \in Seq(Word) /\ Trimmed(a) /\ m \in Nat /\ v \in Int /\ a # << >> /\ m > 0
      /\ \/ sx = "POSITIVE" /\ v = m
         \/ sx = "NEGATIVE" /\ v = - m
  BY RepresentsCases
<1>2. /\ b \in Seq(Word) /\ Trimmed(b) /\ k \in Nat /\ u \in Int /\ b # << >> /\ k > 0
      /\ \/ sy = "POSITIVE" /\ u = k
         \/ sy = "NEGATIVE" /\ u = - k
  BY RepresentsCases
<1>3. r \in Seq(Word) /\ ToNat(r) = m * k /\ Trimmed(r)
  BY <1>1, <1>2, SchoolProductExact
<1> HIDE DEF m, k
<1>4. m * k > 0 /\ v * u = IF same THEN m * k ELSE - (m * k)
  <2>1. m * k > 0
    BY <1>1, <1>2
  <2>2. CASE v = m /\ u = k
    <3>1. same
      BY <1>1, <1>2, <2>2
    <3>2. QED
      BY <2>1, <2>2, <3>1
  <2>3. CASE v = - m /\ u = k
    <3>1. ~same
      BY <1>1, <1>2, <2>3
    <3>2. (- m) * k = - (m * k)
      BY <1>1, <1>2
    <3>3. QED
      BY <2>1, <2>3, <3>1, <3>2
  <2>4. CASE v = m /\ u = - k
    <3>1. ~same
      BY <1>1, <1>2, <2>4
    <3>2. m * (- k) = - (m * k)
      BY <1>1, <1>2
    <3>3. QED
      BY <2>1, <2>4, <3>1, <3>2
  <2>5. CASE v = - m /\ u = - k
    <3>1. same
      BY <1>1, <1>2, <2>5
    <3>2. (- m) * (- k) = m * k
      BY <1>1, <1>2
    <3>3. QED
      BY <2>1, <2>5, <3>1, <3>2
  <2>6. QED
    BY <1>1, <1>2, <2>2, <2>3, <2>4, <2>5
<1> DEFINE n == m * k
<1> HIDE DEF n, r
<1>5. same \in BOOLEAN
  OBVIOUS
<1>6. Makes(r, n) /\ n # 0
  BY <1>3, <1>4 DEF Makes, n
<1> HIDE DEF same
<1>7. Represents(FlagsFor(same), r, IF same THEN n ELSE - n) /\ FlagsFor(same) \in Sign
  BY <1>5, <1>6, RepresentsSigned
<1>8. v * u = IF same THEN n ELSE - n
  BY <1>4 DEF n
<1>9. QED
  BY <1>1, <1>2, <1>7, <1>8 DEF same, r

(* The product is moved out of its local.                                  *)
LEMMA MoveSliceWrites ==
  ASSUME NEW s, Proper(s), NEW x \in Name, NEW y \in Alive(s), x # y
  PROVE  LET t == MoveSlice(s, x, y)
         IN  /\ Preserves(s, t, {x} \cup {y})
             /\ x \in Alive(t) /\ Words(t, x) = Words(s, y) /\ SignOf(t, x) = SignOf(s, x)
<1> DEFINE t == MoveSlice(s, x, y)
<1>1. Sound(s)
  BY DEF Proper
<1>2. /\ Sound(t) /\ SameRest(s, t) /\ Alive(t) = Alive(s) \cup {x}
      /\ Words(t, x) = Words(s, y)
      /\ \A z \in Alive(s) \ {x, y} : Words(t, z) = Words(s, z)
  BY <1>1, MoveSliceSound
<1> HIDE DEF t
<1>3. t.num = s.num /\ Proper(t)
  BY <1>2 DEF Proper, SameRest
<1>4. \A z : SignOf(t, z) = SignOf(s, z)
  BY <1>3 DEF SignOf
<1>5. QED
  BY <1>2, <1>3, <1>4 DEF Preserves, t

(* The three ways to multiply, of an object that has got its sign.         *)
LEMMA MulMagYields ==
  ASSUME NEW s, Proper(s), NEW x \in Alive(s), NEW y \in Alive(s),
         "product" \notin Alive(s), NEW a \in Seq(Word), NEW b \in Seq(Word),
         a = Words(s, x), b = Words(s, y), a # << >>, b # << >>
  PROVE  LET p == GradeSchoolMul(a, b)
             np == NewSlice(s, "product")
             pr == Overwrite(SubSlice(np, "product", 0, Len(p)), "product", p)
         IN  Writes(s, IF Len(b) = 1 THEN MulMagBy(CloneData(s, x), x, b[1])
                       ELSE IF Len(a) = 1
                            THEN MulMagBy(CloneData(CopySlice(s, x, y), x), x, a[1])
                       ELSE EraseZeros(MoveSlice(pr, x, "product"), x),
                    x, SignOf(s, x), SchoolProduct(a, b))
<1> DEFINE p == GradeSchoolMul(a, b)
           loc == "product"
           np == NewSlice(s, loc)
           wide == SubSlice(np, loc, 0, Len(p))
           pr == Overwrite(wide, loc, p)
           mv == MoveSlice(pr, x, loc)
           result == EraseZeros(mv, x)
           mine == CloneData(s, x)
           short == MulMagBy(mine, x, b[1])
           shared == CopySlice(s, x, y)
           own == CloneData(shared, x)
           swapped == MulMagBy(own, x, a[1])
           sx == SignOf(s, x)
           prod == SchoolProduct(a, b)
<1>1. Sound(s) /\ x \in Name
  BY DEF Proper, Alive
<1>2. Len(a) \in Nat /\ Len(b) \in Nat /\ Len(a) >= 1 /\ Len(b) >= 1
      /\ a[1] \in Word /\ b[1] \in Word
  <2>1. /\ Len(a) \in Nat /\ Len(b) \in Nat /\ Len(a) # 0 /\ Len(b) # 0
    BY EmptySeq, LenProperties
  <2>2. 1 \in 1 .. Len(a) /\ 1 \in 1 .. Len(b)
    BY <2>1
  <2>3. QED
    BY <2>1, <2>2, ElementOfSeq
<1>3. CASE Len(b) = 1
  <2>1. Differ(s, mine, x, a) /\ Sole(mine, x)
    BY <1>1, CloneDataSound
  <2>2. Sound(mine) /\ x \in Alive(mine) /\ Words(mine, x) = a
    BY <2>1 DEF Differ
  <2> HIDE DEF mine
  <2>3. Differ(mine, short, x, GradSchoolMulInplace(a, b[1]))
    BY <1>2, <2>1, <2>2, MulMagBySound
  <2>4. prod = GradSchoolMulInplace(a, b[1])
    BY <1>3 DEF SchoolProduct
  <2> HIDE DEF short, prod
  <2>5. Differ(s, short, x, prod)
    BY <2>1, <2>3, <2>4, DifferTwice
  <2>6. Writes(s, short, x, sx, prod)
    BY <2>5, DifferWrites
  <2>7. QED
    BY <1>3, <2>6 DEF short, mine, prod
<1>4. CASE Len(b) # 1 /\ Len(a) = 1
  <2>1. Differ(s, shared, x, b)
    BY <1>1, CopySliceSound
  <2>2. Sound(shared) /\ x \in Alive(shared) /\ Words(shared, x) = b
    BY <2>1 DEF Differ
  <2> HIDE DEF shared
  <2>3. Differ(shared, own, x, b) /\ Sole(own, x)
    BY <2>2, CloneDataSound
  <2>4. Sound(own) /\ x \in Alive(own) /\ Words(own, x) = b
    BY <2>3 DEF Differ
  <2> HIDE DEF own
  <2>5. Differ(own, swapped, x, GradSchoolMulInplace(b, a[1]))
    BY <1>2, <2>3, <2>4, MulMagBySound
  <2>6. prod = GradSchoolMulInplace(b, a[1])
    BY <1>4 DEF SchoolProduct
  <2> HIDE DEF swapped, prod
  <2>7. Differ(s, swapped, x, prod)
    BY <2>1, <2>3, <2>5, <2>6, DifferTwice
  <2>8. Writes(s, swapped, x, sx, prod)
    BY <2>7, DifferWrites
  <2>9. QED
    BY <1>4, <2>8 DEF swapped, own, shared, prod
<1>5. CASE Len(b) # 1 /\ Len(a) # 1
  <2>1. "product" \in Name
    BY NameAssumption DEF Local
  <2>2. loc \in Name /\ loc \notin Alive(s) /\ x # loc
    BY <2>1
  <2>3. p \in Seq(Word) /\ p \in Seq(Data) /\ Len(p) \in Nat
    BY GradeSchoolMulExact, LenProperties, WordsAssumption
  <2>4. prod = EraseZerosSuffix(p)
    BY <1>5 DEF SchoolProduct
  <2>5. Differ(s, np, loc, << >>) /\ Sole(np, loc)
    <3> HIDE DEF loc
    <3>1. QED
      BY <1>1, <2>2, NewSliceSound
  <2>6. Sound(np) /\ loc \in Alive(np)
    BY <2>5 DEF Differ
  <2> HIDE DEF p, np, loc
  <2>7. Differ(np, wide, loc, Words(wide, loc)) /\ Sole(wide, loc) /\ Count(wide, loc) = Len(p)
    BY <2>3, <2>5, <2>6, WindowSound
  <2>8. Sound(wide) /\ loc \in Alive(wide)
    BY <2>7 DEF Differ
  <2> HIDE DEF wide
  <2>9. Differ(wide, pr, loc, p)
    BY <2>3, <2>7, <2>8, OverwriteSound
  <2> HIDE DEF pr
  <2>10. Differ(np, pr, loc, p)
    BY <2>7, <2>9, DifferTwice
  <2>11. Differ(s, pr, loc, p)
    BY <2>5, <2>10, DifferTwice
  <2>12. Writes(s, pr, loc, SignOf(s, loc), p)
    BY <2>11, DifferWrites
  <2>13. /\ Proper(pr) /\ loc \in Alive(pr) /\ Words(pr, loc) = p
         /\ Preserves(s, pr, {loc}) /\ SignOf(pr, x) = sx
    BY <2>2, <2>12, WritesOf DEF Writes, Preserves
  <2>14. /\ Preserves(pr, mv, {x} \cup {loc})
         /\ x \in Alive(mv) /\ Words(mv, x) = p /\ SignOf(mv, x) = sx
    BY <1>1, <2>2, <2>13, MoveSliceWrites
  <2> HIDE DEF mv
  <2>15. Preserves(s, mv, {x} \cup {loc})
    BY <2>13, <2>14, PreservesMore, PreservesTwice
  <2>16. Writes(s, mv, x, sx, p)
    BY <2>2, <2>14, <2>15, PreservesDead DEF Writes
  <2>17. Sound(mv)
    BY <2>16, WritesOf
  <2>18. Differ(mv, result, x, EraseZerosSuffix(p))
    BY <2>14, <2>17, EraseZerosSound
  <2> HIDE DEF result
  <2>19. Writes(s, result, x, sx, prod)
    BY <2>4, <2>16, <2>18, ThenDiffer
  <2> HIDE DEF prod
  <2>20. QED
    BY <1>5, <2>19 DEF result, mv, pr, wide, np, loc, p, prod
<1>6. QED
  BY <1>3, <1>4, <1>5

(* mulAssign() below the threshold of Karatsuba's multiplication.          *)
LEMMA MulAssignYields ==
  ASSUME NEW s, Proper(s), NEW x, NEW y, NEW v, NEW u, Holds(s, x, v), Holds(s, y, u),
         "product" \notin Alive(s)
  PROVE  Yields(s, MulAssign(s, x, y), x, v * u)
<1> DEFINE begun == BeginWrite(s, x)
           a == Words(s, x)
           b == Words(s, y)
           sx == SignOf(s, x)
           sy == SignOf(s, y)
           sign == FlagsFor(sx = sy)
           t == SetFlags(begun, x, sign)
           np == NewSlice(t, "product")
           pr == Overwrite(SubSlice(np, "product", 0, Len(GradeSchoolMul(a, b))), "product",
                           GradeSchoolMul(a, b))
           result == IF Len(b) = 1 THEN MulMagBy(CloneData(t, x), x, b[1])
                     ELSE IF Len(a) = 1 THEN MulMagBy(CloneData(CopySlice(t, x, y), x), x, a[1])
                     ELSE EraseZeros(MoveSlice(pr, x, "product"), x)
           asg == Assign(s, x, y)
<1>1. /\ x \in Name /\ x \in Alive(s) /\ v \in Int /\ a \in Seq(Word)
      /\ Count(s, x) = Len(a) /\ (sx = "ZERO" <=> v = 0)
      /\ Represents(sx, a, v)
  BY HoldsCases DEF Holds
<1>2. /\ y \in Alive(s) /\ u \in Int /\ b \in Seq(Word)
      /\ Count(s, y) = Len(b) /\ (sy = "ZERO" <=> u = 0)
      /\ Represents(sy, b, u)
  BY HoldsCases DEF Holds
<1>3. MulAssign(s, x, y) =
        IF sx = "ZERO" \/ sy = "ZERO" THEN BeZero(s, x)
        ELSE IF sy = "POSITIVE" /\ b = << 1 >> THEN s
        ELSE IF sy = "NEGATIVE" /\ b = << 1 >> THEN Negate(s, x)
        ELSE IF sx = "POSITIVE" /\ a = << 1 >> THEN asg
        ELSE IF sx = "NEGATIVE" /\ a = << 1 >> THEN Negate(asg, x)
        ELSE result
  <2> DEFINE zero == BeZero(s, x)
             neg == Negate(s, x)
             other == Negate(asg, x)
             none == sx = "ZERO" \/ sy = "ZERO"
             yOne == sy = "POSITIVE" /\ b = << 1 >>
             yNeg == sy = "NEGATIVE" /\ b = << 1 >>
             xOne == sx = "POSITIVE" /\ a = << 1 >>
             xNeg == sx = "NEGATIVE" /\ a = << 1 >>
  <2>1. MulAssign(s, x, y) =
          IF none THEN zero
          ELSE CASE yOne -> s [] yNeg -> neg
                 [] OTHER -> CASE xOne -> asg [] xNeg -> other [] OTHER -> result
    BY <1>1, <1>2 DEF MulAssign, IsUnit
  <2>2. ~(yOne /\ yNeg) /\ ~(xOne /\ xNeg)
    OBVIOUS
  <2> HIDE DEF zero, neg, other, none, yOne, yNeg, xOne, xNeg, asg, result
  <2>3. MulAssign(s, x, y) =
          IF none THEN zero ELSE IF yOne THEN s ELSE IF yNeg THEN neg
          ELSE IF xOne THEN asg ELSE IF xNeg THEN other ELSE result
    BY <2>1, <2>2
  <2>4. QED
    BY <2>3 DEF zero, neg, other, none, yOne, yNeg, xOne, xNeg
<1>4. \A sg, w, z : Represents(sg, w, z) /\ w = << 1 >> =>
        /\ sg = "POSITIVE" => z = 1
        /\ sg = "NEGATIVE" => z = -1
  <2>1. ASSUME NEW sg, NEW w, NEW z, Represents(sg, w, z), w = << 1 >>
        PROVE  (sg = "POSITIVE" => z = 1) /\ (sg = "NEGATIVE" => z = -1)
    <3>1. ToNat(w) = 1
      BY <2>1, OneMakes DEF Makes
    <3>2. QED
      BY <2>1, <3>1, RepresentsCases
  <2>2. QED
    BY <2>1
<1>5. CASE sx = "ZERO" \/ sy = "ZERO"
  <2>1. v * u = 0
    BY <1>1, <1>2, <1>5
  <2>2. Yields(s, BeZero(s, x), x, 0)
    BY <1>1, ZeroYields
  <2>3. QED
    BY <1>3, <1>5, <2>1, <2>2
<1>6. Yields(s, asg, x, u)
  BY <1>1, AssignYields
<1>7. Yields(s, result, x, v * u) \/ v = 0 \/ u = 0
  <2>1. CASE v # 0 /\ u # 0
    <3>1. a # << >> /\ b # << >> /\ sign \in Sign /\ Represents(sign, SchoolProduct(a, b), v * u)
      BY <1>1, <1>2, <2>1, ProductRepresents
    <3>2. Writes(s, begun, x, sx, a) /\ SameSlices(s, begun)
      BY <1>1, BeginWriteSound
    <3> HIDE DEF begun, sign
    <3>3. Writes(s, t, x, sign, a)
      BY <3>1, <3>2, ThenFlags
    <3>4. /\ Proper(begun) /\ Sound(s) /\ x \in Alive(begun)
          /\ Alive(begun) = Alive(s) /\ Words(begun, y) = b
      BY <3>2, WritesOf, SameSlicesSound DEF Proper
    <3>5. SameSlices(begun, t) /\ Sound(begun)
      BY <3>1, <3>4, SetFlagsSound DEF Proper
    <3>6. Alive(t) = Alive(s) /\ Words(t, y) = b
      BY <3>4, <3>5, SameSlicesSound
    <3>7. /\ Proper(t) /\ x \in Alive(t) /\ y \in Alive(t) /\ "product" \notin Alive(t)
          /\ Words(t, x) = a /\ SignOf(t, x) = sign
      BY <1>2, <3>3, <3>6, WritesOf DEF Writes
    <3> HIDE DEF t, a, b
    <3>8. Writes(t, result, x, sign, SchoolProduct(a, b))
      BY <1>1, <1>2, <3>1, <3>6, <3>7, MulMagYields
    <3> HIDE DEF result
    <3>9. Writes(s, result, x, sign, SchoolProduct(a, b))
      BY <3>3, <3>8, WritesTwice
    <3>10. QED
      BY <3>1, <3>9, WritesYields
  <2>2. QED
    BY <2>1
<1> HIDE DEF asg, result, sx, sy, a, b
<1>8. CASE sx # "ZERO" /\ sy = "POSITIVE" /\ b = << 1 >>
  <2>1. MulAssign(s, x, y) = s /\ u = 1
    BY <1>2, <1>3, <1>4, <1>8
  <2>2. v * u = v
    BY <1>1, <2>1
  <2>3. QED
    BY <2>1, <2>2, YieldsSame
<1>9. CASE sx # "ZERO" /\ sy = "NEGATIVE" /\ b = << 1 >>
  <2>1. MulAssign(s, x, y) = Negate(s, x) /\ u = -1
    BY <1>2, <1>3, <1>4, <1>9
  <2>2. v * u = - v
    BY <1>1, <2>1
  <2>3. QED
    BY <2>1, <2>2, NegateYields
<1>10. CASE sx = "POSITIVE" /\ a = << 1 >> /\ sy # "ZERO" /\ b # << 1 >>
  <2>1. MulAssign(s, x, y) = asg /\ v = 1
    BY <1>1, <1>3, <1>4, <1>10
  <2>2. v * u = u
    BY <1>2, <2>1
  <2>3. QED
    BY <1>6, <2>1, <2>2
<1>11. CASE sx = "NEGATIVE" /\ a = << 1 >> /\ sy # "ZERO" /\ b # << 1 >>
  <2>1. MulAssign(s, x, y) = Negate(asg, x) /\ v = -1
    BY <1>1, <1>3, <1>4, <1>11
  <2>2. v * u = - u
    BY <1>2, <2>1
  <2>3. Proper(asg) /\ Holds(asg, x, u)
    BY <1>6 DEF Yields, Preserves
  <2>4. Yields(asg, Negate(asg, x), x, - u)
    BY <2>3, NegateYields
  <2>5. QED
    BY <1>6, <2>1, <2>2, <2>4, YieldsTwice
<1>12. CASE sx # "ZERO" /\ sy # "ZERO" /\ a # << 1 >> /\ b # << 1 >>
  <2>1. MulAssign(s, x, y) = result /\ v # 0 /\ u # 0
    BY <1>1, <1>2, <1>3, <1>12
  <2>2. QED
    BY <1>7, <2>1
<1>13. QED
  <2>1. sx \in Sign /\ sy \in Sign
    BY <1>1, <1>2 DEF Represents
  <2>2. QED
    BY <2>1, <1>5, <1>8, <1>9, <1>10, <1>11, <1>12 DEF Sign

(* The power a shift multiplies by.                                        *)
LEMMA ShiftPower ==
  ASSUME NEW n \in Nat, PowersUpTo(n)
  PROVE  2 ^ n \in Nat /\ 2 ^ n >= 1 /\ (n = 0 => 2 ^ n = 1)
<1>1. n \in 0 .. n
  OBVIOUS
<1>2. 2 ^ n \in Nat /\ 2 ^ n >= 1
  BY <1>1, PowerProperties
<1>3. n = 0 => 2 ^ n = 1
  BY DEF PowersUpTo
<1>4. QED
  BY <1>2, <1>3

(* shiftLeftAssign().                                                      *)
LEMMA ShiftLeftYields ==
  ASSUME NEW s, Proper(s), NEW x, NEW v, Holds(s, x, v), NEW n \in Nat, PowersUpTo(n)
  PROVE  Yields(s, ShiftLeftAssign(s, x, n), x, v * 2 ^ n)
<1> DEFINE t == CloneData(BeginWrite(s, x), x)
           r == ShlMagOf(t, x, n)
           w == Words(s, x)
           m == ToNat(w)
           sg == SignOf(s, x)
           P == 2 ^ n
           new == IF n % WordBits = 0 THEN Zeros(n \div WordBits) \o w ELSE ShlMag(w, n)
<1>1. /\ x \in Alive(s) /\ w \in Seq(Word) /\ Trimmed(w) /\ m \in Nat /\ v \in Int
      /\ \/ sg = "ZERO" /\ v = 0
         \/ sg = "POSITIVE" /\ w # << >> /\ v = m /\ m > 0
         \/ sg = "NEGATIVE" /\ w # << >> /\ v = - m /\ m > 0
  BY HoldsCases
<1>2. P \in Nat /\ P >= 1 /\ (n = 0 => P = 1)
  BY ShiftPower
<1>3. ShiftLeftAssign(s, x, n) = IF sg = "ZERO" \/ n = 0 THEN s ELSE r
  BY DEF ShiftLeftAssign
<1>4. CASE sg = "ZERO" \/ n = 0
  <2>1. v * P = v
    <3> HIDE DEF P, m
    <3>1. v = 0 \/ P = 1
      BY <1>1, <1>2, <1>4
    <3>2. QED
      BY <1>1, <1>2, <3>1
  <2>2. ShiftLeftAssign(s, x, n) = s
    BY <1>3, <1>4
  <2> HIDE DEF P
  <2>3. QED
    BY <2>1, <2>2, YieldsSame DEF P
<1>5. CASE ~(sg = "ZERO" \/ n = 0)
  <2>1. Writes(s, t, x, sg, w) /\ Sole(t, x)
    BY <1>1, OwnedSound
  <2>2. Sound(t) /\ x \in Alive(t) /\ Words(t, x) = w
    BY <2>1, WritesOf DEF Writes
  <2> HIDE DEF t
  <2>3. Differ(t, r, x, new)
    BY <2>1, <2>2, ShlMagOfSound
  <2> HIDE DEF r
  <2>4. Writes(s, r, x, sg, new)
    BY <2>1, <2>3, ThenDiffer
  <2>5. Makes(new, m * P)
    <3>1. w # << >>
      BY <1>1, <1>5
    <3>2. CASE n % WordBits = 0
      BY <1>1, <3>1, <3>2, ZerosBelow
    <3>3. CASE n % WordBits # 0
      BY <1>1, <3>1, <3>3, ShlMagExact DEF Makes
    <3>4. QED
      BY <3>2, <3>3
  <2> HIDE DEF new, m, P, sg
  <2>6. sg \in {"POSITIVE", "NEGATIVE"} /\ m > 0
    BY <1>1, <1>5
  <2>7. m * P # 0 /\ m * P \in Nat
    BY <1>1, <1>2, <2>6
  <2>8. v * P = IF sg = "POSITIVE" THEN m * P ELSE - (m * P)
    <3>1. CASE v = m /\ sg = "POSITIVE"
      BY <3>1
    <3>2. CASE v = - m /\ sg = "NEGATIVE"
      <4>1. (- m) * P = - (m * P)
        BY <1>1, <1>2
      <4>2. QED
        BY <3>2, <4>1
    <3>3. QED
      BY <1>1, <2>6, <3>1, <3>2
  <2> DEFINE k == m * P
  <2> HIDE DEF k
  <2>9. Represents(sg, new, IF sg = "POSITIVE" THEN k ELSE - k)
    BY <2>5, <2>6, <2>7, RepresentsLike DEF k
  <2>10. v * P = IF sg = "POSITIVE" THEN k ELSE - k
    BY <2>8 DEF k
  <2>11. Yields(s, r, x, v * P)
    BY <2>4, <2>9, <2>10, WritesYields
  <2>12. QED
    BY <1>3, <1>5, <2>11 DEF P
<1>6. QED
  BY <1>4, <1>5

(* Division that rounds down, of what is below zero.                       *)
LEMMA FloorNegative ==
  ASSUME NEW m \in Nat, NEW P \in Nat, P >= 1
  PROVE  (- m) \div P = IF m % P = 0 THEN - (m \div P) ELSE - (m \div P) - 1
<1> DEFINE q == m \div P
           r == m % P
<1>1. q \in Int /\ r \in Int /\ 0 <= r /\ r < P /\ m = q * P + r
  OBVIOUS
<1> HIDE DEF q, r
<1>2. CASE r = 0
  <2>1. - q \in Int /\ 0 \in Int /\ 0 <= 0 /\ 0 < P
    BY <1>1
  <2>2. ((- q) * P + 0) \div P = - q
    BY <2>1, DivisionUnique
  <2>3. (- q) * P = - (q * P) /\ q * P \in Int
    BY <1>1
  <2>4. (- q) * P + 0 = - m
    BY <1>1, <1>2, <2>3
  <2>5. QED
    BY <1>2, <2>2, <2>4 DEF q, r
<1>3. CASE r # 0
  <2> DEFINE d == - q - 1
             e == P - r
  <2>1. d \in Int /\ e \in Int /\ 0 <= e /\ e < P
    BY <1>1, <1>3
  <2>2. d * P = - (q * P) - P /\ q * P \in Int
    BY <1>1
  <2>3. d * P + e = - m
    BY <1>1, <2>2
  <2> HIDE DEF d, e
  <2>4. (d * P + e) \div P = d
    BY <2>1, DivisionUnique
  <2>5. QED
    BY <1>3, <2>3, <2>4 DEF d, q, r
<1>4. QED
  BY <1>2, <1>3

(* A magnitude of no more words than a shift drops is below its power.     *)
LEMMA ShiftedOut ==
  ASSUME NEW w \in Seq(Word), NEW n \in Nat, PowersUpTo(n), n \div WordBits >= Len(w)
  PROVE  ToNat(w) < 2 ^ n
<1> DEFINE k == n \div WordBits
           P == 2 ^ (n % WordBits)
<1>1. k \in Nat /\ k <= k
  BY WordBitsAssumption
<1>2. PICK q : Weights(q, k)
  BY <1>1, WeightsExist
<1>3. 2 ^ n = q[k] * P /\ q[k] \in Nat /\ P \in Nat /\ P >= 1
  BY <1>2, PowerSplit
<1> HIDE DEF k, P
<1>4. k \in 0 .. k /\ Len(w) <= k
  BY <1>1 DEF k
<1>5. ToNat(w) < q[k]
  BY <1>1, <1>2, <1>4, ToNatBound
<1>6. q[k] <= q[k] * P
  <2> DEFINE g == q[k]
  <2>1. g \in Nat
    BY <1>3
  <2> HIDE DEF g
  <2>2. g <= g * P
    BY <1>3, <2>1
  <2>3. QED
    BY <2>2 DEF g
<1>7. ToNat(w) \in Int
  <2>1. w \in Seq(Int)
    BY WordsProperties
  <2>2. QED
    BY <2>1, ToNatType
<1> DEFINE g == q[k]
           h == q[k] * P
           m == ToNat(w)
<1>8. g \in Int /\ h \in Int /\ m \in Int /\ m < g /\ g <= h
  BY <1>3, <1>5, <1>6, <1>7
<1> HIDE DEF g, h, m
<1>9. m < h
  BY <1>8
<1>10. QED
  BY <1>3, <1>9 DEF h, m

(* shiftRightAssign(), which rounds down: with a one lost, a negative      *)
(* object ends one further from zero.                                      *)
LEMMA ShiftRightYields ==
  ASSUME NEW s, Proper(s), NEW x, NEW v, Holds(s, x, v), NEW n \in Nat, PowersUpTo(n)
  PROVE  Yields(s, ShiftRightAssign(s, x, n), x, v \div 2 ^ n)
<1> DEFINE own == CloneData(BeginWrite(s, x), x)
           t == ShrMagOf(own, x, n)
           w == Words(s, x)
           m == ToNat(w)
           sg == SignOf(s, x)
           P == 2 ^ n
           q == m \div P
           r == ShrMag(w, n)
           lost == LostOne(s, x, n)
           z == v \div P
<1>1. /\ x \in Alive(s) /\ x \in Name /\ w \in Seq(Word) /\ Trimmed(w) /\ m \in Nat /\ v \in Int
      /\ Count(s, x) = Len(w)
      /\ \/ sg = "ZERO" /\ v = 0
         \/ sg = "POSITIVE" /\ w # << >> /\ v = m /\ m > 0
         \/ sg = "NEGATIVE" /\ w # << >> /\ v = - m /\ m > 0
  BY HoldsCases
<1>2. P \in Nat /\ P >= 1 /\ (n = 0 => P = 1)
  BY ShiftPower
<1>3. lost <=> sg = "NEGATIVE" /\ m % P # 0
  BY DEF LostOne
<1>4. ShiftRightAssign(s, x, n) =
        IF sg = "ZERO" \/ n = 0 THEN s
        ELSE IF n \div WordBits >= Count(s, x)
             THEN (IF sg = "NEGATIVE" THEN BeUnit(s, x, "NEGATIVE") ELSE BeZero(s, x))
        ELSE IF Count(t, x) = 0
             THEN (IF lost THEN BeUnit(t, x, "NEGATIVE") ELSE BeZero(t, x))
        ELSE IF lost THEN IncMagOf(t, x) ELSE t
  BY DEF ShiftRightAssign
<1>5. /\ q \in Nat /\ m % P \in Nat
      /\ v >= 0 => (z = IF v = 0 THEN 0 ELSE q)
      /\ v < 0 => z = IF m % P = 0 THEN - q ELSE - q - 1
      /\ m = q * P + (m % P) /\ m % P < P
  <2> HIDE DEF w, m, sg, P
  <2>1. q \in Nat /\ m % P \in Nat /\ m = q * P + (m % P) /\ m % P < P
    BY <1>1, <1>2
  <2>2. ASSUME v >= 0 PROVE z = IF v = 0 THEN 0 ELSE q
    <3>1. CASE v = 0
      <4>1. (0 * P + 0) \div P = 0
        BY <1>2, DivisionUnique
      <4>2. 0 * P + 0 = 0
        BY <1>2
      <4>3. QED
        BY <3>1, <4>1, <4>2
    <3>2. CASE v # 0
      BY <1>1, <2>2, <3>2
    <3>3. QED
      BY <3>1, <3>2
  <2>3. ASSUME v < 0 PROVE z = IF m % P = 0 THEN - q ELSE - q - 1
    <3>1. v = - m
      BY <1>1, <2>3
    <3>2. QED
      BY <1>1, <1>2, <3>1, FloorNegative
  <2>4. QED
    BY <2>1, <2>2, <2>3
<1> HIDE DEF q, lost
<1>6. \A a : Proper(a) => /\ Yields(a, BeUnit(a, x, "NEGATIVE"), x, -1)
                          /\ Yields(a, BeZero(a, x), x, 0)
  <2>1. ASSUME NEW a, Proper(a)
        PROVE  Yields(a, BeUnit(a, x, "NEGATIVE"), x, -1) /\ Yields(a, BeZero(a, x), x, 0)
    <3>1. FALSE \in BOOLEAN /\ FlagsFor(FALSE) = "NEGATIVE"
      BY DEF FlagsFor
    <3>2. Yields(a, BeUnit(a, x, FlagsFor(FALSE)), x, IF FALSE THEN 1 ELSE -1)
      BY <1>1, <2>1, <3>1, UnitYields
    <3>3. Yields(a, BeUnit(a, x, "NEGATIVE"), x, -1)
      BY <3>1, <3>2
    <3>4. QED
      BY <1>1, <2>1, <3>3, ZeroYields
  <2>2. QED
    BY <2>1
<1>7. CASE sg = "ZERO" \/ n = 0
  <2>1. z = v
    <3>1. CASE v = 0
      BY <1>5, <3>1
    <3>2. CASE P = 1 /\ v # 0
      <4> HIDE DEF P, m, w, sg
      <4>1. v = v * 1 + 0
        BY <1>1
      <4>2. (v * 1 + 0) \div 1 = v
        BY <1>1, DivisionUnique
      <4>3. QED
        BY <3>2, <4>1, <4>2
    <3>3. QED
      BY <1>1, <1>2, <1>7, <3>1, <3>2
  <2>2. ShiftRightAssign(s, x, n) = s
    BY <1>4, <1>7
  <2> HIDE DEF z
  <2>3. QED
    BY <2>1, <2>2, YieldsSame DEF z
<1>8. CASE ~(sg = "ZERO" \/ n = 0) /\ n \div WordBits >= Count(s, x)
  <2>1. m < P
    BY <1>1, <1>8, ShiftedOut
  <2> HIDE DEF w, P, m
  <2>2. q = 0 /\ m % P = m
    <3> DEFINE o == 0
    <3>3. P \in Nat /\ P >= 1 /\ m \in Int /\ 0 <= m /\ m < P /\ o \in Int
      BY <1>1, <1>2, <2>1
    <3> HIDE DEF o
    <3>4. (o * P + m) \div P = o /\ (o * P + m) % P = m
      BY ONLY <3>3, DivisionUnique
    <3>1. (0 * P + m) \div P = 0 /\ (0 * P + m) % P = m
      BY <3>4 DEF o
    <3>2. 0 * P + m = m
      BY <1>1, <1>2
    <3>5. QED
      BY <3>1, <3>2 DEF q
  <2> HIDE DEF sg, z
  <2>3. IF sg = "NEGATIVE" THEN z = -1 ELSE z = 0
    BY <1>1, <1>5, <1>8, <2>2
  <2>4. ShiftRightAssign(s, x, n) = IF sg = "NEGATIVE" THEN BeUnit(s, x, "NEGATIVE") ELSE BeZero(s, x)
    BY <1>4, <1>8
  <2>5. QED
    BY <1>6, <2>3, <2>4 DEF z, P
<1>9. CASE ~(sg = "ZERO" \/ n = 0) /\ ~(n \div WordBits >= Count(s, x))
  <2>1. Writes(s, own, x, sg, w) /\ Sole(own, x)
    BY <1>1, OwnedSound
  <2>2. Sound(own) /\ x \in Alive(own) /\ Words(own, x) = w
    BY <2>1, WritesOf DEF Writes
  <2>3. n \div WordBits < Count(own, x)
    <3>1. n \div WordBits \in Nat /\ Len(w) \in Nat
      BY <1>1, WordBitsAssumption, LenProperties
    <3>2. Count(own, x) = Len(w)
      BY <2>2, WordsAre
    <3>3. QED
      BY <1>1, <1>9, <3>1, <3>2
  <2> HIDE DEF own
  <2>4. Differ(own, t, x, r) /\ Sole(t, x)
    BY <2>1, <2>2, <2>3, ShrMagOfSound
  <2>5. Makes(r, q)
    BY <1>1, ShrMagExact DEF Makes, q
  <2> HIDE DEF t, r
  <2>6. Writes(s, t, x, sg, r)
    BY <2>1, <2>4, ThenDiffer
  <2>7. Proper(t) /\ Sound(t) /\ x \in Alive(t) /\ Words(t, x) = r /\ Len(r) = Count(t, x)
        /\ r \in Seq(Word)
    BY <2>6, WritesOf, WordsAre DEF Writes
  <2>8. r \in Seq(Word) /\ (Count(t, x) = 0 <=> r = << >>) /\ (r = << >> <=> q = 0)
    <3>1. r = << >> <=> q = 0
      BY <2>5, <2>7, EmptyIsZero DEF Makes
    <3>2. QED
      BY <2>7, <3>1, EmptySeq
  <2> HIDE DEF w, m, P, sg, z
  <2>9. sg \in {"POSITIVE", "NEGATIVE"} /\ m > 0
    BY <1>1, <1>9
  <2>10. CASE q = 0
    <3>1. IF lost THEN z = -1 ELSE z = 0
      <4>1. m % P = m
        BY <1>2, <1>5, <2>10
      <4>2. QED
        BY <1>1, <1>3, <1>5, <2>9, <2>10, <4>1
    <3>2. ShiftRightAssign(s, x, n) = IF lost THEN BeUnit(t, x, "NEGATIVE") ELSE BeZero(t, x)
      BY <1>4, <1>9, <2>8, <2>10
    <3>3. Yields(t, ShiftRightAssign(s, x, n), x, z)
      BY <1>6, <2>7, <3>1, <3>2
    <3>4. QED
      BY <2>6, <3>3, WritesThenYields DEF z, P
  <2>11. CASE q # 0 /\ lost
    <3>1. ShiftRightAssign(s, x, n) = IncMagOf(t, x)
      BY <1>4, <1>9, <2>8, <2>11
    <3>2. Differ(t, IncMagOf(t, x), x, IncMag(r))
      BY <2>4, <2>7, IncMagOfSound
    <3>3. Writes(s, IncMagOf(t, x), x, sg, IncMag(r))
      BY <2>6, <3>2, ThenDiffer
    <3>4. Makes(IncMag(r), q + 1) /\ IncMag(r) # << >>
      BY <2>5, <2>8, IncMakes DEF Makes
    <3>5. Represents(sg, IncMag(r), IF sg = "POSITIVE" THEN q + 1 ELSE - (q + 1))
      BY <2>9, <3>4, RepresentsLike
    <3>6. z = IF sg = "POSITIVE" THEN q + 1 ELSE - (q + 1)
      BY <1>1, <1>3, <1>5, <2>9, <2>11
    <3>7. Yields(s, IncMagOf(t, x), x, z)
      BY <3>3, <3>5, <3>6, WritesYields
    <3>8. QED
      BY <3>1, <3>7 DEF z, P
  <2>12. CASE q # 0 /\ ~lost
    <3>1. ShiftRightAssign(s, x, n) = t
      BY <1>4, <1>9, <2>8, <2>12
    <3>2. Represents(sg, r, IF sg = "POSITIVE" THEN q ELSE - q)
      BY <2>5, <2>9, <2>12, RepresentsLike
    <3>3. z = IF sg = "POSITIVE" THEN q ELSE - q
      BY <1>1, <1>3, <1>5, <2>9, <2>12
    <3>4. Yields(s, t, x, z)
      BY <2>6, <3>2, <3>3, WritesYields
    <3>5. QED
      BY <3>1, <3>4 DEF z, P
  <2>13. QED
    BY <2>10, <2>11, <2>12
<1>10. QED
  BY <1>7, <1>8, <1>9

-----------------------------------------------------------------------------
(* Division.  The copies of the operands move by the divisor's shift: they *)
(* are cloned, or, if it does not move, go on sharing.                     *)
LEMMA StoreStaysPut ==
  ASSUME NEW s, Sound(s), NEW x \in Alive(s), Sole(s, x), NEW len \in Nat,
         NEW r \in Seq(Word), Len(r) \in {len, len + 1}
  PROVE  Placed(s, Store(s, x, len, r))
<1> DEFINE a == SubSlice(s, x, 0, len)
           u == SubSeq(r, 1, len)
           t == Overwrite(a, x, u)
<1>1. Differ(s, a, x, Words(a, x)) /\ Sole(a, x) /\ Count(a, x) = len
  BY WindowSound
<1>2. Sound(a) /\ x \in Alive(a) /\ Placed(s, a)
  BY <1>1, SlicesStayPut DEF Differ
<1>3. u \in Seq(Data) /\ Len(u) = len
  <2>1. r \in Seq(Data) /\ len <= Len(r)
    BY WordsAssumption
  <2>2. QED
    BY <2>1, PrefixProperties
<1> HIDE DEF a, u
<1>4. Differ(a, t, x, u) /\ Placed(a, t)
  BY <1>1, <1>2, <1>3, OverwriteSound, SlicesStayPut
<1> HIDE DEF t
<1>5. Placed(t, Append_(t, x, r[len + 1]))
  BY <1>4, SlicesStayPut DEF Differ
<1>6. Store(s, x, len, r) = IF Len(r) > len THEN Append_(t, x, r[len + 1]) ELSE t
  BY DEF Store, t, u, a
<1>7. QED
  BY <1>2, <1>4, <1>5, <1>6 DEF Placed

(* A shift by less than a word: of a positive object, trimmed or not.      *)
Shifted(w, n) == IF n = 0 THEN w ELSE ShlMag(w, n)

(* It writes to a vector of its own, and takes nobody's away.              *)
LEMMA ShiftInWord ==
  ASSUME NEW s, Proper(s), NEW x \in Alive(s), SignOf(s, x) = "POSITIVE",
         NEW n \in 0 .. WordBits - 1
  PROVE  LET t == ShiftLeftAssign(s, x, n)
         IN  /\ Writes(s, t, x, "POSITIVE", Shifted(Words(s, x), n))
             /\ Alive(t) = Alive(s) /\ (n # 0 => Sole(t, x))
             /\ \A y \in Alive(s) \ {x} : Sole(s, y) => Sole(t, y)
<1> DEFINE b == BeginWrite(s, x)
           c == CloneData(b, x)
           w == Words(s, x)
           r == ShlMag(w, n)
           t == ShiftLeftAssign(s, x, n)
<1>1. n \in Nat /\ n % WordBits = n /\ (n = 0 => t = s) /\ (n # 0 => t = ShlMagOf(c, x, n))
  BY WordBitsAssumption DEF ShiftLeftAssign
<1>2. CASE n = 0
  <2>1. Preserves(s, s, {x})
    BY PreservesNothing
  <2>2. Writes(s, s, x, "POSITIVE", Shifted(w, n))
    BY <1>2, <2>1 DEF Writes, Shifted
  <2>3. t = s
    BY <1>1, <1>2
  <2> HIDE DEF t
  <2>4. QED
    BY <1>2, <2>2, <2>3 DEF t
<1>3. CASE n # 0
  <2>1. Writes(s, b, x, "POSITIVE", w) /\ SameSlices(s, b) /\ Sound(s)
    BY BeginWriteSound DEF Proper
  <2>2. /\ Sound(b) /\ Alive(b) = Alive(s) /\ \A y : Sole(b, y) <=> Sole(s, y)
    BY <2>1, SameSlicesSound
  <2>3. Words(b, x) = w
    BY <2>1 DEF Writes
  <2> HIDE DEF b
  <2>4. Differ(b, c, x, w) /\ Sole(c, x)
    BY <2>2, <2>3, CloneDataSound
  <2>5. \A y \in Alive(s) \ {x} : Sole(s, y) => Sole(c, y)
    BY <2>2, CloneSpares
  <2> HIDE DEF c
  <2>6. Writes(s, c, x, "POSITIVE", w) /\ Alive(c) = Alive(s)
    BY <2>1, <2>2, <2>4, ThenDiffer DEF Differ
  <2>7. Sound(c) /\ x \in Alive(c) /\ Words(c, x) = w
    BY <2>4 DEF Differ
  <2>8. t = ShlMagOf(c, x, n) /\ t = Store(c, x, Len(r), r)
    BY <1>1, <1>3, <2>7 DEF ShlMagOf
  <2> HIDE DEF t
  <2>9. Differ(c, t, x, r)
    <3> DEFINE g == IF n % WordBits = 0 THEN Zeros(n \div WordBits) \o w ELSE ShlMag(w, n)
    <3>1. Differ(c, ShlMagOf(c, x, n), x, g)
      BY <1>1, <2>4, <2>7, ShlMagOfSound
    <3>2. g = r
      BY <1>1, <1>3
    <3>3. QED
      BY <2>8, <3>1, <3>2
  <2>10. Placed(c, t)
    <3>1. w \in Seq(Word)
      BY <2>7, WordsAre
    <3>2. r \in Seq(Word)
      BY <1>1, <3>1, ShlMagParts
    <3> HIDE DEF r
    <3>3. Len(r) \in Nat /\ Len(r) \in {Len(r), Len(r) + 1}
      BY <3>2, LenProperties
    <3>4. Placed(c, Store(c, x, Len(r), r))
      BY <2>4, <2>7, <3>2, <3>3, StoreStaysPut
    <3>5. QED
      BY <2>8, <3>4
  <2>11. \A y \in Alive(s) : Sole(c, y) => Sole(t, y)
    BY <2>10, SamePointers DEF Placed, Alive
  <2>12. Writes(s, t, x, "POSITIVE", r) /\ Alive(t) = Alive(s)
    BY <2>6, <2>9, ThenDiffer DEF Differ
  <2>13. Shifted(w, n) = r
    BY <1>3 DEF Shifted
  <2>14. QED
    BY <2>4, <2>5, <2>11, <2>12, <2>13 DEF t
<1>4. QED
  BY <1>2, <1>3

(* Algorithm D on the dividend, long enough, and the divisor, both moved.  *)
LEMMA DigitsExact ==
  ASSUME NEW a \in Seq(Word), NEW b \in Seq(Word),
         Len(b) >= 2, b[Len(b)] # 0, Len(b) <= Len(a)
  PROVE  LET n == NormShift(b)
             u == IF Len(a) = Len(b) THEN Append(a, 0) ELSE a
             x == Append(Shifted(u, n), 0)
             k == KnuthLoop(x, Shifted(b, n))
         IN  /\ n \in 0 .. WordBits - 1 /\ PowersUpTo(n)
             /\ k.q \in Seq(Word) /\ k.u \in Seq(Word) /\ Len(k.u) = Len(x)
             /\ ToNat(k.q) = ToNat(a) \div ToNat(b)
             /\ ToNat(EraseZerosSuffix(k.u)) \div 2 ^ n = ToNat(a) % ToNat(b)
<1> DEFINE n == NormShift(b)
           v == Shifted(b, n)
           u == IF Len(a) = Len(b) THEN Append(a, 0) ELSE a
           x == Append(Shifted(u, n), 0)
           k == KnuthLoop(x, v)
<1>1. /\ ToNat(k.q) = ToNat(a) \div ToNat(b)
      /\ ToNat(EraseZerosSuffix(k.u)) \div 2 ^ n = ToNat(a) % ToNat(b)
  BY AlgorithmDExact DEF Shifted
<1>2. Divisor(v) /\ Len(v) = Len(b)
  BY NormalisedDivisor DEF Shifted
<1>3. n \in 0 .. WordBits - 1 /\ Len(b) \in Nat
  <2>1. Len(b) >= 1 /\ Len(b) \in Nat
    BY WordsProperties
  <2>2. QED
    BY <2>1, NormShiftExact
<1> HIDE DEF n, v
<1>4. PowersUpTo(n)
  BY <1>3, PowerAssumption, WordBitsAssumption DEF PowersUpTo
<1>5. Prepared(x, a, n, Len(b))
  BY <1>3, PreparedDividend DEF Shifted
<1> HIDE DEF x
<1>6. x \in Seq(Word) /\ Len(v) < Len(x) /\ x[Len(x)] = 0
  BY <1>2, <1>5 DEF Prepared
<1>7. k.q \in Seq(Word) /\ k.u \in Seq(Word) /\ Len(k.u) = Len(x)
  BY <1>2, <1>6, KnuthLoopExact
<1>8. QED
  BY <1>1, <1>3, <1>4, <1>7 DEF k, x, v, n

(* The copies, moved: u shares its vector with the dividend, or with none. *)
LEMMA ScaledCopies ==
  ASSUME NEW s, Proper(s), NEW a \in Alive(s), NEW b \in Alive(s), a # b, Sole(s, a),
         SignOf(s, a) = "POSITIVE", SignOf(s, b) = "POSITIVE",
         NEW u \in Name \ {a, b}, NEW v \in Name \ {a, b}, u # v,
         NEW n \in 0 .. WordBits - 1
  PROVE  LET copies == CopyConstruct(CopyConstruct(s, u, a), v, b)
             t == ShiftLeftAssign(ShiftLeftAssign(copies, u, n), v, n)
         IN  /\ Preserves(s, t, {u, v}) /\ u \in Alive(t) /\ v \in Alive(t)
             /\ SignOf(t, u) = "POSITIVE"
             /\ Words(t, u) = Shifted(Words(s, a), n) /\ Words(t, v) = Shifted(Words(s, b), n)
             /\ Only(t, u, a)
<1> DEFINE c == CopyConstruct(s, u, a)
           d == CopyConstruct(c, v, b)
           e == ShiftLeftAssign(d, u, n)
           t == ShiftLeftAssign(e, v, n)
           A == Words(s, a)
           B == Words(s, b)
<1>1. a \in Name /\ b \in Name /\ u # a /\ u # b /\ v # a /\ v # b
  BY DEF Alive
<1>2. Writes(s, c, u, "POSITIVE", A)
  BY CopyConstructSound
<1>3. /\ Proper(c) /\ u \in Alive(c) /\ b \in Alive(c) /\ a \in Alive(c)
      /\ Words(c, u) = A /\ SignOf(c, u) = "POSITIVE"
      /\ Words(c, b) = B /\ SignOf(c, b) = "POSITIVE"
  BY <1>1, <1>2 DEF Writes, Preserves
<1>4. {"mem", "mag"} \subseteq DOMAIN s /\ s.mag \in [Name -> Slices \cup {Dead}]
  BY DEF Proper, Sound, IsStore
<1>5. c.mag = [s.mag EXCEPT ![u] = s.mag[a]] /\ "mag" \in DOMAIN c
  BY <1>4 DEF CopyConstruct, CopySlice
<1>6. d.mag = [c.mag EXCEPT ![v] = c.mag[b]]
  BY <1>5 DEF CopyConstruct, CopySlice
<1>7. d.mag[u] = s.mag[a] /\ d.mag[v] = s.mag[b] /\ \A y \in Name \ {u, v} : d.mag[y] = s.mag[y]
  BY <1>1, <1>4, <1>5, <1>6
<1> HIDE DEF c
<1>8. Writes(c, d, v, "POSITIVE", B)
  BY <1>3, CopyConstructSound
<1>9. /\ Proper(d) /\ u \in Alive(d) /\ v \in Alive(d)
      /\ Words(d, u) = A /\ SignOf(d, u) = "POSITIVE"
      /\ Words(d, v) = B /\ SignOf(d, v) = "POSITIVE"
  BY <1>3, <1>8 DEF Writes, Preserves
<1>10. Only(d, u, a)
  <2>1. \A y \in Name \ {a} : s.mag[y].ptr # s.mag[a].ptr
    BY <1>1, OwnVector
  <2>2. QED
    BY <1>1, <1>7, <2>1 DEF Only
<1> HIDE DEF d
<1>11. Writes(d, e, u, "POSITIVE", Shifted(A, n)) /\ Alive(e) = Alive(d) /\ (n # 0 => Sole(e, u))
  BY <1>9, ShiftInWord
<1>12. n = 0 => e = d
  BY DEF ShiftLeftAssign
<1> HIDE DEF e
<1>13. /\ Proper(e) /\ u \in Alive(e) /\ v \in Alive(e)
       /\ Words(e, u) = Shifted(A, n) /\ SignOf(e, u) = "POSITIVE"
       /\ Words(e, v) = B /\ SignOf(e, v) = "POSITIVE"
  BY <1>9, <1>11 DEF Writes, Preserves
<1>14. Writes(e, t, v, "POSITIVE", Shifted(B, n)) /\ (n # 0 => Sole(t, u))
  <2>1. /\ Writes(e, t, v, "POSITIVE", Shifted(B, n))
        /\ \A y \in Alive(e) \ {v} : Sole(e, y) => Sole(t, y)
    BY <1>13, ShiftInWord
  <2>2. QED
    BY <1>11, <1>13, <2>1
<1>15. n = 0 => t = e
  BY DEF ShiftLeftAssign
<1> HIDE DEF t
<1>16. Only(t, u, a)
  BY <1>10, <1>12, <1>14, <1>15, SoleOnly
<1>17. /\ u \in Alive(t) /\ v \in Alive(t) /\ SignOf(t, u) = "POSITIVE" /\ Words(t, u) = Shifted(A, n)
       /\ Words(t, v) = Shifted(B, n)
  BY <1>13, <1>14 DEF Writes, Preserves
<1>18. Preserves(s, t, {u, v})
  BY <1>2, <1>8, <1>11, <1>14 DEF Writes, Preserves
<1>19. QED
  BY <1>16, <1>17, <1>18 DEF t, e, d, c


(* A write that one more slice may see changes no other.                   *)
LEMMA DifferButPreserves ==
  ASSUME NEW s, Proper(s), NEW t, NEW x, NEW z, NEW w, DifferBut(s, t, x, z, w)
  PROVE  /\ Preserves(s, t, {x, z}) /\ Alive(t) = Alive(s) \cup {x} /\ x \in Alive(t)
         /\ Words(t, x) = w /\ \A y : SignOf(t, y) = SignOf(s, y)
<1>1. t.num = s.num /\ "num" \in DOMAIN t
  BY DEF DifferBut, SameRest, Proper
<1>2. Proper(t)
  BY <1>1 DEF DifferBut, Proper
<1>3. \A y : SignOf(t, y) = SignOf(s, y)
  BY <1>1 DEF SignOf
<1>4. QED
  BY <1>2, <1>3 DEF DifferBut, Preserves

(* The loop's results: the remainder in place, the quotient's words in q.  *)
LEMMA DigitsStored ==
  ASSUME NEW s, Proper(s), NEW U \in Alive(s), U = "uDividend", NEW z, Only(s, U, z),
         NEW P, P = "qArr", NEW q \in Alive(s), NEW r \in Alive(s), q # r,
         q # U, q # P, r # U, r # P,
         NEW Q \in Seq(Word), NEW u \in Seq(Word), Len(u) = Count(s, U),
         NEW X, U \in X, z \in X, q \in X, r \in X, P \in X
  PROVE  LET t == StoreDigits(s, [q |-> Q, u |-> u], q, r)
         IN  /\ Preserves(s, t, X)
             /\ U \in Alive(t) /\ q \in Alive(t) /\ r \in Alive(t)
             /\ Words(t, U) = u /\ SignOf(t, U) = SignOf(s, U)
             /\ Words(t, q) = EraseZerosSuffix(Q) /\ SignOf(t, q) = "POSITIVE"
             /\ SignOf(t, r) = "POSITIVE"
<1> DEFINE o == Overwrite(s, U, u)
           n == NewSlice(o, P)
           w == SubSlice(n, P, 0, Len(Q))
           d == Overwrite(w, P, Q)
           f == SetFlags(d, q, "POSITIVE")
           g == SetFlags(f, r, "POSITIVE")
           e == EraseZeros(g, P)
           t == MoveSlice(e, q, P)
<1>1. StoreDigits(s, [q |-> Q, u |-> u], q, r) = t
  BY DEF StoreDigits
<1>2. U # P /\ U \in Name /\ P \in Name
  BY NameAssumption DEF Local
<1>3. SUFFICES /\ Preserves(s, t, X) /\ U \in Alive(t) /\ q \in Alive(t) /\ r \in Alive(t)
               /\ Words(t, U) = u /\ SignOf(t, U) = SignOf(s, U)
               /\ Words(t, q) = EraseZerosSuffix(Q) /\ SignOf(t, q) = "POSITIVE"
               /\ SignOf(t, r) = "POSITIVE"
  BY <1>1
<1>4. u \in Seq(Data) /\ Q \in Seq(Data) /\ Len(Q) \in Nat /\ Sound(s)
  BY WordsAssumption, LenProperties DEF Proper
<1>6. /\ Preserves(s, o, {U, z}) /\ Alive(o) = Alive(s)
      /\ Words(o, U) = u /\ \A y : SignOf(o, y) = SignOf(s, y)
  <2>1. DifferBut(s, o, U, z, u)
    BY <1>3, <1>4, OverwriteShared
  <2> HIDE DEF o
  <2>2. /\ Preserves(s, o, {U, z}) /\ Alive(o) = Alive(s) \cup {U}
        /\ Words(o, U) = u /\ \A y : SignOf(o, y) = SignOf(s, y)
    BY <2>1, DifferButPreserves
  <2>3. QED
    BY <1>3, <2>2
<1> HIDE DEF o
<1>7. Proper(o) /\ Sound(o)
  BY <1>6 DEF Preserves, Proper
<1>8. Writes(o, d, P, SignOf(o, P), Q)
  <2>1. Differ(o, n, P, << >>) /\ Sole(n, P)
    BY <1>2, <1>7, NewSliceSound
  <2> HIDE DEF n
  <2>2. Sound(n) /\ P \in Alive(n)
    BY <2>1 DEF Differ
  <2>3. Differ(n, w, P, Words(w, P)) /\ Sole(w, P) /\ Count(w, P) = Len(Q)
    BY <1>4, <2>1, <2>2, WindowSound
  <2> HIDE DEF w
  <2>4. Sound(w) /\ P \in Alive(w)
    BY <2>2, <2>3 DEF Differ
  <2>5. Differ(w, d, P, Q)
    BY <1>4, <2>3, <2>4, OverwriteSound
  <2> HIDE DEF d
  <2>6. Differ(o, d, P, Q)
    BY <2>1, <2>3, <2>5, DifferTwice
  <2>7. QED
    BY <1>7, <2>6, DifferWrites
<1> HIDE DEF d
<1>9. /\ Proper(d) /\ {U, q, r, P} \subseteq Alive(d)
      /\ Words(d, U) = u /\ SignOf(d, U) = SignOf(s, U) /\ Words(d, P) = Q
  BY <1>2, <1>3, <1>6, <1>8 DEF Writes, Preserves
<1>10. "POSITIVE" \in Sign
  BY DEF Sign
<1>11. Writes(d, f, q, "POSITIVE", Words(d, q))
  BY <1>9, <1>10, SetFlagsSound
<1> HIDE DEF f
<1>12. /\ Proper(f) /\ {U, q, r, P} \subseteq Alive(f)
       /\ Words(f, U) = u /\ SignOf(f, U) = SignOf(s, U) /\ Words(f, P) = Q
       /\ SignOf(f, q) = "POSITIVE"
  BY <1>3, <1>9, <1>11 DEF Writes, Preserves
<1>13. Writes(f, g, r, "POSITIVE", Words(f, r))
  BY <1>10, <1>12, SetFlagsSound
<1> HIDE DEF g
<1>14. /\ Proper(g) /\ {U, q, r, P} \subseteq Alive(g)
       /\ Words(g, U) = u /\ SignOf(g, U) = SignOf(s, U) /\ Words(g, P) = Q
       /\ SignOf(g, q) = "POSITIVE" /\ SignOf(g, r) = "POSITIVE"
  BY <1>3, <1>12, <1>13 DEF Writes, Preserves
<1>15. Writes(g, e, P, SignOf(g, P), EraseZerosSuffix(Q))
  BY <1>14, EraseZerosSound, DifferWrites DEF Proper
<1> HIDE DEF e
<1>16. /\ Proper(e) /\ {U, q, r, P} \subseteq Alive(e)
       /\ Words(e, U) = u /\ SignOf(e, U) = SignOf(s, U) /\ Words(e, P) = EraseZerosSuffix(Q)
       /\ SignOf(e, q) = "POSITIVE" /\ SignOf(e, r) = "POSITIVE"
  BY <1>2, <1>3, <1>14, <1>15 DEF Writes, Preserves
<1>17. /\ Preserves(e, t, {q} \cup {P})
       /\ q \in Alive(t) /\ Words(t, q) = Words(e, P) /\ SignOf(t, q) = SignOf(e, q)
  <2>1. q \in Name
    BY DEF Alive
  <2>2. QED
    BY <1>3, <1>16, <2>1, MoveSliceWrites
<1> HIDE DEF t
<1>18. /\ U \in Alive(t) /\ r \in Alive(t) /\ SignOf(t, r) = "POSITIVE"
       /\ Words(t, U) = u /\ SignOf(t, U) = SignOf(s, U)
  BY <1>2, <1>3, <1>16, <1>17 DEF Preserves
<1>19. Preserves(s, t, X)
  <2>1. Preserves(s, o, X)
    BY <1>6, PreservesMore
  <2>2. Preserves(o, d, X) /\ Preserves(d, f, X) /\ Preserves(f, g, X) /\ Preserves(g, e, X)
    BY <1>8, <1>11, <1>13, <1>15, PreservesMore DEF Writes
  <2>3. Preserves(e, t, X)
    BY <1>17, PreservesMore
  <2>4. QED
    BY <2>1, <2>2, <2>3, PreservesTwice
<1>20. QED
  BY <1>16, <1>17, <1>18, <1>19

(* The remainder moves back: a positive object that may have become empty. *)
LEMMA RestShifted ==
  ASSUME NEW s, Proper(s), NEW x \in Alive(s), SignOf(s, x) = "POSITIVE",
         Trimmed(Words(s, x)), NEW n \in Nat, PowersUpTo(n)
  PROVE  LET t == ShiftRightAssign(s, x, n)
         IN  /\ Preserves(s, t, {x}) /\ x \in Alive(t)
             /\ Makes(Words(t, x), ToNat(Words(s, x)) \div 2 ^ n)
<1> DEFINE w == Words(s, x)
           m == ToNat(w)
           P == 2 ^ n
           t == ShiftRightAssign(s, x, n)
<1>1. /\ x \in Name /\ w \in Seq(Word) /\ Len(w) = Count(s, x) /\ m \in Nat
      /\ (w = << >> <=> m = 0)
  BY WordsAre, EmptyIsZero DEF Proper
<1>2. P \in Nat /\ P >= 1
  BY ShiftPower
<1>3. CASE w # << >>
  <2>1. Holds(s, x, m)
    <3>1. m = SignumOf("POSITIVE") * m
      BY <1>1 DEF SignumOf
    <3>2. QED
      BY <1>1, <1>3, <3>1 DEF Holds, Represents, Sign
  <2>2. Yields(s, t, x, m \div P)
    BY <2>1, ShiftRightYields
  <2> HIDE DEF t
  <2>3. /\ Preserves(s, t, {x}) /\ x \in Alive(t)
        /\ Represents(SignOf(t, x), Words(t, x), m \div P)
    BY <2>2 DEF Yields, Holds
  <2>4. m \div P \in Nat
    BY <1>1, <1>2
  <2>5. Words(t, x) \in Seq(Word) /\ Trimmed(Words(t, x)) /\ ToNat(Words(t, x)) = m \div P
    <3> HIDE DEF P, m
    <3>1. QED
      BY <2>3, <2>4, RepresentsCases
  <2>6. QED
    BY <2>3, <2>5 DEF Makes, t
<1>4. CASE w = << >>
  <2>1. m = 0 /\ Count(s, x) = 0
    BY <1>1, <1>4
  <2>2. m \div P = 0
    <3> HIDE DEF P
    <3>1. QED
      BY <1>2, <2>1
  <2>3. Makes(<< >>, m \div P)
    BY <1>1, <1>4, <2>1, <2>2 DEF Makes
  <2>4. CASE n = 0
    <3>1. t = s
      BY <2>4 DEF ShiftRightAssign
    <3> HIDE DEF t, P, m
    <3>2. Preserves(s, s, {x})
      BY PreservesNothing
    <3>3. QED
      BY <1>4, <2>3, <3>1, <3>2 DEF t, P, m, w
  <2>5. CASE n # 0
    <3>1. n \div WordBits >= Count(s, x)
      BY <2>1, WordBitsAssumption
    <3>2. t = BeZero(s, x)
      BY <2>5, <3>1 DEF ShiftRightAssign
    <3> HIDE DEF t, P, m
    <3>3. Writes(s, t, x, "ZERO", << >>)
      BY <1>1, <3>2, BeZeroSound
    <3>4. QED
      BY <2>3, <3>3 DEF Writes, t, P, m, w
  <2>6. QED
    BY <2>4, <2>5
<1>5. QED
  BY <1>3, <1>4

(* Copies, normalised; the loop; the remainder moved back and to r.        *)
Scratch == {"uDividend", "vDivisor", "qArr"}
LEMMA KnuthDivides ==
  ASSUME NEW s, Proper(s), NEW a \in Alive(s) \ Scratch, NEW b \in Alive(s) \ Scratch, a # b,
         Sole(s, a), SignOf(s, a) = "POSITIVE", SignOf(s, b) = "POSITIVE",
         NEW q \in Alive(s) \ Scratch, NEW r \in Alive(s) \ Scratch, q # r, q # a, r # a,
         NEW A \in Seq(Word), NEW B \in Seq(Word), Words(s, b) = B,
         Words(s, a) = IF Len(A) = Len(B) THEN Append(A, 0) ELSE A,
         Len(B) >= 2, B[Len(B)] # 0, Len(B) <= Len(A)
  PROVE  LET t == KnuthDivImpl(s, q, r, a, b)
         IN  /\ Preserves(s, t, {a, q, r} \cup Scratch)
             /\ q \in Alive(t) /\ SignOf(t, q) = "POSITIVE"
             /\ Makes(Words(t, q), ToNat(A) \div ToNat(B))
             /\ Holds(t, r, ToNat(A) % ToNat(B))
<1> DEFINE U == "uDividend"
           V == "vDivisor"
           n == NormShift(Words(s, b))
           up == Append(Shifted(Words(s, a), n), 0)
           k == KnuthLoop(up, Shifted(B, n))
           sc == ShiftLeftAssign(ShiftLeftAssign(
                   CopyConstruct(CopyConstruct(s, U, a), V, b), U, n), V, n)
           ap == Append_(sc, U, 0)
           sd == StoreDigits(ap, k, q, r)
           e == EraseZeros(sd, U)
           rt == ShiftRightAssign(e, U, n)
           mv == MoveSlice(rt, r, U)
           t == ZeroIfEmpty(mv, r)
           Q == ToNat(A) \div ToNat(B)
           R == ToNat(A) % ToNat(B)
           X == {a, q, r} \cup Scratch
<1>1. /\ U # V /\ U \in Name /\ V \in Name /\ a \notin {U, V} /\ b \notin {U, V}
      /\ q # U /\ r # U /\ {U, V, "qArr"} \subseteq X
  BY NameAssumption DEF Local, Scratch
<1>2. Sound(s) /\ r \in Name /\ q \in Name
  BY DEF Proper, Alive
<1>3. /\ n \in 0 .. WordBits - 1 /\ PowersUpTo(n)
      /\ k.q \in Seq(Word) /\ k.u \in Seq(Word) /\ Len(k.u) = Len(up)
      /\ ToNat(k.q) = Q /\ ToNat(EraseZerosSuffix(k.u)) \div 2 ^ n = R
  BY DigitsExact
<1>4. n \in Nat
  BY <1>3, WordBitsAssumption
<1>5. /\ Preserves(s, sc, {U, V}) /\ U \in Alive(sc) /\ V \in Alive(sc) /\ SignOf(sc, U) = "POSITIVE"
      /\ Words(sc, U) = Shifted(Words(s, a), n) /\ Words(sc, V) = Shifted(B, n)
      /\ Only(sc, U, a)
  <2> HIDE DEF U, V, n
  <2>1. U \in Name \ {a, b} /\ V \in Name \ {a, b} /\ U # V
    BY <1>1
  <2>2. /\ Proper(s) /\ a \in Alive(s) /\ b \in Alive(s) /\ a # b /\ Sole(s, a)
        /\ SignOf(s, a) = "POSITIVE" /\ SignOf(s, b) = "POSITIVE" /\ n \in 0 .. WordBits - 1
    BY <1>3
  <2>3. /\ Preserves(s, sc, {U, V}) /\ U \in Alive(sc) /\ V \in Alive(sc)
        /\ SignOf(sc, U) = "POSITIVE"
        /\ Words(sc, U) = Shifted(Words(s, a), n) /\ Words(sc, V) = Shifted(Words(s, b), n)
        /\ Only(sc, U, a)
    BY ONLY <2>1, <2>2, ScaledCopies
  <2> HIDE DEF sc
  <2>4. QED
    BY <2>3
<1>6. /\ KnuthDivImpl(s, q, r, a, b) =
           ZeroIfEmpty(MoveSlice(ShiftRightAssign(EraseZeros(KnuthDigits(ap, q, r), U), U, n), r, U), r)
      /\ KnuthDigits(ap, q, r) = StoreDigits(ap, KnuthLoop(Words(ap, U), Words(ap, V)), q, r)
  BY DEF KnuthDivImpl, KnuthDigits
<1> HIDE DEF U, V, n, sc
<1>7. Proper(sc) /\ Sound(sc)
  BY <1>5 DEF Preserves, Proper
<1>8. /\ Preserves(sc, ap, {U, a}) /\ Alive(ap) = Alive(sc) \cup {U} /\ U \in Alive(ap)
      /\ Words(ap, U) = up /\ (\A y : SignOf(ap, y) = SignOf(sc, y)) /\ Only(ap, U, a)
  <2>1. DifferBut(sc, ap, U, a, up) /\ Only(ap, U, a)
    BY <1>5, <1>7, DataAssumption, AppendShared
  <2> HIDE DEF ap, up
  <2>2. QED
    BY <1>7, <2>1, DifferButPreserves
<1>9. Words(ap, V) = Shifted(B, n)
  <2> HIDE DEF ap
  <2>1. QED
    BY <1>1, <1>5, <1>8 DEF Preserves
<1>10. KnuthDivImpl(s, q, r, a, b) = t
  <2> HIDE DEF ap, up
  <2>1. KnuthDigits(ap, q, r) = sd
    BY <1>6, <1>8, <1>9
  <2> HIDE DEF sd
  <2>2. QED
    BY <1>6, <2>1
<1> HIDE DEF ap
<1>11. /\ Proper(ap) /\ q \in Alive(ap) /\ r \in Alive(ap) /\ SignOf(ap, U) = "POSITIVE"
       /\ Sound(ap) /\ Len(up) = Count(ap, U)
  <2>1. /\ Proper(ap) /\ q \in Alive(ap) /\ r \in Alive(ap) /\ SignOf(ap, U) = "POSITIVE"
        /\ Sound(ap)
    BY <1>1, <1>5, <1>8 DEF Preserves, Proper
  <2> HIDE DEF up
  <2>2. QED
    BY <1>8, <2>1, WordsAre
<1> HIDE DEF up, k
<1>12. /\ Preserves(ap, sd, X)
       /\ U \in Alive(sd) /\ q \in Alive(sd) /\ r \in Alive(sd)
       /\ Words(sd, U) = k.u /\ SignOf(sd, U) = SignOf(ap, U)
       /\ Words(sd, q) = EraseZerosSuffix(k.q) /\ SignOf(sd, q) = "POSITIVE"
       /\ SignOf(sd, r) = "POSITIVE"
  <2> DEFINE P == "qArr"
             kq == k.q
             ku == k.u
             W == X
             so == StoreDigits(ap, [q |-> kq, u |-> ku], q, r)
  <2>1. P = "qArr" /\ U = "uDividend" /\ q # P /\ r # P
    BY DEF U, Scratch
  <2>2. sd = so
    BY DEF sd, StoreDigits
  <2> HIDE DEF P, kq, ku, W
  <2>3. /\ Proper(ap) /\ U \in Alive(ap) /\ Only(ap, U, a) /\ q \in Alive(ap) /\ r \in Alive(ap)
        /\ q # r /\ q # U /\ r # U /\ kq \in Seq(Word) /\ ku \in Seq(Word)
        /\ Len(ku) = Count(ap, U)
        /\ U \in W /\ a \in W /\ q \in W /\ r \in W /\ P \in W
    BY <1>1, <1>3, <1>8, <1>11 DEF kq, ku, W, P
  <2>4. /\ Preserves(ap, so, W)
        /\ U \in Alive(so) /\ q \in Alive(so) /\ r \in Alive(so)
        /\ Words(so, U) = ku /\ SignOf(so, U) = SignOf(ap, U)
        /\ Words(so, q) = EraseZerosSuffix(kq) /\ SignOf(so, q) = "POSITIVE"
        /\ SignOf(so, r) = "POSITIVE"
    BY ONLY <2>1, <2>3, DigitsStored
  <2> HIDE DEF so
  <2>5. QED
    BY <2>2, <2>4 DEF W, kq, ku
<1> HIDE DEF sd
<1>13. Proper(sd) /\ Sound(sd)
  BY <1>12 DEF Preserves, Proper
<1>14. Makes(EraseZerosSuffix(k.q), Q) /\ Trimmed(EraseZerosSuffix(k.u))
  BY <1>3, EraseProperties DEF Makes
<1> HIDE DEF Q, R
<1>15. Writes(sd, e, U, "POSITIVE", EraseZerosSuffix(k.u))
  <2>1. Differ(sd, e, U, EraseZerosSuffix(k.u))
    BY <1>12, <1>13, EraseZerosSound
  <2> HIDE DEF e
  <2>2. Writes(sd, e, U, SignOf(sd, U), EraseZerosSuffix(k.u))
    BY <1>13, <2>1, DifferWrites
  <2>3. QED
    BY <1>11, <1>12, <2>2
<1> HIDE DEF e
<1>16. /\ Proper(e) /\ U \in Alive(e) /\ q \in Alive(e) /\ r \in Alive(e)
       /\ Words(e, U) = EraseZerosSuffix(k.u) /\ SignOf(e, U) = "POSITIVE"
       /\ Words(e, q) = EraseZerosSuffix(k.q) /\ SignOf(e, q) = "POSITIVE"
       /\ SignOf(e, r) = "POSITIVE"
  BY <1>1, <1>12, <1>15 DEF Writes, Preserves
<1>17. Preserves(e, rt, {U}) /\ U \in Alive(rt) /\ Makes(Words(rt, U), R)
  BY <1>3, <1>4, <1>14, <1>16, RestShifted
<1> HIDE DEF rt
<1>18. /\ Proper(rt) /\ q \in Alive(rt) /\ r \in Alive(rt)
       /\ Words(rt, q) = EraseZerosSuffix(k.q) /\ SignOf(rt, q) = "POSITIVE"
       /\ SignOf(rt, r) = "POSITIVE"
  BY <1>1, <1>16, <1>17 DEF Preserves
<1>19. /\ Preserves(rt, mv, {r} \cup {U}) /\ r \in Alive(mv)
       /\ Words(mv, r) = Words(rt, U) /\ SignOf(mv, r) = "POSITIVE"
  BY <1>1, <1>2, <1>17, <1>18, MoveSliceWrites
<1> HIDE DEF mv
<1>20. /\ Proper(mv) /\ q \in Alive(mv)
       /\ Words(mv, q) = EraseZerosSuffix(k.q) /\ SignOf(mv, q) = "POSITIVE"
  BY <1>1, <1>18, <1>19 DEF Preserves
<1>21. Yields(mv, t, r, R)
  <2>1. Writes(mv, mv, r, "POSITIVE", Words(mv, r))
    BY <1>19, <1>20, PreservesNothing DEF Writes
  <2>2. Makes(Words(mv, r), R)
    BY <1>17, <1>19
  <2>3. QED
    BY <2>1, <2>2, ZeroIfEmptyYields
<1> HIDE DEF t
<1>22. /\ q \in Alive(t) /\ SignOf(t, q) = "POSITIVE" /\ Makes(Words(t, q), Q)
       /\ Holds(t, r, R)
  BY <1>14, <1>20, <1>21 DEF Yields, Preserves
<1>23. Preserves(s, t, X)
  <2>1. Preserves(s, sc, X) /\ Preserves(sc, ap, X) /\ Preserves(ap, sd, X)
    BY <1>1, <1>5, <1>8, <1>12, PreservesMore
  <2>2. Preserves(sd, e, X) /\ Preserves(e, rt, X) /\ Preserves(rt, mv, X) /\ Preserves(mv, t, X)
    BY <1>1, <1>15, <1>17, <1>19, <1>21, PreservesMore DEF Writes, Yields
  <2> HIDE DEF X
  <2>3. QED
    BY <2>1, <2>2, PreservesTwice
<1>24. QED
  BY <1>10, <1>22, <1>23 DEF Q, R

Signed(up, m) == IF up THEN m ELSE - m

(* Zero has no sign.                                                       *)
LEMMA SignedZero ==
  ASSUME NEW m \in Int, m = 0, NEW up \in BOOLEAN
  PROVE  Signed(up, m) = m /\ Signed(up, m) = 0
<1> USE DEF Signed
<1>1. \A p \in Int : p <= m /\ p >= m => p = m
  OBVIOUS
<1>2. - m \in Int /\ - m <= m /\ - m >= m
  OBVIOUS
<1>3. - m = m
  <2> DEFINE p == - m
  <2> HIDE DEF p
  <2>1. p \in Int /\ p <= m /\ p >= m
    BY <1>2 DEF p
  <2>2. p = m
    BY <1>1, <2>1
  <2>3. QED
    BY <2>2 DEF p
<1>4. QED
  BY <1>3

(* A sign set on a result that may be zero.                                *)
LEMMA SetUnlessZeroYields ==
  ASSUME NEW s, Proper(s), NEW x, NEW v, Holds(s, x, v), NEW positive \in BOOLEAN
  PROVE  Yields(s, SetUnlessZero(s, x, FlagsFor(positive)), x,
                Signed(positive, Abs(v)))
<1> USE DEF Signed
<1> DEFINE w == Words(s, x)
           m == ToNat(w)
           g == FlagsFor(positive)
<1>1. /\ x \in Alive(s) /\ w \in Seq(Word) /\ Trimmed(w) /\ m \in Nat /\ v \in Int
      /\ \/ SignOf(s, x) = "ZERO" /\ v = 0
         \/ SignOf(s, x) # "ZERO" /\ w # << >> /\ Abs(v) = m /\ m > 0
  <2> HIDE DEF w
  <2>1. /\ x \in Alive(s) /\ w \in Seq(Word) /\ Trimmed(w) /\ ToNat(w) \in Nat /\ v \in Int
        /\ \/ SignOf(s, x) = "ZERO" /\ v = 0
           \/ SignOf(s, x) = "POSITIVE" /\ w # << >> /\ v = ToNat(w) /\ ToNat(w) > 0
           \/ SignOf(s, x) = "NEGATIVE" /\ w # << >> /\ v = - ToNat(w) /\ ToNat(w) > 0
    BY HoldsCases DEF w
  <2>2. QED
    BY <2>1 DEF Abs
<1>2. CASE SignOf(s, x) = "ZERO"
  <2>1. v = 0 /\ SetUnlessZero(s, x, g) = s
    BY <1>1, <1>2 DEF SetUnlessZero
  <2>2. Signed(positive, Abs(v)) = v
    <3>1. Abs(v) = 0 /\ Abs(v) \in Int
      BY <2>1 DEF Abs
    <3>2. QED
      BY <2>1, <3>1, SignedZero
  <2>3. Yields(s, s, x, v)
    BY YieldsSame
  <2>4. QED
    BY <2>1, <2>2, <2>3
<1>3. CASE SignOf(s, x) # "ZERO"
  <2>1. SetUnlessZero(s, x, g) = SetFlags(s, x, g)
    BY <1>3 DEF SetUnlessZero
  <2>2. Makes(w, m) /\ w # << >> /\ Abs(v) = m
    BY <1>1, <1>3 DEF Makes
  <2> HIDE DEF m
  <2>3. Represents(g, w, Signed(positive, m)) /\ g \in Sign
    BY <2>2, RepresentsSigned
  <2> HIDE DEF w, g
  <2>4. Writes(s, SetFlags(s, x, g), x, g, w)
    BY <1>1, <2>3, SetFlagsSound DEF w
  <2>5. Yields(s, SetFlags(s, x, g), x, Signed(positive, m))
    BY <2>3, <2>4, WritesYields
  <2>6. QED
    BY <2>1, <2>2, <2>5 DEF g
<1>4. QED
  BY <1>2, <1>3

(* Division by one word, in place.                                         *)
LEMMA ShortDivides ==
  ASSUME NEW s, Proper(s), NEW q, NEW r \in Alive(s), q # r, NEW v, Holds(s, q, v), v # 0,
         NEW w \in Word, w # 0
  PROVE  LET t == DivideAssignAndReminderByU32(s, q, w, r)
             Q == Abs(v) \div w
             R == Abs(v) % w
         IN  /\ Preserves(s, t, {q, r})
             /\ Holds(t, q, Signed(v > 0, Q))
             /\ Holds(t, r, Signed(v > 0, R))
<1> USE DEF Signed
<1> DEFINE o == CloneData(BeginWrite(s, q), q)
           a == Words(s, q)
           m == ToNat(a)
           d == DivideByWord(a, w)
           qt == EraseZeros(Overwrite(o, q, d.q), q)
           up == v > 0
           g == FlagsFor(up)
           dn == IF Count(qt, q) = 0 THEN BeZero(qt, q) ELSE SetFlags(qt, q, g)
           re == AssignI64(dn, r, d.r)
           t == DivideAssignAndReminderByU32(s, q, w, r)
           Q == m \div w
           R == m % w
<1>1. /\ Sound(s) /\ q \in Alive(s) /\ q \in Name /\ a \in Seq(Word) /\ Trimmed(a) /\ m \in Nat
      /\ v \in Int /\ a # << >> /\ m > 0 /\ Abs(v) = m
      /\ SignOf(s, q) # "ZERO" /\ (SignOf(s, q) = "POSITIVE" <=> up)
  <2> HIDE DEF a
  <2>1. /\ Sound(s) /\ q \in Alive(s) /\ q \in Name /\ a \in Seq(Word) /\ Trimmed(a)
        /\ ToNat(a) \in Nat /\ v \in Int
        /\ \/ SignOf(s, q) = "ZERO" /\ v = 0
           \/ SignOf(s, q) = "POSITIVE" /\ a # << >> /\ v = ToNat(a) /\ ToNat(a) > 0
           \/ SignOf(s, q) = "NEGATIVE" /\ a # << >> /\ v = - ToNat(a) /\ ToNat(a) > 0
    BY HoldsCases DEF a
  <2>2. QED
    BY <2>1 DEF Abs
<1>2. r \in Name /\ w \in Nat /\ w >= 1 /\ up \in BOOLEAN
  BY BaseProperties DEF Alive, Word
<1>3. o.mag = o.mag /\ Writes(s, o, q, SignOf(s, q), a) /\ Sole(o, q)
  BY <1>1, OwnedSound
<1>4. Proper(o) /\ Sound(o) /\ q \in Alive(o) /\ Words(o, q) = a
  BY <1>3, WritesOf DEF Writes
<1>5. t = IF w = 1 THEN SetFlags(BeZero(s, r), q, g)
          ELSE IF d.r = 0 THEN re ELSE SetFlags(re, r, g)
  <2>1. (SignOf(s, q) = "POSITIVE") = up
    BY <1>1
  <2> HIDE DEF up, a
  <2>2. Words(o, q) = a
    BY <1>4
  <2> HIDE DEF o
  <2>3. t = CASE SignOf(s, q) = "ZERO" -> BeZero(s, r)
              [] SignOf(s, q) # "ZERO" /\ w = 1 -> SetFlags(BeZero(s, r), q, g)
              [] OTHER -> IF d.r = 0 THEN re ELSE SetFlags(re, r, g)
    BY <2>1, <2>2 DEF DivideAssignAndReminderByU32, o
  <2> HIDE DEF t, re, d, g
  <2>4. QED
    BY <1>1, <2>3
<1>6. SUFFICES /\ Preserves(s, t, {q, r})
               /\ Holds(t, q, Signed(up, Q))
               /\ Holds(t, r, Signed(up, R))
  BY <1>1
<1> HIDE DEF t, a, up
<1>7. Makes(a, m) /\ m # 0
  BY <1>1 DEF Makes
<1> HIDE DEF m
<1>8. CASE w = 1
  <2> DEFINE z == BeZero(s, r)
  <2>1. Q = m /\ R = 0
    BY <1>1, <1>8
  <2>2. Yields(s, z, r, 0)
    BY <1>2, ZeroYields
  <2> HIDE DEF z
  <2>3. Proper(z) /\ q \in Alive(z) /\ Words(z, q) = a /\ Holds(z, r, 0) /\ Preserves(s, z, {r})
    BY <1>1, <2>2 DEF Yields, Preserves, a
  <2>4. Represents(g, a, Signed(up, m)) /\ g \in Sign
    BY <1>2, <1>7, RepresentsSigned
  <2> HIDE DEF g
  <2>5. Writes(z, t, q, g, a)
    BY <1>5, <1>8, <2>3, <2>4, SetFlagsSound DEF z
  <2>6. Yields(z, t, q, Signed(up, m))
    BY <2>4, <2>5, WritesYields
  <2>7. Holds(t, r, 0)
    BY <2>3, <2>6 DEF Yields, Preserves, Holds
  <2>8. Preserves(s, t, {q, r})
    BY <2>3, <2>6, PreservesMore, PreservesTwice DEF Yields
  <2>9. Signed(up, R) = 0 /\ Signed(up, Q) = Signed(up, m)
    BY <2>1
  <2> HIDE DEF Q, R
  <2>10. QED
    BY <2>6, <2>7, <2>8, <2>9 DEF Yields
<1>9. CASE w # 1
  <2> DEFINE c == EraseZerosSuffix(d.q)
  <2>1. /\ d.q \in Seq(Word) /\ Len(d.q) = Len(a) /\ d.r \in 0 .. w - 1
        /\ ToNat(d.q) = Q /\ d.r = R
    BY <1>1, <1>2, DivideByWordExact DEF m
  <2> HIDE DEF d
  <2>2. R \in Nat /\ Abs(R) # WordMax /\ 2 * Abs(R) < Base * Base /\ Abs(R) = R
    <3>1. d.r \in Nat /\ d.r < w /\ w <= WordMax /\ Base \in Nat /\ Base >= 2 /\ WordMax = Base - 1
      BY <1>2, <2>1, BaseProperties DEF Word
    <3> HIDE DEF R
    <3>2. R \in Nat /\ R < WordMax
      <4>1. \A x, y, z \in Nat : x < y /\ y <= z => x < z
        OBVIOUS
      <4>2. R = d.r /\ WordMax \in Nat
        BY <2>1, BaseProperties
      <4>3. QED
        BY <1>2, <3>1, <4>1, <4>2
    <3>3. 2 * R < 2 * Base
      BY <3>1, <3>2
    <3>4. 2 * Base <= Base * Base
      BY <3>1
    <3>5. Base * Base \in Int
      BY <3>1
    <3>6. 2 * R < Base * Base
      BY <3>1, <3>2, <3>3, <3>4, <3>5
    <3>7. QED
      BY <3>1, <3>2, <3>6 DEF Abs
  <2>3. Makes(c, Q)
    BY <2>1, EraseProperties DEF Makes
  <2>4. Writes(s, qt, q, SignOf(s, q), c)
    <3> DEFINE ow == Overwrite(o, q, d.q)
    <3> HIDE DEF o
    <3>1. Len(d.q) = Count(o, q) /\ d.q \in Seq(Data)
      BY <1>4, <2>1, WordsAre, WordsAssumption
    <3>2. Differ(o, ow, q, d.q)
      BY <1>3, <1>4, <3>1, OverwriteSound
    <3> HIDE DEF ow
    <3>3. Sound(ow) /\ q \in Alive(ow) /\ Words(ow, q) = d.q
      BY <1>4, <3>2 DEF Differ
    <3>4. Differ(ow, EraseZeros(ow, q), q, c)
      BY <3>3, EraseZerosSound
    <3>5. Writes(s, EraseZeros(ow, q), q, SignOf(s, q), c)
      BY <1>3, <3>2, <3>4, ThenDiffer
    <3>6. QED
      BY <3>5 DEF ow
  <2> HIDE DEF qt, c, Q
  <2>5. /\ Proper(qt) /\ Sound(qt) /\ q \in Alive(qt) /\ Words(qt, q) = c
        /\ c \in Seq(Word) /\ (c = << >> <=> Q = 0) /\ (c = << >> <=> Count(qt, q) = 0)
    <3>1. Proper(qt) /\ Sound(qt) /\ q \in Alive(qt) /\ Words(qt, q) = c
      BY <2>4, WritesOf DEF Writes
    <3>2. c \in Seq(Word) /\ (c = << >> <=> Q = 0)
      BY <2>3, EmptyIsZero DEF Makes
    <3>3. Len(c) = Count(qt, q)
      BY <3>1, WordsAre
    <3>4. QED
      BY <3>1, <3>2, <3>3, EmptySeq
  <2>6. Yields(s, dn, q, Signed(up, Q))
    <3>1. CASE c = << >>
      <4>1. dn = BeZero(qt, q) /\ Signed(up, Q) = 0
        <5>1. dn = BeZero(qt, q)
          BY <2>5, <3>1
        <5>2. Q = 0 /\ Q \in Int /\ up \in BOOLEAN
          BY <1>2, <2>5, <3>1
        <5>3. QED
          BY ONLY <5>1, <5>2, SignedZero
      <4>2. Yields(qt, BeZero(qt, q), q, 0)
        BY <1>1, <2>5, ZeroYields
      <4>3. QED
        BY <2>4, <4>1, <4>2, WritesThenYields
    <3>2. CASE c # << >>
      <4>1. dn = SetFlags(qt, q, g)
        BY <2>5, <3>2
      <4>2. Represents(g, c, Signed(up, Q)) /\ g \in Sign
        BY <1>2, <2>3, <3>2, RepresentsSigned
      <4> HIDE DEF g
      <4>3. Writes(s, SetFlags(qt, q, g), q, g, c)
        BY <2>4, <4>2, ThenFlags
      <4>4. QED
        BY <4>1, <4>2, <4>3, WritesYields
    <3>3. QED
      BY <3>1, <3>2
  <2> HIDE DEF dn, g
  <2>7. /\ Proper(dn) /\ r \in Alive(dn) /\ Preserves(s, dn, {q})
        /\ Holds(dn, q, Signed(up, Q))
    BY <2>6 DEF Yields, Preserves
  <2>8. Yields(dn, re, r, R)
    <3>1. re = AssignI64(dn, r, R) /\ R \in Int
      BY <2>1, <2>2
    <3> HIDE DEF re, R
    <3>2. QED
      BY <2>2, <2>7, <3>1, AssignI64Yields
  <2> HIDE DEF re, R
  <2>9. Proper(re) /\ Holds(re, r, R)
    BY <2>8 DEF Yields, Preserves
  <2>10. Yields(dn, t, r, Signed(up, R))
    <3>1. CASE R = 0
      <4>1. t = re /\ Signed(up, R) = R
        <5>1. t = re
          BY <1>5, <1>9, <2>1, <3>1
        <5>2. R = 0 /\ R \in Int /\ up \in BOOLEAN
          BY <1>2, <2>2, <3>1
        <5>3. QED
          BY ONLY <5>1, <5>2, SignedZero
      <4>2. QED
        BY <2>8, <4>1
    <3>2. CASE R # 0
      <4>1. t = SetUnlessZero(re, r, g)
        <5>1. t = SetFlags(re, r, g)
          BY <1>5, <1>9, <2>1, <3>2
        <5>2. SignOf(re, r) # "ZERO"
          BY <2>9, <3>2, HoldsCases
        <5>3. QED
          BY <5>1, <5>2 DEF SetUnlessZero
      <4>2. Yields(re, t, r, Signed(up, R))
        BY <1>2, <2>2, <2>9, <4>1, SetUnlessZeroYields DEF g
      <4>3. QED
        BY <2>8, <4>2, YieldsTwice
    <3>3. QED
      BY <3>1, <3>2
  <2>11. Holds(t, q, Signed(up, Q))
    BY <2>7, <2>10 DEF Yields, Preserves, Holds
  <2>12. Preserves(s, t, {q, r})
    BY <2>7, <2>10, PreservesMore, PreservesTwice DEF Yields
  <2>13. QED
    BY <2>10, <2>11, <2>12 DEF Yields
<1>10. QED
  BY <1>8, <1>9

(* Quotients of numbers that are not far apart.                            *)
LEMMA DivisionNear ==
  ASSUME NEW m \in Nat, NEW k \in Nat, k >= 1
  PROVE  /\ m \div k \in Nat /\ m % k \in Nat
         /\ m < k => m \div k = 0 /\ m % k = m
         /\ m = k => m \div k = 1 /\ m % k = 0
         /\ m > k => m \div k >= 1
<1> DEFINE Q == m \div k
           R == m % k
<1>1. Q \in Nat /\ R \in Nat /\ R < k /\ m = k * Q + R
  OBVIOUS
<1>2. ASSUME NEW q \in Int, NEW r \in Int, 0 <= r, r < k, m = q * k + r PROVE Q = q /\ R = r
  BY <1>2, DivisionUnique
<1>3. 0 * k + m = m /\ 1 * k + 0 = k
  OBVIOUS
<1>4. m < k => Q = 0 /\ R = m
  BY <1>2, <1>3
<1>5. m = k => Q = 1 /\ R = 0
  BY <1>2, <1>3
<1> HIDE DEF Q, R
<1>6. m > k => Q >= 1
  <2>1. Q = 0 => k * Q = 0
    OBVIOUS
  <2>2. Q = 0 => m = R
    BY <1>1, <2>1
  <2>3. QED
    BY <1>1, <2>2
<1>7. QED
  BY <1>1, <1>4, <1>5, <1>6 DEF Q, R

(* Division that truncates, by the signs of its operands.                  *)
LEMMA Truncated ==
  ASSUME NEW v \in Int, NEW u \in Int, u # 0
  PROVE  /\ Abs(v) \in Nat /\ Abs(u) \in Nat /\ Abs(u) >= 1
         /\ v # 0 => /\ Integers!Quot(v, u) = Signed(v > 0 <=> u > 0, Abs(v) \div Abs(u))
                     /\ Integers!Rem(v, u) = Signed(v > 0, Abs(v) % Abs(u))
         /\ v = 0 => Integers!Quot(v, u) = 0 /\ Integers!Rem(v, u) = 0
<1> DEFINE m == Abs(v)
           k == Abs(u)
           Q == m \div k
           R == m % k
<1>1. m \in Nat /\ k \in Nat /\ k >= 1 /\ (v = 0 => m = 0)
  BY DEF Abs
<1>2. Integers!Magn(v) = m /\ Integers!Magn(u) = k
  BY DEF Integers!Magn, Abs
<1> HIDE DEF m, k
<1>3. Q \in Nat /\ R \in Nat /\ (v = 0 => Q = 0 /\ R = 0)
  BY <1>1, DivisionNear
<1>4. /\ Integers!Quot(v, u) = Integers!Sgn(v) * Integers!Sgn(u) * Q
      /\ Integers!Rem(v, u) = Integers!Sgn(v) * R
  BY <1>2 DEF Integers!Quot, Integers!Rem
<1> HIDE DEF Q, R
<1>5. /\ 1 * 1 * Q = Q /\ 1 * (-1) * Q = - Q /\ (-1) * 1 * Q = - Q /\ (-1) * (-1) * Q = Q
      /\ 1 * R = R /\ (-1) * R = - R
  BY <1>3
<1>6. /\ v > 0 => Integers!Sgn(v) = 1
      /\ v < 0 => Integers!Sgn(v) = -1
      /\ v = 0 => Integers!Sgn(v) = 1
      /\ u > 0 => Integers!Sgn(u) = 1
      /\ u < 0 => Integers!Sgn(u) = -1
  BY DEF Integers!Sgn
<1> DEFINE X == Integers!Quot(v, u)
           Y == Integers!Rem(v, u)
<1>7. /\ v > 0 /\ u > 0 => X = Q /\ Y = R
      /\ v > 0 /\ u < 0 => X = - Q /\ Y = R
      /\ v < 0 /\ u > 0 => X = - Q /\ Y = - R
      /\ v < 0 /\ u < 0 => X = Q /\ Y = - R
      /\ v = 0 /\ u > 0 => X = Q /\ Y = R
      /\ v = 0 /\ u < 0 => X = - Q /\ Y = R
  BY <1>4, <1>5, <1>6
<1> HIDE DEF X, Y
<1>8. (v > 0 \/ v < 0 \/ v = 0) /\ (u > 0 \/ u < 0) /\ ~(v > 0 /\ v < 0) /\ ~(u > 0 /\ u < 0)
  OBVIOUS
<1>9. v # 0 => X = Signed(v > 0 <=> u > 0, Q) /\ Y = Signed(v > 0, R)
  BY <1>7, <1>8 DEF Signed
<1>10. v = 0 => X = 0 /\ Y = 0
  <2>1. Q = 0 => - Q = 0
    <3>1. Q = 0 /\ Q \in Int => Signed(FALSE, Q) = 0
      BY SignedZero
    <3>2. QED
      BY <1>3, <3>1 DEF Signed
  <2>2. QED
    BY <1>3, <1>7, <1>8, <2>1
<1>11. QED
  BY <1>1, <1>9, <1>10 DEF X, Y, Q, R, m, k

(* The dividend on a vector of its own, with a zero word if it needs one.  *)
LEMMA AsLongSound ==
  ASSUME NEW s, Proper(s), NEW D \in Alive(s), D = "dividend", NEW S \in Alive(s), S = "divisor"
  PROVE  LET A == Words(s, D)
             t == AsLong(CloneData(BeginWrite(s, D), D))
         IN  /\ Writes(s, t, D, SignOf(s, D),
                       IF Len(A) = Len(Words(s, S)) THEN Append(A, 0) ELSE A)
             /\ Sole(t, D)
<1> DEFINE A == Words(s, D)
           B == Words(s, S)
           g == SignOf(s, D)
           o == CloneData(BeginWrite(s, D), D)
           t == AsLong(o)
           x == IF Len(A) = Len(B) THEN Append(A, 0) ELSE A
<1>1. D # S
  OBVIOUS
<1>2. Writes(s, o, D, g, A) /\ Sole(o, D)
  BY OwnedSound
<1> HIDE DEF o
<1>3. /\ Proper(o) /\ Sound(o) /\ D \in Alive(o) /\ S \in Alive(o)
      /\ Words(o, D) = A /\ Words(o, S) = B
  BY <1>1, <1>2, WritesOf DEF Writes, Preserves
<1>4. Count(o, D) = Len(A) /\ Count(o, S) = Len(B)
  <2> HIDE DEF A, B
  <2>1. QED
    BY <1>3, WordsAre
<1>5. t = IF Count(o, D) = Count(o, S) THEN Append_(o, D, 0) ELSE o
  BY DEF AsLong
<1>6. Differ(o, Append_(o, D, 0), D, Append(A, 0)) /\ Sole(Append_(o, D, 0), D)
  <2> HIDE DEF A
  <2>1. QED
    BY <1>2, <1>3, DataAssumption, AppendSound
<1>7. Writes(s, Append_(o, D, 0), D, g, Append(A, 0))
  BY <1>2, <1>6, ThenDiffer
<1>8. QED
  <2> HIDE DEF t, A, B, g
  <2>1. t = (IF Len(A) = Len(B) THEN Append_(o, D, 0) ELSE o)
    BY <1>4, <1>5
  <2>2. Writes(s, t, D, g, x) /\ Sole(t, D)
    BY <1>2, <1>6, <1>7, <2>1
  <2>3. QED
    BY <2>2 DEF t, A, B, g, o

(* The case of knuthDivImpl: a dividend greater than a divisor of at least *)
(* two words.                                                              *)
LEMMA LongDivides ==
  ASSUME NEW s, Proper(s), NEW D \in Alive(s) \ Scratch, D = "dividend",
         NEW S \in Alive(s) \ Scratch, S = "divisor",
         SignOf(s, D) = "POSITIVE", SignOf(s, S) = "POSITIVE",
         NEW q \in Alive(s) \ Scratch, NEW r \in Alive(s) \ Scratch, q # r,
         q # D, r # D, q # S, r # S,
         NEW m, NEW k, Holds(s, D, m), Holds(s, S, k), k < m, Count(s, S) # 1,
         NEW same \in BOOLEAN, NEW up \in BOOLEAN
  PROVE  LET kn == KnuthDivImpl(AsLong(CloneData(BeginWrite(s, D), D)), q, r, D, S)
             t == SetUnlessZero(SetFlags(kn, q, FlagsFor(same)), r, FlagsFor(up))
         IN  /\ Preserves(s, t, {D, q, r} \cup Scratch)
             /\ Holds(t, q, Signed(same, m \div k)) /\ Holds(t, r, Signed(up, m % k))
<1> DEFINE A == Words(s, D)
           B == Words(s, S)
           al == AsLong(CloneData(BeginWrite(s, D), D))
           kn == KnuthDivImpl(al, q, r, D, S)
           fl == SetFlags(kn, q, FlagsFor(same))
           t == SetUnlessZero(fl, r, FlagsFor(up))
           x == IF Len(A) = Len(B) THEN Append(A, 0) ELSE A
           Q == m \div k
           R == m % k
           X == {D, q, r} \cup Scratch
<1>1. D # S
  OBVIOUS
<1>2. A \in Seq(Word) /\ Trimmed(A) /\ ToNat(A) \in Nat /\ m = ToNat(A) /\ m > 0 /\ m \in Nat
  <2> HIDE DEF A
  <2>1. /\ A \in Seq(Word) /\ Trimmed(A) /\ ToNat(A) \in Nat
        /\ \/ SignOf(s, D) = "ZERO"
           \/ SignOf(s, D) = "POSITIVE" /\ m = ToNat(A) /\ ToNat(A) > 0
           \/ SignOf(s, D) = "NEGATIVE"
    BY HoldsCases DEF A
  <2>2. QED
    BY <2>1
<1>3. /\ B \in Seq(Word) /\ Trimmed(B) /\ ToNat(B) \in Nat /\ k = ToNat(B) /\ k > 0 /\ k \in Nat
      /\ B # << >> /\ Len(B) = Count(s, S)
  <2> HIDE DEF B
  <2>1. /\ B \in Seq(Word) /\ Trimmed(B) /\ ToNat(B) \in Nat /\ Len(B) = Count(s, S)
        /\ \/ SignOf(s, S) = "ZERO"
           \/ SignOf(s, S) = "POSITIVE" /\ B # << >> /\ k = ToNat(B) /\ ToNat(B) > 0
           \/ SignOf(s, S) = "NEGATIVE"
    BY HoldsCases DEF B
  <2>2. QED
    BY <2>1
<1>4. Writes(s, al, D, "POSITIVE", x) /\ Sole(al, D)
  BY AsLongSound
<1> HIDE DEF al, A, B
<1>5. Len(B) >= 2 /\ B[Len(B)] # 0 /\ Len(B) <= Len(A)
  <2>1. Len(B) \in Nat /\ Len(B) # 0 /\ Len(B) # 1
    BY <1>3, EmptySeq, LenProperties
  <2>2. B[Len(B)] # 0
    BY <1>3 DEF Trimmed
  <2>3. Len(B) <= Len(A)
    BY <1>2, <1>3, NotLonger
  <2>4. \A p \in Nat : p # 0 /\ p # 1 => p >= 2
    OBVIOUS
  <2>5. Len(B) >= 2
    BY <2>1, <2>4
  <2>6. QED
    BY <2>2, <2>3, <2>5
<1>6. /\ Proper(al) /\ D \in Alive(al) /\ S \in Alive(al) /\ q \in Alive(al) /\ r \in Alive(al)
      /\ Words(al, D) = x /\ SignOf(al, D) = "POSITIVE"
      /\ Words(al, S) = B /\ SignOf(al, S) = "POSITIVE"
  BY <1>1, <1>4 DEF Writes, Preserves, B
<1>7. Q \in Nat /\ R \in Nat /\ Q >= 1 /\ Abs(R) = R
  <2>1. k >= 1 /\ m > k
    BY <1>2, <1>3
  <2>2. Q \in Nat /\ R \in Nat /\ Q >= 1
    BY <1>2, <1>3, <2>1, DivisionNear
  <2> HIDE DEF Q, R
  <2>3. QED
    BY <2>2 DEF Abs
<1>8. /\ Preserves(al, kn, X) /\ q \in Alive(kn) /\ SignOf(kn, q) = "POSITIVE"
      /\ Makes(Words(kn, q), Q) /\ Holds(kn, r, R)
  <2>1. /\ Preserves(al, kn, X) /\ q \in Alive(kn) /\ SignOf(kn, q) = "POSITIVE"
        /\ Makes(Words(kn, q), ToNat(A) \div ToNat(B))
        /\ Holds(kn, r, ToNat(A) % ToNat(B))
    <3>1. /\ Proper(al) /\ D \in Alive(al) \ Scratch /\ S \in Alive(al) \ Scratch /\ D # S
          /\ Sole(al, D) /\ SignOf(al, D) = "POSITIVE" /\ SignOf(al, S) = "POSITIVE"
          /\ q \in Alive(al) \ Scratch /\ r \in Alive(al) \ Scratch /\ q # r /\ q # D /\ r # D
          /\ A \in Seq(Word) /\ B \in Seq(Word) /\ Words(al, S) = B /\ Words(al, D) = x
          /\ Len(B) >= 2 /\ B[Len(B)] # 0 /\ Len(B) <= Len(A)
      BY <1>1, <1>2, <1>3, <1>4, <1>5, <1>6
    <3>2. QED
      BY ONLY <3>1, KnuthDivides
  <2> HIDE DEF kn, X
  <2>2. QED
    BY <1>2, <1>3, <2>1
<1> HIDE DEF kn, Q, R
<1>9. Proper(kn) /\ r \in Alive(kn)
  BY <1>8 DEF Preserves, Holds
<1>10. Yields(kn, fl, q, Signed(same, Q))
  <2>1. /\ Represents(FlagsFor(same), Words(kn, q), Signed(same, Q)) /\ FlagsFor(same) \in Sign
    BY <1>7, <1>8, RepresentsSigned DEF Signed
  <2>2. Writes(kn, fl, q, FlagsFor(same), Words(kn, q))
    BY <1>8, <1>9, <2>1, SetFlagsSound
  <2> HIDE DEF fl
  <2>3. QED
    BY <2>1, <2>2, WritesYields
<1> HIDE DEF fl
<1>11. Proper(fl) /\ Holds(fl, r, R) /\ Preserves(kn, fl, {q}) /\ Holds(fl, q, Signed(same, Q))
  BY <1>8, <1>10 DEF Yields, Preserves, Holds
<1>12. Yields(fl, t, r, Signed(up, R))
  BY <1>7, <1>11, SetUnlessZeroYields
<1> HIDE DEF t
<1>13. Holds(t, q, Signed(same, Q)) /\ Holds(t, r, Signed(up, R)) /\ Preserves(fl, t, {r})
  BY <1>11, <1>12 DEF Yields, Preserves, Holds
<1>14. Preserves(s, t, X)
  <2>1. D \in X /\ q \in X /\ r \in X
    OBVIOUS
  <2> HIDE DEF X
  <2>2. Preserves(s, al, X) /\ Preserves(kn, fl, X) /\ Preserves(fl, t, X)
    BY <1>4, <1>11, <1>13, <2>1, PreservesMore DEF Writes
  <2>3. QED
    BY <1>8, <2>2, PreservesTwice
<1>15. QED
  BY <1>13, <1>14 DEF t, fl, kn, al, Q, R

(* The cases of div, on the positive copies of its operands.               *)
Copies == {"dividend", "divisor"}
LEMMA DivExact ==
  ASSUME NEW s, Proper(s), NEW a, NEW b, NEW v, NEW u, Holds(s, a, v), Holds(s, b, u), u # 0,
         NEW q \in Alive(s), NEW r \in Alive(s), q # r, q # a, q # b, r # a, r # b,
         (Scratch \cup Copies) \cap Alive(s) = {}
  PROVE  LET t == Div(s, q, r, a, b)
         IN  /\ Preserves(s, t, {q, r})
             /\ Holds(t, q, Integers!Quot(v, u)) /\ Holds(t, r, Integers!Rem(v, u))
<1> DEFINE D == "dividend"
           S == "divisor"
           A == Words(s, a)
           B == Words(s, b)
           c1 == CopyConstruct(s, D, a)
           s1 == SetFlags(c1, D, "POSITIVE")
           c2 == CopyConstruct(s1, S, b)
           s2 == SetFlags(c2, S, "POSITIVE")
           m == Abs(v)
           k == Abs(u)
           Q == m \div k
           R == m % k
           same == SignOf(s, a) = SignOf(s, b)
           up == SignOf(s, a) = "POSITIVE"
           X == {q, r} \cup Scratch \cup {D, S}
           t == Div(s, q, r, a, b)
           q1 == Assign(s2, q, a)
           qr == DivideAssignAndReminderByU32(q1, q, Words(q1, b)[1], r)
           kn == KnuthDivImpl(AsLong(CloneData(BeginWrite(s2, D), D)), q, r, D, S)
           c == Cmp(s2, D, S)
           fs == FlagsFor(same)
<1>1. /\ a \in Alive(s) /\ a \in Name /\ A \in Seq(Word) /\ v \in Int
      /\ \/ SignOf(s, a) = "ZERO" /\ v = 0
         \/ SignOf(s, a) = "POSITIVE" /\ A # << >> /\ v = ToNat(A) /\ ToNat(A) > 0
         \/ SignOf(s, a) = "NEGATIVE" /\ A # << >> /\ v = - ToNat(A) /\ ToNat(A) > 0
      /\ Trimmed(A) /\ ToNat(A) \in Nat
  <2> HIDE DEF A
  <2>1. QED
    BY HoldsCases DEF A
<1>2. /\ b \in Alive(s) /\ b \in Name /\ B \in Seq(Word) /\ u \in Int /\ Count(s, b) = Len(B)
      /\ \/ SignOf(s, b) = "POSITIVE" /\ B # << >> /\ u = ToNat(B) /\ ToNat(B) > 0
         \/ SignOf(s, b) = "NEGATIVE" /\ B # << >> /\ u = - ToNat(B) /\ ToNat(B) > 0
      /\ Trimmed(B) /\ ToNat(B) \in Nat
  <2> HIDE DEF B
  <2>1. QED
    BY HoldsCases DEF B
<1>3. /\ D # S /\ D \in Name /\ S \in Name /\ D \notin Alive(s) /\ S \notin Alive(s)
      /\ D \notin Scratch /\ S \notin Scratch /\ D = "dividend" /\ S = "divisor"
  BY NameAssumption DEF Local, Copies, Scratch
<1>4. /\ m \in Nat /\ k \in Nat /\ k >= 1
      /\ v # 0 => Integers!Quot(v, u) = Signed(v > 0 <=> u > 0, Q) /\ Integers!Rem(v, u) = Signed(v > 0, R)
      /\ v = 0 => Integers!Quot(v, u) = 0 /\ Integers!Rem(v, u) = 0
  BY <1>1, <1>2, Truncated
<1>5. t = IF SignOf(s, a) = "ZERO" THEN BeZero(BeZero(s2, q), r)
          ELSE IF Count(s, b) = 1 THEN SetUnlessZero(SetUnlessZero(qr, q, fs), r, SignOf(s, a))
          ELSE IF c = 0 THEN BeZero(BeUnit(s2, q, fs), r)
          ELSE IF c < 0 THEN SetFlags(Assign(BeZero(s2, q), r, D), r, SignOf(s, a))
          ELSE SetUnlessZero(SetFlags(kn, q, fs), r, SignOf(s, a))
  <2>1. t = CASE SignOf(s, a) = "ZERO" -> BeZero(BeZero(s2, q), r)
              [] SignOf(s, a) # "ZERO" /\ Count(s, b) = 1 ->
                   SetUnlessZero(SetUnlessZero(qr, q, fs), r, SignOf(s, a))
              [] OTHER ->
                   IF c = 0 THEN BeZero(BeUnit(s2, q, fs), r)
                   ELSE IF c < 0 THEN SetFlags(Assign(BeZero(s2, q), r, D), r, SignOf(s, a))
                   ELSE SetUnlessZero(SetFlags(kn, q, fs), r, SignOf(s, a))
    BY DEF Div
  <2> HIDE DEF t, s2, qr, kn, c, fs
  <2>2. QED
    BY <2>1
<1> HIDE DEF D, S
<1>6. Writes(s, s1, D, "POSITIVE", A)
  <2>1. Writes(s, c1, D, SignOf(s, a), A)
    BY <1>1, <1>3, CopyConstructSound
  <2> HIDE DEF c1
  <2>2. QED
    BY <2>1, ThenFlags DEF Sign
<1> HIDE DEF c1, s1
<1>7. Proper(s1) /\ D \in Alive(s1) /\ b \in Alive(s1) /\ Words(s1, b) = B
  BY <1>2, <1>3, <1>6 DEF Writes, Preserves
<1>8. Writes(s1, s2, S, "POSITIVE", B)
  <2>1. Writes(s1, c2, S, SignOf(s1, b), B)
    BY <1>3, <1>7, CopyConstructSound
  <2> HIDE DEF c2
  <2>2. QED
    BY <2>1, ThenFlags DEF Sign
<1> HIDE DEF c2, s2
<1>9. Preserves(s, s2, X) /\ Preserves(s, s2, {D, S})
  <2>1. Preserves(s, s1, {D, S}) /\ Preserves(s1, s2, {D, S})
    BY <1>6, <1>8, PreservesMore DEF Writes
  <2>2. Preserves(s, s2, {D, S})
    BY <2>1, PreservesTwice
  <2>3. QED
    BY <2>2, PreservesMore
<1>10. /\ Proper(s2) /\ q \in Alive(s2) /\ r \in Alive(s2) /\ q \in Name /\ r \in Name
       /\ q \notin {D, S} /\ r \notin {D, S}
       /\ Holds(s2, a, v) /\ Holds(s2, b, u) /\ Words(s2, b) = B
       /\ D \in Alive(s2) /\ S \in Alive(s2)
       /\ SignOf(s2, D) = "POSITIVE" /\ SignOf(s2, S) = "POSITIVE"
       /\ Words(s2, D) = A /\ Words(s2, S) = B
  <2>1. q \in Name /\ r \in Name /\ q \notin {D, S} /\ r \notin {D, S} /\ a \notin {D, S} /\ b \notin {D, S}
    BY <1>1, <1>2, <1>3 DEF Alive
  <2>2. /\ Proper(s2) /\ q \in Alive(s2) /\ r \in Alive(s2)
        /\ Holds(s2, a, v) /\ Holds(s2, b, u) /\ Words(s2, b) = B
    BY <1>1, <1>2, <1>9, <2>1 DEF Preserves, Holds
  <2>3. /\ D \in Alive(s2) /\ S \in Alive(s2)
        /\ SignOf(s2, D) = "POSITIVE" /\ SignOf(s2, S) = "POSITIVE"
        /\ Words(s2, D) = A /\ Words(s2, S) = B
    BY <1>3, <1>6, <1>7, <1>8 DEF Writes, Preserves
  <2>4. QED
    BY <2>1, <2>2, <2>3
<1>11. SUFFICES /\ Preserves(s2, t, X)
                /\ Holds(t, q, Integers!Quot(v, u)) /\ Holds(t, r, Integers!Rem(v, u))
  <2>1. ASSUME Preserves(s2, t, X) PROVE Preserves(s, t, X)
    BY <1>9, <2>1, PreservesTwice
  <2>2. ASSUME Preserves(s, t, X) PROVE Preserves(s, t, {q, r})
    <3> HIDE DEF t
    <3>1. \A y \in Alive(s) \ {q, r} : y \notin X
      BY <1>3
    <3>2. QED
      BY <2>2, <3>1 DEF Preserves
  <2>3. QED
    BY <2>1, <2>2
<1> HIDE DEF t
<1>12. X = {q, r} \cup Scratch \cup {D, S} /\ {q, r} \subseteq X /\ {D, q, r} \cup Scratch \subseteq X
  OBVIOUS
<1> HIDE DEF X
<1>13. CASE SignOf(s, a) = "ZERO"
  <2> DEFINE z == BeZero(s2, q)
  <2>1. t = BeZero(z, r) /\ v = 0
    BY <1>1, <1>5, <1>13
  <2>2. Yields(s2, z, q, 0)
    BY <1>10, ZeroYields
  <2> HIDE DEF z
  <2>3. Proper(z) /\ Holds(z, q, 0) /\ Preserves(s2, z, {q})
    BY <2>2 DEF Yields, Preserves
  <2>4. Yields(z, t, r, 0)
    BY <1>10, <2>1, <2>3, ZeroYields
  <2>5. Holds(t, q, 0) /\ Holds(t, r, 0) /\ Preserves(z, t, {r})
    BY <2>3, <2>4 DEF Yields, Preserves, Holds
  <2>6. Preserves(s2, t, X)
    BY <1>12, <2>3, <2>5, PreservesMore, PreservesTwice
  <2>7. QED
    BY <1>4, <2>1, <2>5, <2>6
<1>14. ASSUME SignOf(s, a) # "ZERO"
       PROVE  /\ v # 0 /\ m = ToNat(A) /\ k = ToNat(B) /\ SignOf(s, a) = FlagsFor(up)
              /\ same \in BOOLEAN /\ up \in BOOLEAN
              /\ Integers!Quot(v, u) = Signed(same, Q) /\ Integers!Rem(v, u) = Signed(up, R)
              /\ Holds(s2, D, m) /\ Holds(s2, S, k)
  <2>1. /\ v # 0 /\ m = ToNat(A) /\ k = ToNat(B) /\ (up <=> v > 0) /\ (same <=> (v > 0 <=> u > 0))
        /\ A # << >> /\ B # << >> /\ m \in Nat /\ k \in Nat
    <3> HIDE DEF A, B
    <3>1. QED
      BY <1>1, <1>2, <1>14 DEF Abs
  <2>2. SignOf(s, a) = FlagsFor(up)
    BY <1>1, <1>14 DEF FlagsFor
  <2>3. Holds(s2, D, m) /\ Holds(s2, S, k)
    <3>1. m = SignumOf("POSITIVE") * m /\ k = SignumOf("POSITIVE") * k
      <4> HIDE DEF m, k
      <4>1. QED
        BY <2>1 DEF SignumOf
    <3> HIDE DEF m, k, A, B
    <3>2. QED
      BY <1>1, <1>2, <1>10, <2>1, <3>1 DEF Holds, Represents, Sign
  <2> HIDE DEF m, k, Q, R, A, B, same, up
  <2>4. (v > 0 <=> u > 0) = same /\ (v > 0) = up
    BY <2>1 DEF same, up
  <2>5. same \in BOOLEAN /\ up \in BOOLEAN
    BY DEF same, up
  <2>6. QED
    BY <1>4, <2>1, <2>2, <2>3, <2>4, <2>5
<1>15. Q \in Nat /\ R \in Nat
  BY <1>4, DivisionNear
<1>16. CASE SignOf(s, a) # "ZERO" /\ Count(s, b) = 1
  <2> DEFINE w == B[1]
             f == SetUnlessZero(qr, q, fs)
  <2>1. w \in Word /\ w # 0 /\ w = k
    <3>1. Len(B) = 1 /\ B \in Seq(Int)
      BY <1>2, <1>16, WordsProperties
    <3>2. w \in Word /\ w # 0
      BY <1>2, <3>1 DEF Trimmed
    <3>3. ToNat(B) = w
      BY <3>1, ToNatSingle
    <3>4. QED
      BY <1>14, <1>16, <3>2, <3>3
  <2>2. Yields(s2, q1, q, v)
    BY <1>10, AssignYields
  <2> HIDE DEF q1, A, B, w, k, m, same, up
  <2>3. /\ Proper(q1) /\ Holds(q1, q, v) /\ r \in Alive(q1) /\ Words(q1, b) = B
        /\ Preserves(s2, q1, {q})
    BY <1>2, <1>10, <2>2 DEF Yields, Preserves, Holds
  <2>4. qr = DivideAssignAndReminderByU32(q1, q, w, r)
    BY <2>3 DEF w
  <2>5. /\ Preserves(q1, qr, {q, r})
        /\ Holds(qr, q, Signed(v > 0, m \div w)) /\ Holds(qr, r, Signed(v > 0, m % w))
    <3> HIDE DEF qr
    <3>1. v # 0
      BY <1>14, <1>16
    <3>2. QED
      BY <2>1, <2>3, <2>4, <3>1, ShortDivides DEF m
  <2> HIDE DEF qr
  <2>6. Holds(qr, q, Signed(v > 0, Q)) /\ Holds(qr, r, Signed(v > 0, R)) /\ Proper(qr)
    BY <2>1, <2>5 DEF Preserves
  <2> HIDE DEF Q, R
  <2>7. \A p \in {Q, R} : Abs(Signed(v > 0, p)) = p
    BY <1>15 DEF Abs, Signed
  <2>8. same \in BOOLEAN /\ up \in BOOLEAN /\ SignOf(s, a) = FlagsFor(up)
    BY <1>14, <1>16
  <2>9. Yields(qr, f, q, Signed(same, Q))
    BY <2>6, <2>7, <2>8, SetUnlessZeroYields
  <2> HIDE DEF f
  <2>10. Proper(f) /\ Holds(f, r, Signed(v > 0, R)) /\ Holds(f, q, Signed(same, Q)) /\ Preserves(qr, f, {q})
    BY <2>6, <2>9 DEF Yields, Preserves, Holds
  <2>11. t = SetUnlessZero(f, r, FlagsFor(up))
    BY <1>5, <1>16, <2>8 DEF f
  <2>12. Yields(f, t, r, Signed(up, R))
    BY <2>7, <2>8, <2>10, <2>11, SetUnlessZeroYields
  <2>13. Holds(t, q, Signed(same, Q)) /\ Holds(t, r, Signed(up, R)) /\ Preserves(f, t, {r})
    BY <2>10, <2>12 DEF Yields, Preserves, Holds
  <2>14. Preserves(s2, t, X)
    <3>1. Preserves(s2, q1, X) /\ Preserves(q1, qr, X) /\ Preserves(qr, f, X) /\ Preserves(f, t, X)
      BY <1>12, <2>3, <2>5, <2>10, <2>13, PreservesMore
    <3>2. QED
      BY <3>1, PreservesTwice
  <2>15. QED
    BY <1>14, <1>16, <2>13, <2>14
<1>17. ASSUME SignOf(s, a) # "ZERO" PROVE c = IF m < k THEN -1 ELSE IF m = k THEN 0 ELSE 1
  <2> HIDE DEF m, k
  <2>1. QED
    BY <1>10, <1>14, <1>17, CmpExact
<1>18. ASSUME SignOf(s, a) # "ZERO"
       PROVE  /\ m < k => c = -1 /\ Q = 0 /\ R = m
              /\ m = k => c = 0 /\ Q = 1 /\ R = 0
              /\ m > k => c = 1
              /\ m < k \/ m = k \/ m > k
  <2>1. c = IF m < k THEN -1 ELSE IF m = k THEN 0 ELSE 1
    BY <1>17, <1>18
  <2>2. (m < k => Q = 0 /\ R = m) /\ (m = k => Q = 1 /\ R = 0)
    BY <1>4, DivisionNear
  <2> HIDE DEF c, Q, R, m, k
  <2>3. QED
    BY <1>4, <2>1, <2>2
<1> HIDE DEF c, Q, R
<1>19. CASE SignOf(s, a) # "ZERO" /\ Count(s, b) # 1 /\ m = k
  <2> DEFINE z == BeUnit(s2, q, fs)
  <2>1. /\ t = BeZero(z, r) /\ Signed(same, Q) = (IF same THEN 1 ELSE -1) /\ R = 0
        /\ same \in BOOLEAN /\ up \in BOOLEAN
    <3> HIDE DEF z, same, up
    <3>1. QED
      BY <1>5, <1>14, <1>18, <1>19 DEF Signed, z
  <2>2. Yields(s2, z, q, IF same THEN 1 ELSE -1)
    <3> HIDE DEF same
    <3>1. QED
      BY <1>10, <2>1, UnitYields
  <2> HIDE DEF z, same, up
  <2>3. Proper(z) /\ Holds(z, q, Signed(same, Q)) /\ Preserves(s2, z, {q})
    BY <2>1, <2>2 DEF Yields, Preserves
  <2>4. Yields(z, t, r, 0)
    BY <1>10, <2>1, <2>3, ZeroYields
  <2>5. Holds(t, q, Signed(same, Q)) /\ Holds(t, r, 0) /\ Preserves(z, t, {r})
    BY <2>3, <2>4 DEF Yields, Preserves, Holds
  <2>6. Preserves(s2, t, X)
    BY <1>12, <2>3, <2>5, PreservesMore, PreservesTwice
  <2>7. Signed(up, R) = 0
    BY <2>1, SignedZero
  <2>8. QED
    BY <1>14, <1>19, <2>5, <2>6, <2>7
<1>20. CASE SignOf(s, a) # "ZERO" /\ Count(s, b) # 1 /\ m < k
  <2> DEFINE z == BeZero(s2, q)
             f == Assign(z, r, D)
  <2>1. /\ t = SetFlags(f, r, FlagsFor(up)) /\ Q = 0 /\ R = m
        /\ same \in BOOLEAN /\ up \in BOOLEAN /\ Holds(s2, D, m)
    <3> HIDE DEF f, same, up, m, k
    <3>1. c < 0 /\ c # 0
      BY <1>18, <1>20
    <3>2. QED
      BY <1>5, <1>14, <1>18, <1>20, <3>1 DEF f
  <2>2. Yields(s2, z, q, 0)
    BY <1>10, ZeroYields
  <2> HIDE DEF z
  <2>3. Proper(z) /\ Holds(z, q, 0) /\ Preserves(s2, z, {q}) /\ Holds(z, D, m)
    BY <1>10, <2>1, <2>2 DEF Yields, Preserves, Holds
  <2>4. Yields(z, f, r, m)
    BY <1>10, <2>3, AssignYields
  <2> HIDE DEF f
  <2>5. Proper(f) /\ Holds(f, r, m) /\ Holds(f, q, 0) /\ Preserves(z, f, {r})
    BY <2>3, <2>4 DEF Yields, Preserves, Holds
  <2>6. t = SetUnlessZero(f, r, FlagsFor(up))
    <3>1. SignOf(f, r) # "ZERO"
      <4>1. m # 0
        BY <1>1, <1>20 DEF Abs
      <4> HIDE DEF m
      <4>2. QED
        BY <2>5, <4>1, HoldsCases
    <3>2. QED
      BY <2>1, <3>1 DEF SetUnlessZero
  <2>7. Abs(m) = m
    BY <1>4 DEF Abs
  <2> HIDE DEF m, same, up
  <2>8. Yields(f, t, r, Signed(up, m))
    BY <2>1, <2>5, <2>6, <2>7, SetUnlessZeroYields
  <2>9. Holds(t, q, 0) /\ Holds(t, r, Signed(up, R)) /\ Preserves(f, t, {r})
    BY <2>1, <2>5, <2>8 DEF Yields, Preserves, Holds
  <2>10. Preserves(s2, t, X)
    BY <1>12, <2>3, <2>5, <2>9, PreservesMore, PreservesTwice
  <2>11. Signed(same, Q) = 0
    BY <2>1, SignedZero
  <2>12. QED
    BY <1>14, <1>20, <2>9, <2>10, <2>11
<1>21. CASE SignOf(s, a) # "ZERO" /\ Count(s, b) # 1 /\ m > k
  <2>1. /\ t = SetUnlessZero(SetFlags(kn, q, FlagsFor(same)), r, FlagsFor(up))
        /\ same \in BOOLEAN /\ up \in BOOLEAN /\ Holds(s2, D, m) /\ Holds(s2, S, k)
    <3> HIDE DEF kn, same, up, m, k
    <3>1. ~(c < 0) /\ c # 0
      BY <1>18, <1>21
    <3>2. QED
      BY <1>5, <1>14, <1>18, <1>21, <3>1
  <2> HIDE DEF m, k, same, up, A, B
  <2>2. /\ q \notin Scratch /\ r \notin Scratch /\ Count(s2, S) # 1 /\ k < m
    <3>1. Count(s2, S) = Len(B)
      BY <1>10, WordsAre DEF Proper
    <3>2. QED
      BY <1>2, <1>4, <1>21, <3>1
  <2>3. /\ Preserves(s2, t, {D, q, r} \cup Scratch)
        /\ Holds(t, q, Signed(same, m \div k)) /\ Holds(t, r, Signed(up, m % k))
    <3>1. /\ Proper(s2) /\ D \in Alive(s2) \ Scratch /\ D = "dividend"
          /\ S \in Alive(s2) \ Scratch /\ S = "divisor"
          /\ SignOf(s2, D) = "POSITIVE" /\ SignOf(s2, S) = "POSITIVE"
          /\ q \in Alive(s2) \ Scratch /\ r \in Alive(s2) \ Scratch /\ q # r
          /\ q # D /\ r # D /\ q # S /\ r # S
          /\ Holds(s2, D, m) /\ Holds(s2, S, k) /\ k < m /\ Count(s2, S) # 1
          /\ same \in BOOLEAN /\ up \in BOOLEAN
      BY <1>3, <1>10, <2>1, <2>2
    <3>2. QED
      BY ONLY <2>1, <3>1, LongDivides
  <2>4. Preserves(s2, t, X)
    BY <1>12, <2>3, PreservesMore
  <2>5. QED
    BY <1>14, <1>21, <2>3, <2>4 DEF Q, R
<1>22. QED
  <2> HIDE DEF m, k
  <2>1. m < k \/ m = k \/ m > k
    BY <1>4
  <2>2. QED
    BY <1>13, <1>16, <1>19, <1>20, <1>21, <2>1

(* beZero() brings a local to life.                                        *)
LEMMA BeZeroAlive ==
  ASSUME NEW s, Proper(s), NEW x \in Name
  PROVE  Alive(BeZero(s, x)) = Alive(s) \cup {x}
<1>1. Differ(s, NewSlice(s, x), x, << >>)
  BY NewSliceSound DEF Proper
<1>2. Alive(BeZero(s, x)) = Alive(NewSlice(s, x))
  BY DEF BeZero, Alive
<1>3. QED
  BY <1>1, <1>2 DEF Differ

(* assign(BigIntegerImpl &&): flags and words of a local that dies next.   *)
LEMMA MoveAssignHolds ==
  ASSUME NEW s, Proper(s), NEW x \in Name, NEW y, NEW v, Holds(s, y, v), x # y
  PROVE  LET t == MoveAssign(s, x, y)
         IN  Preserves(s, t, {x} \cup {y}) /\ Holds(t, x, v)
<1> DEFINE a == MoveSlice(s, x, y)
           m == s.num[y]
           t == MoveAssign(s, x, y)
<1>1. y \in Alive(s) /\ Represents(SignOf(s, y), Words(s, y), v)
  BY DEF Holds
<1>2. m \in Nums /\ m.sign = SignOf(s, y)
  BY <1>1 DEF Proper, Alive, SignOf
<1>3. Preserves(s, a, {x} \cup {y}) /\ x \in Alive(a) /\ Words(a, x) = Words(s, y)
  BY <1>1, MoveSliceWrites
<1>4. t = [a EXCEPT !.num[x] = m]
  BY DEF MoveAssign
<1> HIDE DEF a, m, t
<1>5. Proper(a)
  BY <1>3 DEF Preserves
<1>6. Writes(a, t, x, SignOf(s, y), Words(s, y))
  BY <1>2, <1>3, <1>4, <1>5, NumWrites
<1>7. Preserves(a, t, {x}) /\ Holds(t, x, v)
  BY <1>1, <1>6 DEF Writes, Holds
<1>8. Preserves(a, t, {x} \cup {y})
  BY <1>7, PreservesMore
<1>9. Preserves(s, t, {x} \cup {y})
  BY <1>3, <1>8, PreservesTwice
<1>10. QED
  BY <1>7, <1>9 DEF t

(* div() into q and r, one of which is then moved to the dividend.         *)
LEMMA DividedInto ==
  ASSUME NEW s, Proper(s), NEW x, NEW y, NEW v, NEW u, Holds(s, x, v), Holds(s, y, u), u # 0,
         NEW q \in Alive(s), NEW r \in Alive(s), q # r, q # x, q # y, r # x, r # y,
         (Scratch \cup Copies) \cap Alive(s) = {}
  PROVE  LET d == Div(s, q, r, x, y)
             X == {x} \cup {q} \cup {r}
         IN  /\ Preserves(s, MoveAssign(d, x, q), X)
             /\ Holds(MoveAssign(d, x, q), x, Integers!Quot(v, u))
             /\ Holds(MoveAssign(d, x, q), r, Integers!Rem(v, u))
             /\ Preserves(s, MoveAssign(d, x, r), X)
             /\ Holds(MoveAssign(d, x, r), x, Integers!Rem(v, u))
             /\ Holds(MoveAssign(d, x, r), q, Integers!Quot(v, u))
<1> DEFINE d == Div(s, q, r, x, y)
           X == {x} \cup {q} \cup {r}
           Q == Integers!Quot(v, u)
           R == Integers!Rem(v, u)
           tq == MoveAssign(d, x, q)
           tr == MoveAssign(d, x, r)
<1>1. Preserves(s, d, {q, r}) /\ Holds(d, q, Q) /\ Holds(d, r, R)
  BY DivExact
<1>2. x \in Name
  BY HoldsCases
<1> HIDE DEF d, Q, R
<1>3. Proper(d) /\ Preserves(s, d, X)
  <2>1. {q, r} \subseteq X
    OBVIOUS
  <2> HIDE DEF X
  <2>2. QED
    BY <1>1, <2>1, PreservesMore DEF Preserves
<1>4. Preserves(d, tq, {x} \cup {q}) /\ Holds(tq, x, Q)
  BY <1>1, <1>2, <1>3, MoveAssignHolds
<1>5. Preserves(d, tr, {x} \cup {r}) /\ Holds(tr, x, R)
  BY <1>1, <1>2, <1>3, MoveAssignHolds
<1> HIDE DEF tq, tr
<1>6. Holds(tq, r, R)
  BY <1>1, <1>4 DEF Preserves, Holds
<1>7. Holds(tr, q, Q)
  BY <1>1, <1>5 DEF Preserves, Holds
<1>8. Preserves(s, tq, X) /\ Preserves(s, tr, X)
  <2>1. {x} \cup {q} \subseteq X /\ {x} \cup {r} \subseteq X
    OBVIOUS
  <2> HIDE DEF X
  <2>2. Preserves(d, tq, X) /\ Preserves(d, tr, X)
    BY <1>4, <1>5, <2>1, PreservesMore
  <2>3. QED
    BY <1>3, <2>2, PreservesTwice
<1>9. QED
  BY <1>4, <1>5, <1>6, <1>7, <1>8 DEF tq, tr, d, Q, R

(* No call that divides is under way.                                      *)
Undivided(s) == "q" \notin Alive(s) /\ "r" \notin Alive(s)
                /\ (Scratch \cup Copies) \cap Alive(s) = {}

(* A local quotient or remainder lives next to the caller's objects.       *)
LEMMA LocalLives ==
  ASSUME NEW s, Proper(s), NEW l \in {"q", "r"}, l \notin Alive(s),
         (Scratch \cup Copies) \cap Alive(s) = {}
  PROVE  LET z == BeZero(s, l)
         IN  /\ Proper(z) /\ l \in Alive(z) /\ l \in Name
             /\ Preserves(s, z, {l}) /\ Alive(z) = Alive(s) \cup {l}
             /\ (Scratch \cup Copies) \cap Alive(z) = {}
             /\ \A y, v : Holds(s, y, v) => Holds(z, y, v)
<1> DEFINE z == BeZero(s, l)
<1>1. l \in Name /\ l \notin Scratch \cup Copies
  BY NameAssumption DEF Local, Scratch, Copies
<1>2. Yields(s, z, l, 0) /\ Alive(z) = Alive(s) \cup {l}
  BY <1>1, ZeroYields, BeZeroAlive
<1> HIDE DEF z
<1>3. Proper(z) /\ l \in Alive(z) /\ Preserves(s, z, {l})
  BY <1>2 DEF Yields, Preserves, Holds
<1>4. \A y, v : Holds(s, y, v) => Holds(z, y, v)
  BY <1>3 DEF Preserves, Holds
<1>5. QED
  BY <1>1, <1>2, <1>3, <1>4 DEF z

(* divideAssign().                                                         *)
LEMMA DivAssignYields ==
  ASSUME NEW s, Proper(s), Undivided(s), NEW x, NEW y, NEW v, NEW u,
         Holds(s, x, v), Holds(s, y, u), u # 0
  PROVE  Yields(s, DivAssign(s, x, y), x, Integers!Quot(v, u))
<1> DEFINE q == "q"
           r == "r"
           z == BeZero(s, r)
           o == BeZero(z, q)
           t == DivAssign(s, x, y)
<1>1. /\ q \in {"q", "r"} /\ r \in {"q", "r"} /\ q # r /\ q \notin Alive(s) /\ r \notin Alive(s)
      /\ (Scratch \cup Copies) \cap Alive(s) = {} /\ x \in Alive(s) /\ y \in Alive(s)
      /\ t = MoveAssign(Div(o, q, r, x, y), x, q)
  BY DEF Undivided, Holds, DivAssign
<1> HIDE DEF q, r
<1>2. /\ Proper(z) /\ r \in Alive(z) /\ Preserves(s, z, {r}) /\ Alive(z) = Alive(s) \cup {r}
      /\ (Scratch \cup Copies) \cap Alive(z) = {} /\ Holds(z, x, v) /\ Holds(z, y, u)
  BY <1>1, LocalLives
<1> HIDE DEF z
<1>3. /\ Proper(o) /\ q \in Alive(o) /\ Preserves(z, o, {q}) /\ Alive(o) = Alive(z) \cup {q}
      /\ (Scratch \cup Copies) \cap Alive(o) = {} /\ Holds(o, x, v) /\ Holds(o, y, u)
  <2>1. q \notin Alive(z)
    BY <1>1, <1>2
  <2>2. QED
    BY <1>1, <1>2, <2>1, LocalLives
<1> HIDE DEF o, t
<1>4. Preserves(o, t, {x} \cup {q} \cup {r}) /\ Holds(t, x, Integers!Quot(v, u))
  <2>1. r \in Alive(o) /\ q # x /\ q # y /\ r # x /\ r # y
    BY <1>1, <1>2, <1>3
  <2>2. QED
    BY <1>1, <1>3, <2>1, DividedInto
<1>5. Preserves(s, t, {x} \cup {q} \cup {r})
  <2> DEFINE X == {x} \cup {q} \cup {r}
  <2>1. {q} \subseteq X /\ {r} \subseteq X
    OBVIOUS
  <2> HIDE DEF X
  <2>2. Preserves(s, z, X) /\ Preserves(z, o, X)
    BY <1>2, <1>3, <2>1, PreservesMore
  <2>3. Preserves(o, t, X)
    BY <1>4 DEF X
  <2>4. Preserves(s, t, X)
    BY <2>2, <2>3, PreservesTwice
  <2>5. QED
    BY <2>4 DEF X
<1>6. Preserves(s, t, {x})
  BY <1>1, <1>5, PreservesDead
<1>7. QED
  BY <1>4, <1>6 DEF Yields, t

(* divideAssignAndReminder() and modAssignAndQuotient(): the other result  *)
(* goes to an object.                                                      *)
LEMMA DividesBoth ==
  ASSUME NEW s, Proper(s), Undivided(s), NEW x, NEW y, NEW v, NEW u,
         Holds(s, x, v), Holds(s, y, u), u # 0, NEW r \in Alive(s), r # x, r # y
  PROVE  LET t == DivideAssignAndReminder(s, x, y, r)
             m == ModAssignAndQuotient(s, x, y, r)
         IN  /\ Preserves(s, t, {x} \cup {r})
             /\ Holds(t, x, Integers!Quot(v, u)) /\ Holds(t, r, Integers!Rem(v, u))
             /\ Preserves(s, m, {x} \cup {r})
             /\ Holds(m, x, Integers!Rem(v, u)) /\ Holds(m, r, Integers!Quot(v, u))
<1> DEFINE t == DivideAssignAndReminder(s, x, y, r)
           m == ModAssignAndQuotient(s, x, y, r)
           Q == Integers!Quot(v, u)
           R == Integers!Rem(v, u)
           X == {x} \cup {r}
<1>1. /\ (Scratch \cup Copies) \cap Alive(s) = {} /\ x \in Alive(s) /\ y \in Alive(s)
      /\ "q" \notin Alive(s) /\ "r" \notin Alive(s)
  BY DEF Undivided, Holds
<1>2. ASSUME NEW l \in {"q", "r"}, l \notin Alive(s)
      PROVE  LET z == BeZero(s, l)
             IN  /\ Preserves(s, MoveAssign(Div(z, l, r, x, y), x, l), X)
                 /\ Holds(MoveAssign(Div(z, l, r, x, y), x, l), x, Q)
                 /\ Holds(MoveAssign(Div(z, l, r, x, y), x, l), r, R)
                 /\ Preserves(s, MoveAssign(Div(z, r, l, x, y), x, l), X)
                 /\ Holds(MoveAssign(Div(z, r, l, x, y), x, l), x, R)
                 /\ Holds(MoveAssign(Div(z, r, l, x, y), x, l), r, Q)
  <2> DEFINE z == BeZero(s, l)
             Y == {x} \cup {l} \cup {r}
             a == MoveAssign(Div(z, l, r, x, y), x, l)
             b == MoveAssign(Div(z, r, l, x, y), x, l)
  <2>1. /\ Proper(z) /\ l \in Alive(z) /\ Preserves(s, z, {l}) /\ Alive(z) = Alive(s) \cup {l}
        /\ (Scratch \cup Copies) \cap Alive(z) = {} /\ Holds(z, x, v) /\ Holds(z, y, u)
    BY <1>1, <1>2, LocalLives
  <2> HIDE DEF z
  <2>2. r \in Alive(z) /\ l # r /\ l # x /\ l # y
    BY <1>1, <1>2, <2>1
  <2>3. Preserves(z, a, Y) /\ Holds(a, x, Q) /\ Holds(a, r, R)
    BY <2>1, <2>2, DividedInto
  <2>4. Preserves(z, b, {x} \cup {r} \cup {l}) /\ Holds(b, x, R) /\ Holds(b, r, Q)
    BY <2>1, <2>2, DividedInto
  <2> HIDE DEF a, b, Q, R
  <2>5. {l} \subseteq Y /\ {x} \cup {r} \cup {l} \subseteq Y /\ Y \subseteq X \cup {l}
    OBVIOUS
  <2> HIDE DEF Y, X
  <2>6. Preserves(s, z, Y) /\ Preserves(z, b, Y)
    BY <2>1, <2>4, <2>5, PreservesMore
  <2>7. Preserves(s, a, Y) /\ Preserves(s, b, Y)
    BY <2>3, <2>6, PreservesTwice
  <2>8. Preserves(s, a, X) /\ Preserves(s, b, X)
    BY <1>2, <2>5, <2>7, PreservesMore, PreservesDead
  <2>9. QED
    BY <2>3, <2>4, <2>8 DEF a, b, z
<1>3. /\ t = MoveAssign(Div(BeZero(s, "q"), "q", r, x, y), x, "q")
      /\ m = MoveAssign(Div(BeZero(s, "r"), r, "r", x, y), x, "r")
  BY DEF DivideAssignAndReminder, ModAssignAndQuotient
<1> HIDE DEF t, m, Q, R, X
<1>4. Preserves(s, t, X) /\ Holds(t, x, Q) /\ Holds(t, r, R)
  BY <1>1, <1>2, <1>3
<1>5. Preserves(s, m, X) /\ Holds(m, x, R) /\ Holds(m, r, Q)
  BY <1>1, <1>2, <1>3
<1>6. QED
  BY <1>4, <1>5 DEF t, m, Q, R, X
-----------------------------------------------------------------------------
(* The state between two calls: the objects live, no local does.           *)
LEMMA StateSound ==
  ASSUME TypeOK
  PROVE  Proper(st) /\ Alive(st) = Obj
<1>1. /\ st.mem = mem /\ DOMAIN st = {"mem", "mag", "num"}
      /\ st.mag = [x \in Name |-> IF x \in Obj THEN mag[x] ELSE Dead]
      /\ st.num = [x \in Name |-> IF x \in Obj THEN num[x] ELSE ZeroNum]
  BY DEF st
<1>2. Obj \subseteq Name /\ Dead \notin Slices /\ ZeroNum \in Nums
  <2>1. Dead \notin Slices
    BY AddrAssumption DEF Dead, Slices, Nowhere
  <2>2. QED
    BY <2>1, NameAssumption DEF ZeroNum, Nums, Sign
<1>3. \A x \in Obj : st.mag[x] = mag[x] /\ st.num[x] = num[x] /\ Vec(st, x) = mem[mag[x].ptr]
  BY <1>1, <1>2 DEF Vec
<1>4. /\ mem \in [Addr -> Seq(Data)] /\ num \in [Obj -> Nums] /\ mag \in [Obj -> Slices]
      /\ \A x \in Obj : mag[x].lo <= mag[x].hi /\ mag[x].hi <= Len(mem[mag[x].ptr])
  BY WordsAssumption DEF TypeOK, Nums, Slices
<1>5. st.mag \in [Name -> Slices \cup {Dead}] /\ st.num \in [Name -> Nums]
  BY <1>1, <1>2, <1>4
<1>6. IsStore(st)
  BY <1>1, <1>4, <1>5 DEF IsStore
<1>7. \A x \in Name \ Obj : st.mag[x] = Dead
  BY <1>1
<1>8. Alive(st) = Obj
  BY <1>2, <1>3, <1>4, <1>7 DEF Alive
<1>9. Sound(st)
  BY <1>3, <1>4, <1>6, <1>8 DEF Sound, Inside
<1>10. QED
  BY <1>1, <1>5, <1>8, <1>9 DEF Proper

(* What the invariants say of an object, and the number it stands for.     *)
Stands(x, v) == Represents(SignOf(st, x), Words(st, x), v)
Changes(x, v) == [[y \in Obj |-> Value(st, y)] EXCEPT ![x] = v]

(* Value, sign and top word of an object whose words and flags stand for v.*)
LEMMA ValueIs ==
  ASSUME NEW s, NEW x, NEW v, Represents(SignOf(s, x), Words(s, x), v)
  PROVE  /\ Value(s, x) = v
         /\ SignOf(s, x) = "ZERO" <=> Words(s, x) = << >>
         /\ Words(s, x) # << >> => Words(s, x)[Len(Words(s, x))] # 0
<1>1. Signum(s, x) = SignumOf(SignOf(s, x))
  BY DEF Signum, SignumOf
<1>2. QED
  BY <1>1 DEF Value, Represents, Trimmed

(* Between calls every object holds its value, and no other is alive.      *)
LEMMA StateHolds ==
  ASSUME TypeOK, Normalised, NEW x \in Obj
  PROVE  /\ Proper(st) /\ Alive(st) = Obj /\ x \in Name
         /\ Holds(st, x, Value(st, x)) /\ Stands(x, Value(st, x)) /\ Value(st, x) \in Int
<1>1. Proper(st) /\ Alive(st) = Obj
  BY StateSound
<1>2. Signum(st, x) = SignumOf(SignOf(st, x))
  BY DEF Signum, SignumOf
<1>3. SignOf(st, x) \in Sign /\ x \in Name
  <2>1. x \in Alive(st)
    BY <1>1
  <2>2. x \in Name /\ st.num[x] \in Nums
    BY <1>1, <2>1 DEF Proper, Alive
  <2>3. QED
    BY <2>2 DEF SignOf, Nums
<1>4. Words(st, x) \in Seq(Word)
  BY <1>1, WordsAre DEF Proper
<1>5. Trimmed(Words(st, x)) /\ (SignOf(st, x) = "ZERO" <=> Words(st, x) = << >>)
  BY DEF Normalised, Trimmed
<1>6. Stands(x, Value(st, x))
  BY <1>2, <1>3, <1>4, <1>5 DEF Stands, Represents, Value
<1>7. Holds(st, x, Value(st, x))
  BY <1>1, <1>6 DEF Holds, Stands
<1>8. QED
  BY <1>1, <1>3, <1>6, <1>7, HoldsCases

(* A call returns: freeing its locals, and the vectors nobody uses any     *)
(* more, changes no object.                                                *)
LEMMA ReturnSound ==
  ASSUME NEW STATE s, Proper(s), Obj \subseteq Alive(s), NEW STATE c, Return(s, c)
  PROVE  /\ TypeOK' /\ call' = c
         /\ \A x \in Obj : Words(st, x)' = Words(s, x) /\ SignOf(st, x)' = SignOf(s, x)
<1>1. /\ mem' = [p \in Addr |-> IF \E x \in Obj : s.mag[x].ptr = p THEN s.mem[p] ELSE << >>]
      /\ mag' = [x \in Obj |-> s.mag[x]]
      /\ num' = [x \in Obj |-> s.num[x]]
      /\ call' = c
  BY DEF Return, Leave
<1>2. /\ s.mem \in [Addr -> Seq(Word)] /\ s.num \in [Name -> Nums] /\ Obj \subseteq Name
      /\ \A x \in Obj : s.mag[x] \in Slices /\ Inside(s, x)
  BY WordsAssumption, NameAssumption DEF Proper, Sound, IsStore, Alive
<1>3. /\ mem' \in [Addr -> Seq(Word)] /\ mag' \in [Obj -> Slices] /\ num' \in [Obj -> Nums]
  BY <1>1, <1>2
<1>4. ASSUME NEW x \in Obj
      PROVE  /\ mag'[x] = s.mag[x] /\ num'[x] = s.num[x] /\ mem'[mag'[x].ptr] = s.mem[s.mag[x].ptr]
             /\ mag'[x].lo <= mag'[x].hi /\ mag'[x].hi <= Len(mem'[mag'[x].ptr])
  <2>1. s.mag[x].ptr \in Addr /\ Inside(s, x)
    BY <1>2 DEF Slices
  <2>2. mag'[x] = s.mag[x] /\ num'[x] = s.num[x] /\ mem'[mag'[x].ptr] = s.mem[s.mag[x].ptr]
    BY <1>1, <2>1
  <2>3. QED
    BY <2>1, <2>2 DEF Inside, Vec
<1>5. TypeOK'
  BY <1>3, <1>4 DEF TypeOK, Nums, Slices
<1>6. ASSUME NEW x \in Obj
      PROVE  Words(st, x)' = Words(s, x) /\ SignOf(st, x)' = SignOf(s, x)
  <2>1. x \in Name
    BY <1>2
  <2>2. st'.mag[x] = mag'[x] /\ st'.num[x] = num'[x] /\ st'.mem = mem'
    BY <2>1 DEF st
  <2>3. QED
    BY <1>4, <2>2 DEF Words, Vec, SignOf
<1>7. QED
  BY <1>1, <1>5, <1>6

(* A step that makes x stand for v, and no other object notices.           *)
Turns(x, v, c) ==
  /\ TypeOK' /\ call' = c
  /\ Represents(SignOf(st, x)', Words(st, x)', v)
  /\ \A y \in Obj \ {x} : Words(st, y)' = Words(st, y) /\ SignOf(st, y)' = SignOf(st, y)

(* A call that yields v in x, and returns, makes the object x stand for v. *)
LEMMA CallTurns ==
  ASSUME TypeOK, NEW STATE s, NEW x \in Obj, NEW STATE v, NEW STATE c,
         Yields(st, s, x, v), Return(s, c)
  PROVE  Turns(x, v, c)
<1>1. /\ Proper(s) /\ x \in Alive(s) /\ Represents(SignOf(s, x), Words(s, x), v)
      /\ \A y \in Obj \ {x} : /\ y \in Alive(s)
                              /\ Words(s, y) = Words(st, y) /\ SignOf(s, y) = SignOf(st, y)
  BY StateSound DEF Yields, Preserves, Holds
<1>2. Obj \subseteq Alive(s)
  BY <1>1
<1>3. /\ TypeOK' /\ call' = c
      /\ \A y \in Obj : Words(st, y)' = Words(s, y) /\ SignOf(st, y)' = SignOf(s, y)
  BY <1>1, <1>2, ReturnSound
<1>4. QED
  BY <1>1, <1>3 DEF Turns

(* What a step is to keep and to do: the invariants, its integer, and all  *)
(* objects it was not asked to write.                                      *)
SparesOthers ==
  \A x \in Obj \ Written(call') : Words(st, x)' = Words(st, x) /\ SignOf(st, x)' = SignOf(st, x)

(* Such a step keeps the invariants and spares the other objects.          *)
LEMMA TurnsSound ==
  ASSUME TypeOK, Normalised, NEW x \in Obj, NEW STATE v, NEW STATE c, Turns(x, v, c), c[2] = x
  PROVE  /\ TypeOK' /\ Normalised' /\ SparesOthers
         /\ Integers!Become(c, x, v)
<1>1. /\ TypeOK' /\ call' = c
      /\ Represents(SignOf(st, x)', Words(st, x)', v)
      /\ \A y \in Obj \ {x} : Words(st, y)' = Words(st, y) /\ SignOf(st, y)' = SignOf(st, y)
  BY DEF Turns
<1>2. \A y \in Obj : Represents(SignOf(st, y), Words(st, y), Value(st, y))
  BY StateHolds DEF Stands
<1>3. \A y \in Obj \ {x} : Represents(SignOf(st, y)', Words(st, y)', Value(st, y))
  BY <1>1, <1>2
<1>4. \A y \in Obj : Represents(SignOf(st, y)', Words(st, y)', IF y = x THEN v ELSE Value(st, y))
  BY <1>1, <1>3
<1>5. \A y \in Obj : /\ Value(st, y)' = IF y = x THEN v ELSE Value(st, y)
                     /\ SignOf(st, y)' = "ZERO" <=> Words(st, y)' = << >>
                     /\ Words(st, y)' # << >> => Words(st, y)'[Len(Words(st, y)')] # 0
  BY <1>4, ValueIs
<1>6. Normalised'
  BY <1>5 DEF Normalised
<1>7. [y \in Obj |-> Value(st, y)]' = Changes(x, v)
  BY <1>5 DEF Changes
<1>8. Integers!Become(c, x, v)
  BY <1>1, <1>7 DEF Integers!Become, Changes
<1>9. x \in Written(c)
  BY DEF Written
<1>10. SparesOthers
  BY <1>1, <1>9 DEF SparesOthers
<1>11. QED
  BY <1>1, <1>6, <1>8, <1>10

(* One call, and what IntegerStore does.                                   *)
Now(x) == [y \in Obj |-> Value(st, y)][x]
Performs(c, x, v) == TypeOK' /\ Normalised' /\ SparesOthers /\ Integers!Become(c, x, v)

(* The integers IntegerStore sees are what the objects hold.               *)
LEMMA NowHolds ==
  ASSUME TypeOK, Normalised, NEW x \in Obj
  PROVE  /\ Proper(st) /\ Alive(st) = Obj /\ x \in Name
         /\ Holds(st, x, Now(x)) /\ Now(x) \in Int
         /\ "copy" \notin Alive(st) /\ "product" \notin Alive(st) /\ "temp" \notin Alive(st)
<1>1. Now(x) = Value(st, x)
  BY DEF Now
<1>2. "copy" \notin Obj /\ "product" \notin Obj /\ "temp" \notin Obj
  BY NameAssumption DEF Local
<1>3. QED
  BY <1>1, <1>2, StateHolds

(* So a call that yields what its specification says performs it.          *)
LEMMA CallPerforms ==
  ASSUME TypeOK, Normalised, NEW x \in Obj, NEW STATE s, NEW STATE v, NEW STATE c,
         Yields(st, s, x, v), Return(s, c), c[2] = x
  PROVE  Performs(c, x, v)
  BY CallTurns, TurnsSound DEF Performs

(* A call with two results, to two objects.                                *)
LEMMA CallPerformsBoth ==
  ASSUME TypeOK, Normalised, NEW x \in Obj, NEW y \in Obj, x # y,
         NEW STATE s, NEW STATE v, NEW STATE u, NEW STATE c,
         Preserves(st, s, {x} \cup {y}), Holds(s, x, v), Holds(s, y, u),
         Return(s, c), Written(c) = {x, y}
  PROVE  /\ TypeOK' /\ Normalised' /\ SparesOthers /\ call' = c
         /\ [z \in Obj |-> Value(st, z)]'
              = [[z \in Obj |-> Value(st, z)] EXCEPT ![x] = v, ![y] = u]
<1> DEFINE new == [[z \in Obj |-> Value(st, z)] EXCEPT ![x] = v, ![y] = u]
<1>1. /\ Proper(s) /\ Obj \subseteq Alive(s)
      /\ \A z \in Obj \ {x, y} : Words(s, z) = Words(st, z) /\ SignOf(s, z) = SignOf(st, z)
  BY StateSound DEF Preserves, Holds
<1>2. /\ TypeOK' /\ call' = c
      /\ \A z \in Obj : Words(st, z)' = Words(s, z) /\ SignOf(st, z)' = SignOf(s, z)
  BY <1>1, ReturnSound
<1>3. \A z \in Obj : Represents(SignOf(s, z), Words(s, z), new[z])
  <2>1. \A z \in Obj \ {x, y} : Represents(SignOf(s, z), Words(s, z), Value(st, z))
    BY <1>1, StateHolds DEF Stands
  <2>2. /\ Represents(SignOf(s, x), Words(s, x), v)
        /\ Represents(SignOf(s, y), Words(s, y), u)
    BY DEF Holds
  <2>3. QED
    BY <2>1, <2>2
<1> HIDE DEF new
<1>4. \A z \in Obj : Represents(SignOf(st, z)', Words(st, z)', new[z])
  BY <1>2, <1>3
<1>5. \A z \in Obj : /\ Value(st, z)' = new[z]
                     /\ SignOf(st, z)' = "ZERO" <=> Words(st, z)' = << >>
                     /\ Words(st, z)' # << >> => Words(st, z)'[Len(Words(st, z)')] # 0
  BY <1>4, ValueIs
<1>6. Normalised'
  BY <1>5 DEF Normalised
<1>7. [z \in Obj |-> Value(st, z)]' = new
  BY <1>5 DEF new
<1>8. SparesOthers
  BY <1>1, <1>2 DEF SparesOthers
<1>9. QED
  BY <1>2, <1>6, <1>7, <1>8 DEF new

(* Loads of WordMax and - WordMax leave a leading zero word: see assign.   *)
LoadsNormalised == \A i \in I64 : Abs(i) # WordMax

(* An int64_t the constructors take fits in two words.                     *)
LEMMA LoadBounds ==
  ASSUME LoadsNormalised, NEW i \in I64
  PROVE  i \in Int /\ Abs(i) # WordMax /\ 2 * Abs(i) < Base * Base
<1> DEFINE b == Base * Base
<1>1. i \in Int /\ - b < 2 * i /\ 2 * i < b /\ Abs(i) # WordMax
  BY I64Assumption DEF LoadsNormalised
<1>2. b \in Int
  BY BaseProperties
<1> HIDE DEF b
<1>3. 2 * Abs(i) < b
  BY <1>1, <1>2 DEF Abs
<1>4. QED
  BY <1>1, <1>3 DEF b

(* Construction and copies.                                                *)
LEMMA ConstructorsStep ==
  ASSUME TypeOK, Normalised, LoadsNormalised, Constructors
  PROVE  TypeOK' /\ Normalised' /\ SparesOthers /\ Integers!Constructors
<1>1. PICK x \in Obj : \/ Construct(x)
                       \/ \E i \in I64 : AssignInt(x, i)
                       \/ \E y \in Obj : AssignOther(x, y)
                       \/ \E y \in Obj : Swap(x, y)
  BY DEF Constructors
<1>2. Proper(st) /\ Alive(st) = Obj /\ x \in Name
  BY NowHolds
<1>3. CASE Construct(x)
  <2>1. Yields(st, BeZero(st, x), x, 0)
    BY <1>2, ZeroYields
  <2>2. Performs(<<"zero", x>>, x, 0)
    BY <1>3, <2>1, CallPerforms DEF Construct
  <2>3. QED
    BY <2>2 DEF Performs, Integers!Constructors
<1>4. CASE \E i \in I64 : AssignInt(x, i)
  <2>1. PICK i \in I64 : AssignInt(x, i)
    BY <1>4
  <2>2. Yields(st, AssignI64(st, x, i), x, i)
    BY <1>2, LoadBounds, AssignI64Yields
  <2>3. Performs(<<"assignI64", x, i>>, x, i)
    BY <2>1, <2>2, CallPerforms DEF AssignInt
  <2>4. QED
    BY <2>3 DEF Performs, Integers!Constructors
<1>5. CASE \E y \in Obj : AssignOther(x, y)
  <2>1. PICK y \in Obj : AssignOther(x, y)
    BY <1>5
  <2>2. Yields(st, Assign(st, x, y), x, Now(y))
    BY <1>2, NowHolds, AssignYields
  <2>3. Performs(<<"assign", x, y>>, x, Now(y))
    BY <2>1, <2>2, CallPerforms DEF AssignOther
  <2>4. QED
    BY <2>3 DEF Performs, Integers!Constructors, Now
<1>6. CASE \E y \in Obj : Swap(x, y)
  <2>1. PICK y \in Obj : Swap(x, y)
    BY <1>6
  <2> DEFINE s == SwapWith(st, x, y)
             c == <<"swap", x, y>>
             new == [[z \in Obj |-> Value(st, z)] EXCEPT ![x] = Value(st, y), ![y] = Value(st, x)]
  <2>2. x # y /\ Return(s, c)
    BY <2>1 DEF Swap
  <2>3. Holds(st, x, Value(st, x)) /\ Holds(st, y, Value(st, y))
    BY StateHolds
  <2>4. Preserves(st, s, {x, y}) /\ Holds(s, x, Value(st, y)) /\ Holds(s, y, Value(st, x))
    BY <1>2, <2>2, <2>3, SwapWithSound
  <2>5. {x, y} = {x} \cup {y} /\ Written(c) = {x, y}
    BY DEF Written
  <2> HIDE DEF s, c
  <2>6. /\ TypeOK' /\ Normalised' /\ SparesOthers /\ call' = c
        /\ [z \in Obj |-> Value(st, z)]' = new
    BY <2>2, <2>4, <2>5, CallPerformsBoth
  <2>7. Integers!Constructors
    <3>1. [z \in Obj |-> Value(st, z)][x] = Value(st, x) /\ [z \in Obj |-> Value(st, z)][y] = Value(st, y)
      OBVIOUS
    <3>2. QED
      BY <2>6, <3>1 DEF Integers!Constructors, new, c
  <2>8. QED
    BY <2>6, <2>7
<1>7. QED
  BY <1>1, <1>3, <1>4, <1>5, <1>6

(* Reads, and changes of the sign.                                         *)
LEMMA SignsStep ==
  ASSUME TypeOK, Normalised, Signs
  PROVE  TypeOK' /\ Normalised' /\ SparesOthers /\ Integers!Signs
<1>1. PICK x \in Obj : ReadU32(x) \/ NegateSelf(x) \/ AbsoluteSelf(x)
  BY DEF Signs
<1>2. Proper(st) /\ Holds(st, x, Now(x)) /\ Now(x) \in Int
  BY NowHolds
<1>3. CASE ReadU32(x)
  <2>1. Yields(st, GetU32(st, x, 0), x, Now(x))
    BY <1>2, GetU32Yields
  <2>2. Performs(<<"read", x>>, x, Now(x))
    BY <1>3, <2>1, CallPerforms DEF ReadU32
  <2>3. QED
    BY <2>2 DEF Performs, Integers!Signs, Now
<1>4. CASE NegateSelf(x)
  <2>1. Yields(st, Negate(st, x), x, - Now(x))
    BY <1>2, NegateYields
  <2>2. Performs(<<"negate", x>>, x, - Now(x))
    BY <1>4, <2>1, CallPerforms DEF NegateSelf
  <2>3. QED
    BY <2>2 DEF Performs, Integers!Signs, Now
<1>5. CASE AbsoluteSelf(x)
  <2>1. Yields(st, AbsSelf(st, x), x, Abs(Now(x)))
    BY <1>2, AbsSelfYields
  <2>2. Abs(Now(x)) = Integers!Magn(Now(x))
    BY DEF Abs, Integers!Magn
  <2>3. Yields(st, AbsSelf(st, x), x, Integers!Magn(Now(x)))
    BY <2>1, <2>2
  <2>4. Performs(<<"abs", x>>, x, Integers!Magn(Now(x)))
    BY <1>5, <2>3, CallPerforms DEF AbsoluteSelf
  <2>5. QED
    BY <2>4 DEF Performs, Integers!Signs, Now
<1>6. QED
  BY <1>1, <1>3, <1>4, <1>5

(* BigIntegerImpl temp(i64): one local more lives, and no other.           *)
LEMMA AssignI64Alive ==
  ASSUME NEW s, Proper(s), NEW x \in Alive(s), NEW i \in Int, Abs(i) # WordMax,
         2 * Abs(i) < Base * Base
  PROVE  Alive(AssignI64(s, x, i)) = Alive(s)
<1> DEFINE b == BeginWrite(s, x)
           t == CloneData(b, x)
           m == Abs(i)
           len == IF m < WordMax THEN 1 ELSE 2
           r == SubSeq(<<m % Base, m \div Base>>, 1, len)
           e == SubSlice(t, x, 0, 0)
           a == SubSlice(t, x, 0, len)
           u == Overwrite(a, x, r)
           sign == FlagsFor(i > 0)
<1>1. AssignI64(s, x, i) = IF i = 0 THEN SetFlags(e, x, "ZERO") ELSE SetFlags(u, x, sign)
  BY DEF AssignI64
<1>2. Sound(s) /\ SameSlices(s, b)
  BY BeginWriteSound DEF Proper
<1> HIDE DEF b
<1>3. Sound(b) /\ Alive(b) = Alive(s)
  BY <1>2, SameSlicesSound
<1>4. Differ(b, t, x, Words(b, x)) /\ Sole(t, x)
  BY <1>3, CloneDataSound
<1>5. Sound(t) /\ x \in Alive(t) /\ Alive(t) = Alive(s)
  BY <1>3, <1>4 DEF Differ
<1> HIDE DEF t, sign
<1>6. \A p, g : Alive(SetFlags(p, x, g)) = Alive(p)
  BY DEF SetFlags, Alive
<1>7. CASE i = 0
  <2>1. 0 \in Nat
    OBVIOUS
  <2>2. Differ(t, e, x, Words(e, x))
    BY <1>4, <1>5, <2>1, WindowSound
  <2>3. Alive(e) = Alive(s)
    BY <1>5, <2>2 DEF Differ
  <2> HIDE DEF e
  <2>4. QED
    BY <1>1, <1>6, <1>7, <2>3
<1>8. CASE i # 0
  <2>1. m \in Nat /\ m # 0
    BY <1>8 DEF Abs
  <2> HIDE DEF m
  <2>2. Makes(r, m) /\ Len(r) = len /\ len \in Nat
    BY <2>1, I64Makes DEF m
  <2>3. r \in Seq(Data)
    BY <2>2, WordsAssumption DEF Makes
  <2> HIDE DEF r, len
  <2>4. Differ(t, a, x, Words(a, x)) /\ Sole(a, x) /\ Count(a, x) = len
    BY <1>4, <1>5, <2>2, WindowSound
  <2>5. Sound(a) /\ x \in Alive(a) /\ Alive(a) = Alive(s)
    BY <1>5, <2>4 DEF Differ
  <2> HIDE DEF a
  <2>6. Differ(a, u, x, r)
    BY <2>2, <2>3, <2>4, <2>5, OverwriteSound
  <2>7. Alive(u) = Alive(s)
    BY <2>5, <2>6 DEF Differ
  <2> HIDE DEF u
  <2>8. QED
    BY <1>1, <1>6, <1>8, <2>7
<1>9. QED
  BY <1>7, <1>8

(* The int64_t overloads: a temporary lives, which no object notices.      *)
LEMMA TempAlone ==
  ASSUME TypeOK, LoadsNormalised, NEW i \in I64
  PROVE  /\ Proper(TempOf(i)) /\ Holds(TempOf(i), "temp", i)
         /\ Alive(TempOf(i)) = Obj \cup {"temp"}
         /\ Preserves(st, TempOf(i), {"temp"}) /\ "temp" \notin Alive(st)
<1> DEFINE loc == "temp"
           z == BeZero(st, loc)
           t == TempOf(i)
<1>1. loc \in Name /\ loc \notin Obj /\ Proper(st) /\ Alive(st) = Obj
  BY StateSound, NameAssumption DEF Local
<1>2. t = AssignI64(z, loc, i)
  BY DEF TempOf
<1> HIDE DEF t, loc
<1>3. Yields(st, z, loc, 0) /\ Alive(z) = Obj \cup {loc}
  BY <1>1, ZeroYields, BeZeroAlive
<1> HIDE DEF z
<1>4. Proper(z) /\ loc \in Alive(z)
  BY <1>3 DEF Yields, Preserves
<1>5. Yields(z, t, loc, i) /\ Alive(t) = Alive(z)
  BY <1>2, <1>4, LoadBounds, AssignI64Yields, AssignI64Alive
<1>6. Yields(st, t, loc, i)
  BY <1>3, <1>5, YieldsTwice
<1>7. QED
  BY <1>1, <1>3, <1>5, <1>6 DEF Yields, Preserves, t, loc

(* What is done with it is all that is seen from outside.                  *)
LEMMA TempDropped ==
  ASSUME TypeOK, LoadsNormalised, NEW i \in I64, NEW r, NEW X, Preserves(TempOf(i), r, X)
  PROVE  Preserves(st, r, X)
<1> DEFINE loc == "temp"
           t == TempOf(i)
<1>1. Preserves(st, t, {loc}) /\ loc \notin Alive(st)
  BY TempAlone
<1> HIDE DEF t, loc
<1>2. Preserves(st, t, X \cup {loc})
  BY <1>1, PreservesMore
<1>3. Preserves(t, r, X \cup {loc})
  BY PreservesMore DEF t
<1>4. QED
  BY <1>1, <1>2, <1>3, PreservesTwice, PreservesDead

(* An object, and the operand.                                             *)
LEMMA TempHolds ==
  ASSUME TypeOK, Normalised, LoadsNormalised, NEW x \in Obj, NEW i \in I64
  PROVE  /\ Proper(TempOf(i)) /\ Holds(TempOf(i), x, Now(x)) /\ Holds(TempOf(i), "temp", i)
         /\ "copy" \notin Alive(TempOf(i)) /\ "product" \notin Alive(TempOf(i))
         /\ \A r, v : Yields(TempOf(i), r, x, v) => Yields(st, r, x, v)
<1> DEFINE t == TempOf(i)
<1>1. x # "temp" /\ "copy" \notin Obj \cup {"temp"} /\ "product" \notin Obj \cup {"temp"}
  BY NameAssumption DEF Local
<1>2. Proper(t) /\ Holds(t, "temp", i) /\ Alive(t) = Obj \cup {"temp"} /\ Preserves(st, t, {"temp"})
  BY TempAlone
<1>3. Holds(st, x, Now(x))
  BY NowHolds
<1>4. ASSUME NEW r, NEW v, Yields(t, r, x, v) PROVE Yields(st, r, x, v)
  BY <1>4, TempDropped DEF Yields
<1> HIDE DEF t
<1>5. Holds(t, x, Now(x))
  BY <1>1, <1>2, <1>3 DEF Preserves, Holds
<1>6. QED
  BY <1>1, <1>2, <1>4, <1>5 DEF t

(* Sums and differences.                                                   *)
LEMMA SumsStep ==
  ASSUME TypeOK, Normalised, LoadsNormalised, Sums
  PROVE  TypeOK' /\ Normalised' /\ SparesOthers /\ Integers!Sums
<1>1. PICK x \in Obj : \/ Inc(x) \/ Dec(x)
                       \/ \E y \in Obj : Add(x, y)
                       \/ \E y \in Obj : Sub(x, y)
                       \/ \E i \in I64 : AddI64(x, i)
                       \/ \E i \in I64 : SubI64(x, i)
  BY DEF Sums
<1>2. /\ Proper(st) /\ Holds(st, x, Now(x)) /\ Now(x) \in Int /\ "copy" \notin Alive(st)
  BY NowHolds
<1>3. CASE Inc(x)
  <2>1. 1 \in {1, -1}
    OBVIOUS
  <2>2. Yields(st, StepBy(st, x, 1), x, Now(x) + 1)
    BY <1>2, <2>1, StepByYields
  <2>3. Performs(<<"inc", x>>, x, Now(x) + 1)
    BY <1>3, <2>2, CallPerforms DEF Inc
  <2>4. QED
    BY <2>3 DEF Performs, Integers!Sums, Now
<1>4. CASE Dec(x)
  <2>1. -1 \in {1, -1}
    OBVIOUS
  <2>2. Yields(st, StepBy(st, x, -1), x, Now(x) + (-1))
    BY <1>2, <2>1, StepByYields
  <2>3. Now(x) + (-1) = Now(x) - 1
    BY <1>2
  <2>4. Yields(st, StepBy(st, x, -1), x, Now(x) - 1)
    BY <2>2, <2>3
  <2>5. Performs(<<"dec", x>>, x, Now(x) - 1)
    BY <1>4, <2>4, CallPerforms DEF Dec
  <2>6. QED
    BY <2>5 DEF Performs, Integers!Sums, Now
<1>5. CASE \E y \in Obj : Add(x, y)
  <2>1. PICK y \in Obj : Add(x, y)
    BY <1>5
  <2>2. Yields(st, AddAssign(st, x, y), x, Now(x) + Now(y))
    BY <1>2, NowHolds, AddAssignYields
  <2>3. Performs(<<"add", x, y>>, x, Now(x) + Now(y))
    BY <2>1, <2>2, CallPerforms DEF Add
  <2>4. QED
    BY <2>3 DEF Performs, Integers!Sums, Now
<1>6. CASE \E y \in Obj : Sub(x, y)
  <2>1. PICK y \in Obj : Sub(x, y)
    BY <1>6
  <2>2. Yields(st, SubAssign(st, x, y), x, Now(x) - Now(y))
    BY <1>2, NowHolds, SubAssignYields
  <2>3. Performs(<<"sub", x, y>>, x, Now(x) - Now(y))
    BY <2>1, <2>2, CallPerforms DEF Sub
  <2>4. QED
    BY <2>3 DEF Performs, Integers!Sums, Now
<1>7. CASE \E i \in I64 : AddI64(x, i)
  <2>1. PICK i \in I64 : AddI64(x, i)
    BY <1>7
  <2> DEFINE t == TempOf(i)
             r == AddAssign(t, x, "temp")
  <2>2. /\ Proper(t) /\ Holds(t, x, Now(x)) /\ Holds(t, "temp", i) /\ "copy" \notin Alive(t)
        /\ \A p, v : Yields(t, p, x, v) => Yields(st, p, x, v)
    BY TempHolds
  <2>3. Yields(st, r, x, Now(x) + i)
    BY <2>2, AddAssignYields
  <2>4. Performs(<<"addI64", x, i>>, x, Now(x) + i)
    BY <2>1, <2>3, CallPerforms DEF AddI64
  <2>5. QED
    BY <2>4 DEF Performs, Integers!Sums, Now
<1>8. CASE \E i \in I64 : SubI64(x, i)
  <2>1. PICK i \in I64 : SubI64(x, i)
    BY <1>8
  <2> DEFINE t == TempOf(i)
             r == SubAssign(t, x, "temp")
  <2>2. /\ Proper(t) /\ Holds(t, x, Now(x)) /\ Holds(t, "temp", i) /\ "copy" \notin Alive(t)
        /\ \A p, v : Yields(t, p, x, v) => Yields(st, p, x, v)
    BY TempHolds
  <2>3. Yields(st, r, x, Now(x) - i)
    BY <2>2, SubAssignYields
  <2>4. Performs(<<"subI64", x, i>>, x, Now(x) - i)
    BY <2>1, <2>3, CallPerforms DEF SubI64
  <2>5. QED
    BY <2>4 DEF Performs, Integers!Sums, Now
<1>9. QED
  BY <1>1, <1>3, <1>4, <1>5, <1>6, <1>7, <1>8

(* Products and shifts.                                                    *)
LEMMA ProductsStep ==
  ASSUME TypeOK, Normalised, LoadsNormalised, Products
  PROVE  TypeOK' /\ Normalised' /\ SparesOthers /\ Integers!Products
<1>1. PICK x \in Obj : \/ \E y \in Obj : Mul(x, y)
                       \/ \E i \in I64 : MulI64(x, i)
                       \/ \E n \in Shift : ShiftLeft(x, n)
                       \/ \E n \in Shift : ShiftRight(x, n)
  BY DEF Products
<1>2. Proper(st) /\ Holds(st, x, Now(x)) /\ "product" \notin Alive(st)
  BY NowHolds
<1>3. CASE \E y \in Obj : Mul(x, y)
  <2>1. PICK y \in Obj : Mul(x, y)
    BY <1>3
  <2>2. Yields(st, MulAssign(st, x, y), x, Now(x) * Now(y))
    BY <1>2, NowHolds, MulAssignYields
  <2>3. Performs(<<"mul", x, y>>, x, Now(x) * Now(y))
    BY <2>1, <2>2, CallPerforms DEF Mul
  <2>4. QED
    BY <2>3 DEF Performs, Integers!Products, Now
<1>4. CASE \E i \in I64 : MulI64(x, i)
  <2>1. PICK i \in I64 : MulI64(x, i)
    BY <1>4
  <2> DEFINE t == TempOf(i)
             r == MulAssign(t, x, "temp")
  <2>2. /\ Proper(t) /\ Holds(t, x, Now(x)) /\ Holds(t, "temp", i) /\ "product" \notin Alive(t)
        /\ \A p, v : Yields(t, p, x, v) => Yields(st, p, x, v)
    BY TempHolds
  <2>3. Yields(st, r, x, Now(x) * i)
    BY <2>2, MulAssignYields
  <2>4. Performs(<<"mulI64", x, i>>, x, Now(x) * i)
    BY <2>1, <2>3, CallPerforms DEF MulI64
  <2>5. QED
    BY <2>4 DEF Performs, Integers!Products, Now
<1>5. CASE \E n \in Shift : ShiftLeft(x, n)
  <2>1. PICK n \in Shift : ShiftLeft(x, n)
    BY <1>5
  <2>2. n \in Nat /\ PowersUpTo(n)
    BY ShiftAssumption
  <2>3. Yields(st, ShiftLeftAssign(st, x, n), x, Now(x) * 2 ^ n)
    BY <1>2, <2>2, ShiftLeftYields
  <2>4. Performs(<<"shl", x, n>>, x, Now(x) * 2 ^ n)
    BY <2>1, <2>3, CallPerforms DEF ShiftLeft
  <2>5. QED
    BY <2>4 DEF Performs, Integers!Products, Now
<1>6. CASE \E n \in Shift : ShiftRight(x, n)
  <2>1. PICK n \in Shift : ShiftRight(x, n)
    BY <1>6
  <2>2. n \in Nat /\ PowersUpTo(n)
    BY ShiftAssumption
  <2>3. Yields(st, ShiftRightAssign(st, x, n), x, Now(x) \div 2 ^ n)
    BY <1>2, <2>2, ShiftRightYields
  <2>4. Performs(<<"shr", x, n>>, x, Now(x) \div 2 ^ n)
    BY <2>1, <2>3, CallPerforms DEF ShiftRight
  <2>5. QED
    BY <2>4 DEF Performs, Integers!Products, Now
<1>7. QED
  BY <1>1, <1>3, <1>4, <1>5, <1>6

(* Nobody divides between calls, nor when only a temporary lives.          *)
LEMMA NoneDivides ==
  ASSUME TypeOK, LoadsNormalised
  PROVE  Undivided(st) /\ \A i \in I64 : Undivided(TempOf(i))
<1> DEFINE W == {"q", "r"} \cup Scratch \cup Copies
<1>1. W \cap (Obj \cup {"temp"}) = {}
  BY NameAssumption DEF Local, Scratch, Copies
<1>2. Alive(st) = Obj /\ \A i \in I64 : Alive(TempOf(i)) = Obj \cup {"temp"}
  BY StateSound, TempAlone
<1>3. QED
  BY <1>1, <1>2 DEF Undivided

(* A divisor that a division accepts is not zero.                          *)
LEMMA DivisorNotZero ==
  ASSUME NEW s, Proper(s), NEW y, NEW u, Holds(s, y, u), DivisorOK(s, y)
  PROVE  u # 0
  BY HoldsCases DEF DivisorOK

(* Division.                                                               *)
LEMMA QuotientsStep ==
  ASSUME TypeOK, Normalised, LoadsNormalised, Quotients
  PROVE  TypeOK' /\ Normalised' /\ SparesOthers /\ Integers!Quotients
<1>1. PICK x \in Obj : \/ \E y \in Obj : Divide(x, y)
                       \/ \E i \in I64 : DivideI64(x, i)
  BY DEF Quotients
<1>2. Proper(st) /\ Holds(st, x, Now(x))
  BY NowHolds
<1>3. CASE \E y \in Obj : Divide(x, y)
  <2>1. PICK y \in Obj : Divide(x, y)
    BY <1>3
  <2> DEFINE v == Integers!Quot(Now(x), Now(y))
  <2>2. Holds(st, y, Now(y)) /\ Now(y) # 0
    BY <1>2, <2>1, NowHolds, DivisorNotZero DEF Divide
  <2>3. Yields(st, DivAssign(st, x, y), x, v)
    BY <1>2, <2>2, NoneDivides, DivAssignYields
  <2> HIDE DEF v
  <2>4. Performs(<<"div", x, y>>, x, v)
    BY <2>1, <2>3, CallPerforms DEF Divide
  <2>5. QED
    BY <2>2, <2>4 DEF Performs, Integers!Quotients, Now, v
<1>4. CASE \E i \in I64 : DivideI64(x, i)
  <2>1. PICK i \in I64 : DivideI64(x, i)
    BY <1>4
  <2> DEFINE t == TempOf(i)
             r == DivAssign(t, x, "temp")
             v == Integers!Quot(Now(x), i)
  <2>2. /\ Proper(t) /\ Holds(t, x, Now(x)) /\ Holds(t, "temp", i) /\ Undivided(t)
        /\ \A p, n : Yields(t, p, x, n) => Yields(st, p, x, n)
    BY TempHolds, NoneDivides
  <2>3. i # 0
    BY <2>1, <2>2, DivisorNotZero DEF DivideI64
  <2>4. Yields(st, r, x, v)
    BY <2>2, <2>3, DivAssignYields
  <2> HIDE DEF v
  <2>5. Performs(<<"divI64", x, i>>, x, v)
    BY <2>1, <2>4, CallPerforms DEF DivideI64
  <2>6. QED
    BY <2>3, <2>5 DEF Performs, Integers!Quotients, Now, v
<1>5. QED
  BY <1>1, <1>3, <1>4

(* Division with both results.                                             *)
LEMMA RemaindersStep ==
  ASSUME TypeOK, Normalised, LoadsNormalised, Remainders
  PROVE  TypeOK' /\ Normalised' /\ SparesOthers /\ Integers!Remainders
<1>1. PICK x \in Obj, z \in Obj : \/ \E y \in Obj : DivRem(x, y, z)
                                  \/ \E y \in Obj : ModQuot(x, y, z)
                                  \/ \E i \in I64 : DivRemI64(x, i, z)
                                  \/ \E i \in I64 : ModQuotI64(x, i, z)
  BY DEF Remainders
<1> DEFINE val == [y \in Obj |-> Value(st, y)]
<1>2. Proper(st) /\ Holds(st, x, Now(x)) /\ x # z /\ z \in Alive(st) /\ Undivided(st)
  BY <1>1, NowHolds, NoneDivides DEF DivRem, ModQuot, DivRemI64, ModQuotI64
<1>3. ASSUME NEW STATE c, Written(c) = {x, z}, NEW STATE s, Return(s, c), NEW STATE v, NEW STATE u,
             Preserves(st, s, {x} \cup {z}),
             \/ /\ Holds(s, x, Integers!Quot(v, u)) /\ Holds(s, z, Integers!Rem(v, u))
             \/ /\ Holds(s, x, Integers!Rem(v, u)) /\ Holds(s, z, Integers!Quot(v, u))
      PROVE  /\ TypeOK' /\ Normalised' /\ SparesOthers
             /\ Holds(s, x, Integers!Quot(v, u)) /\ Holds(s, z, Integers!Rem(v, u))
                  => Integers!BecomeBoth(c, x, z, v, u)
             /\ Holds(s, x, Integers!Rem(v, u)) /\ Holds(s, z, Integers!Quot(v, u))
                  => Integers!BecomeBoth(c, z, x, v, u)
  <2>1. Written(c) = {z, x} /\ Preserves(st, s, {z} \cup {x})
    <3>1. {x, z} = {z, x} /\ {x} \cup {z} = {z} \cup {x}
      OBVIOUS
    <3>2. QED
      BY <1>3, <3>1
  <2>2. ASSUME Holds(s, x, Integers!Quot(v, u)), Holds(s, z, Integers!Rem(v, u))
        PROVE  TypeOK' /\ Normalised' /\ SparesOthers /\ Integers!BecomeBoth(c, x, z, v, u)
    BY <1>2, <1>3, <2>2, CallPerformsBoth DEF Integers!BecomeBoth
  <2>3. ASSUME Holds(s, x, Integers!Rem(v, u)), Holds(s, z, Integers!Quot(v, u))
        PROVE  TypeOK' /\ Normalised' /\ SparesOthers /\ Integers!BecomeBoth(c, z, x, v, u)
    BY <1>2, <1>3, <2>1, <2>3, CallPerformsBoth DEF Integers!BecomeBoth
  <2>4. QED
    BY <1>3, <2>2, <2>3
<1>4. CASE \E y \in Obj : DivRem(x, y, z) \/ ModQuot(x, y, z)
  <2>1. PICK y \in Obj : DivRem(x, y, z) \/ ModQuot(x, y, z)
    BY <1>4
  <2>2. Holds(st, y, Now(y)) /\ Now(y) # 0 /\ z # y
    BY <1>2, <2>1, NowHolds, DivisorNotZero DEF DivRem, ModQuot
  <2>3. LET t == DivideAssignAndReminder(st, x, y, z)
            m == ModAssignAndQuotient(st, x, y, z)
        IN  /\ Preserves(st, t, {x} \cup {z})
            /\ Holds(t, x, Integers!Quot(Now(x), Now(y))) /\ Holds(t, z, Integers!Rem(Now(x), Now(y)))
            /\ Preserves(st, m, {x} \cup {z})
            /\ Holds(m, x, Integers!Rem(Now(x), Now(y))) /\ Holds(m, z, Integers!Quot(Now(x), Now(y)))
    BY <1>2, <2>2, DividesBoth
  <2>4. CASE DivRem(x, y, z)
    <3> DEFINE c == <<"divrem", x, y, z>>
    <3>1. Return(DivideAssignAndReminder(st, x, y, z), c) /\ Written(c) = {x, z}
      BY <2>4 DEF DivRem, Written
    <3> HIDE DEF c
    <3>2. TypeOK' /\ Normalised' /\ SparesOthers /\ Integers!BecomeBoth(c, x, z, Now(x), Now(y))
      BY <1>3, <2>3, <3>1
    <3>3. QED
      BY <1>2, <2>2, <3>2 DEF Integers!Remainders, Now, c
  <2>5. CASE ModQuot(x, y, z)
    <3> DEFINE c == <<"modquot", x, y, z>>
    <3>1. Return(ModAssignAndQuotient(st, x, y, z), c) /\ Written(c) = {x, z}
      BY <2>5 DEF ModQuot, Written
    <3> HIDE DEF c
    <3>2. TypeOK' /\ Normalised' /\ SparesOthers /\ Integers!BecomeBoth(c, z, x, Now(x), Now(y))
      BY <1>3, <2>3, <3>1
    <3>3. QED
      BY <1>2, <2>2, <3>2 DEF Integers!Remainders, Now, c
  <2>6. QED
    BY <2>1, <2>4, <2>5
<1>5. CASE \E i \in I64 : DivRemI64(x, i, z) \/ ModQuotI64(x, i, z)
  <2>1. PICK i \in I64 : DivRemI64(x, i, z) \/ ModQuotI64(x, i, z)
    BY <1>5
  <2> DEFINE p == TempOf(i)
             y == "temp"
             t == DivideAssignAndReminder(p, x, y, z)
             m == ModAssignAndQuotient(p, x, y, z)
             Q == Integers!Quot(Now(x), i)
             R == Integers!Rem(Now(x), i)
  <2>2. /\ Proper(p) /\ Holds(p, x, Now(x)) /\ Holds(p, y, i) /\ Undivided(p)
        /\ z \in Alive(p) /\ z # y
        /\ \A r, X : Preserves(p, r, X) => Preserves(st, r, X)
    <3>1. z # "temp"
      BY NameAssumption DEF Local
    <3>2. QED
      BY <3>1, TempAlone, TempHolds, TempDropped, NoneDivides
  <2>3. i # 0
    BY <2>1, <2>2, DivisorNotZero DEF DivRemI64, ModQuotI64
  <2> HIDE DEF p, y
  <2>4. /\ Preserves(p, t, {x} \cup {z}) /\ Holds(t, x, Q) /\ Holds(t, z, R)
        /\ Preserves(p, m, {x} \cup {z}) /\ Holds(m, x, R) /\ Holds(m, z, Q)
    BY <1>2, <2>2, <2>3, DividesBoth
  <2> HIDE DEF t, m
  <2>5. Preserves(st, t, {x} \cup {z}) /\ Preserves(st, m, {x} \cup {z})
    BY <2>2, <2>4
  <2>6. CASE DivRemI64(x, i, z)
    <3> DEFINE c == <<"divremI64", x, i, z>>
    <3>1. Return(t, c) /\ Written(c) = {x, z}
      BY <2>6 DEF DivRemI64, Written, t, p, y
    <3> HIDE DEF c
    <3>2. TypeOK' /\ Normalised' /\ SparesOthers /\ Integers!BecomeBoth(c, x, z, Now(x), i)
      BY <1>3, <2>4, <2>5, <3>1
    <3>3. QED
      BY <1>2, <2>3, <3>2 DEF Integers!Remainders, Now, c
  <2>7. CASE ModQuotI64(x, i, z)
    <3> DEFINE c == <<"modquotI64", x, i, z>>
    <3>1. Return(m, c) /\ Written(c) = {x, z}
      BY <2>7 DEF ModQuotI64, Written, m, p, y
    <3> HIDE DEF c
    <3>2. TypeOK' /\ Normalised' /\ SparesOthers /\ Integers!BecomeBoth(c, z, x, Now(x), i)
      BY <1>3, <2>4, <2>5, <3>1
    <3>3. QED
      BY <1>2, <2>3, <3>2 DEF Integers!Remainders, Now, c
  <2>8. QED
    BY <2>1, <2>6, <2>7
<1>6. QED
  BY <1>1, <1>4, <1>5

(* At first all objects are zero, each with a vector of its own.           *)
LEMMA InitSound == Init => TypeOK /\ Normalised /\ Integers!Init
<1> SUFFICES ASSUME Init PROVE TypeOK /\ Normalised /\ Integers!Init
  OBVIOUS
<1>1. Obj \subseteq Name
  BY NameAssumption
<1>2. \E p \in [Obj -> Addr] : \A x, y \in Obj : p[x] = p[y] => x = y
  <2>1. PICK p \in [Name -> Addr] : \A x, y \in Name : p[x] = p[y] => x = y
    BY EnoughAddresses
  <2> DEFINE q == [x \in Obj |-> p[x]]
  <2>2. q \in [Obj -> Addr] /\ \A x, y \in Obj : q[x] = q[y] => x = y
    BY <1>1, <2>1
  <2>3. QED
    BY <2>2
<1>3. Place \in [Obj -> Addr]
  BY <1>2 DEF Place
<1> DEFINE z == Zeros(2)
<1>4. z \in Seq(Word) /\ Len(z) = 2
  BY ZerosProperties, WordsAssumption
<1>5. /\ mem = [a \in Addr |-> IF \E x \in Obj : Place[x] = a THEN z ELSE << >>]
      /\ mag = [x \in Obj |-> [ptr |-> Place[x], lo |-> 1, hi |-> 1]]
      /\ num = [x \in Obj |-> ZeroNum] /\ call = <<"none">>
  BY DEF Init, DefaultPreSpace
<1> HIDE DEF z
<1>6. \A x \in Obj : mag[x].lo = 1 /\ mag[x].hi = 1 /\ mem[mag[x].ptr] = z
  BY <1>3, <1>5
<1>7. TypeOK
  <2>1. mem \in [Addr -> Seq(Word)] /\ mag \in [Obj -> [ptr : Addr, lo : Nat, hi : Nat]]
    BY <1>3, <1>4, <1>5
  <2>2. ZeroNum \in [sign : Sign, cached : BOOLEAN, nz : Nat]
    BY DEF ZeroNum, Sign
  <2>3. num \in [Obj -> [sign : Sign, cached : BOOLEAN, nz : Nat]]
    BY <1>5, <2>2
  <2>4. 1 <= 1 /\ 1 <= Len(z)
    BY <1>4
  <2>5. \A x \in Obj : mag[x].lo <= mag[x].hi /\ mag[x].hi <= Len(mem[mag[x].ptr])
    BY <2>4, <1>6, Zenon
  <2>6. QED
    BY <2>1, <2>3, <2>5 DEF TypeOK
<1>8. ASSUME NEW x \in Obj PROVE Represents(SignOf(st, x), Words(st, x), 0)
  <2>1. Proper(st) /\ x \in Alive(st) /\ x \in Name
    BY <1>1, <1>7, StateSound
  <2>2. st.mag[x] = mag[x] /\ st.num[x] = ZeroNum
    BY <1>5, <2>1 DEF st
  <2>3. Len(Words(st, x)) = 0 /\ Words(st, x) \in Seq(Word)
    <3>1. Count(st, x) = 0
      BY <1>6, <2>2 DEF Count
    <3>2. QED
      BY <2>1, <3>1, WordsAre DEF Proper
  <2>4. Words(st, x) = << >>
    BY <2>3, EmptySeq
  <2>5. SignOf(st, x) = "ZERO"
    BY <2>2 DEF SignOf, ZeroNum
  <2>6. QED
    BY <2>4, <2>5, RepresentsZero
<1>9. \A x \in Obj : /\ Value(st, x) = 0
                     /\ SignOf(st, x) = "ZERO" <=> Words(st, x) = << >>
                     /\ Words(st, x) # << >> => Words(st, x)[Len(Words(st, x))] # 0
  BY <1>8, ValueIs
<1>10. Normalised
  BY <1>9 DEF Normalised
<1>11. Integers!Init
  BY <1>5, <1>9 DEF Integers!Init
<1>12. QED
  BY <1>7, <1>10, <1>11

(* Every call of such a client keeps the invariants, changes integers as   *)
(* IntegerStore does, and spares what it is not to write.                  *)
LEMMA ArithmeticStep ==
  ASSUME LoadsNormalised, TypeOK, Normalised, [Arithmetic]_vars
  PROVE  /\ TypeOK' /\ Normalised'
         /\ [Integers!Next]_<<[x \in Obj |-> Value(st, x)], call>>
         /\ [SparesOthers]_vars
<1>1. CASE Constructors
  BY <1>1, ConstructorsStep DEF Integers!Next
<1>2. CASE Signs
  BY <1>2, SignsStep DEF Integers!Next
<1>3. CASE Sums
  BY <1>3, SumsStep DEF Integers!Next
<1>4. CASE Products
  BY <1>4, ProductsStep DEF Integers!Next
<1>5. CASE UNCHANGED vars
  <2>1. mem' = mem /\ mag' = mag /\ num' = num /\ call' = call
    BY <1>5 DEF vars
  <2>2. st' = st
    BY <2>1 DEF st
  <2>3. TypeOK' /\ Normalised'
    BY <2>1, <2>2 DEF TypeOK, Normalised
  <2>4. QED
    BY <1>5, <2>1, <2>2, <2>3
<1>6. QED
  BY <1>1, <1>2, <1>3, <1>4, <1>5 DEF Arithmetic

(* And if it divides, too.                                                 *)
LEMMA CalculationsStep ==
  ASSUME LoadsNormalised, TypeOK, Normalised, [Calculations]_vars
  PROVE  /\ TypeOK' /\ Normalised'
         /\ [Integers!Next]_<<[x \in Obj |-> Value(st, x)], call>>
         /\ [SparesOthers]_vars
<1>1. CASE Quotients
  BY <1>1, QuotientsStep DEF Integers!Next
<1>2. CASE Remainders
  BY <1>2, RemaindersStep DEF Integers!Next
<1>3. CASE [Arithmetic]_vars
  BY <1>3, ArithmeticStep
<1>4. QED
  BY <1>1, <1>2, <1>3 DEF Calculations

(* The invariants of the class, for all objects, words and integers.       *)
THEOREM ObjectsNormalised ==
  LoadsNormalised => (CalculatingSpec => [](TypeOK /\ Normalised))
<1> SUFFICES ASSUME LoadsNormalised PROVE CalculatingSpec => [](TypeOK /\ Normalised)
  OBVIOUS
<1>1. Init => TypeOK /\ Normalised
  BY InitSound
<1>2. TypeOK /\ Normalised /\ [Calculations]_vars => (TypeOK /\ Normalised)'
  BY CalculationsStep
<1>3. QED
  BY <1>1, <1>2, PTL DEF CalculatingSpec

(* cmp() tells integers apart, with its shortcut for equal windows.        *)
THEOREM ComparesIntegers ==
  LoadsNormalised => (CalculatingSpec => []ComparesExact)
<1> SUFFICES ASSUME LoadsNormalised PROVE CalculatingSpec => []ComparesExact
  OBVIOUS
<1>1. TypeOK /\ Normalised => ComparesExact
  <2> SUFFICES ASSUME TypeOK, Normalised, NEW x \in Obj, NEW y \in Obj
               PROVE  LET d == Value(st, x) - Value(st, y)
                      IN  Cmp(st, x, y) = (IF d < 0 THEN -1 ELSE IF d = 0 THEN 0 ELSE 1)
    BY DEF ComparesExact
  <2> DEFINE v == Value(st, x)
             u == Value(st, y)
  <2>1. Proper(st) /\ Holds(st, x, v) /\ Holds(st, y, u) /\ v \in Int /\ u \in Int
    BY StateHolds
  <2> HIDE DEF v, u
  <2>2. Cmp(st, x, y) = IF v < u THEN -1 ELSE IF v = u THEN 0 ELSE 1
    BY <2>1, CmpExact
  <2>3. QED
    BY <2>1, <2>2 DEF v, u
<1>2. CalculatingSpec => [](TypeOK /\ Normalised)
  BY ObjectsNormalised
<1>3. QED
  BY <1>1, <1>2, PTL

(* Copies share vectors, and a write to one of them never shows in another.*)
THEOREM CopiesIndependent ==
  LoadsNormalised => (CalculatingSpec => CopyOnWrite)
<1> SUFFICES ASSUME LoadsNormalised PROVE CalculatingSpec => CopyOnWrite
  OBVIOUS
<1>1. TypeOK /\ Normalised /\ [Calculations]_vars =>
        [\A x \in Obj \ Written(call') : /\ Words(st, x)' = Words(st, x)
                                         /\ SignOf(st, x)' = SignOf(st, x)]_vars
  BY CalculationsStep DEF SparesOthers
<1>2. CalculatingSpec => [](TypeOK /\ Normalised)
  BY ObjectsNormalised
<1>3. QED
  BY <1>1, <1>2, PTL DEF CalculatingSpec, CopyOnWrite

(* Whatever the objects share, a client sees integers of any size.         *)
THEOREM CalculatesWithIntegers ==
  LoadsNormalised => (CalculatingSpec => ImplementsIntegers)
<1> SUFFICES ASSUME LoadsNormalised PROVE CalculatingSpec => ImplementsIntegers
  OBVIOUS
<1>1. Init => Integers!Init
  BY InitSound
<1>2. TypeOK /\ Normalised /\ [Calculations]_vars =>
        [Integers!Next]_<<[x \in Obj |-> Value(st, x)], call>>
  BY CalculationsStep
<1>3. CalculatingSpec => [](TypeOK /\ Normalised)
  BY ObjectsNormalised
<1>4. QED
  BY <1>1, <1>2, <1>3, PTL DEF CalculatingSpec, ImplementsIntegers, Integers!Spec

-----------------------------------------------------------------------------
(* The cached index, if there is one, is that of the magnitude's first     *)
(* non-zero word.                                                          *)
Fresh(s, x) == s.num[x].cached => s.num[x].nz = FirstNonZero(Words(s, x))

(* Flags and caches of all but x stay what they are; or those of x too.    *)
Fields(s) == {"mem", "mag", "num"} \subseteq DOMAIN s /\ s.num \in [Name -> Nums]
Touches(s, t, x) == Fields(t) /\ \A y \in Name \ {x} : t.num[y] = s.num[y]
SameNums(s, t) == Fields(t) /\ t.num = s.num

(* No member function of the slice writes flags or caches.                 *)
LEMMA SlicesKeepNums ==
  ASSUME NEW s, Fields(s)
  PROVE  /\ \A x : SameNums(s, NewSlice(s, x)) /\ SameNums(s, CloneData(s, x))
         /\ \A x, y : SameNums(s, CopySlice(s, x, y)) /\ SameNums(s, MoveSlice(s, x, y))
         /\ \A x, y : SameNums(s, SwapSlices(s, x, y))
         /\ \A x, lo, hi : SameNums(s, SubSlice(s, x, lo, hi))
         /\ \A x, w : SameNums(s, Overwrite(s, x, w)) /\ SameNums(s, Append_(s, x, w))
         /\ \A x, len : SameNums(s, PreExtend(s, x, len))
<1>1. ASSUME NEW t, Fields(t)
      PROVE  /\ \A x, vec, lo, hi : SameNums(t, Allocate(t, x, vec, lo, hi))
             /\ \A x, vec : SameNums(t, SetVec(t, x, vec))
             /\ \A x, m : SameNums(t, [t EXCEPT !.mag[x] = m])
             /\ \A x, k : SameNums(t, [t EXCEPT !.mag[x].lo = k])
             /\ \A x, k : SameNums(t, [t EXCEPT !.mag[x].hi = k])
             /\ \A x, k, l : SameNums(t, [t EXCEPT !.mag[x].lo = k, !.mag[x].hi = l])
             /\ \A x, y, k, l : SameNums(t, [t EXCEPT !.mag[x] = k, !.mag[y] = l])
  BY <1>1 DEF SameNums, Fields, Allocate, SetVec
<1>2. \A t, r : SameNums(s, t) /\ SameNums(t, r) => SameNums(s, r)
  BY DEF SameNums
<1>3. SameNums(s, s) /\ \A t : SameNums(s, t) => Fields(t)
  BY DEF SameNums
<1>4. \A t, x : Fields(t) => SameNums(t, NewSlice(t, x))
  BY <1>1 DEF NewSlice
<1>5. \A x : SameNums(s, CloneData(s, x))
  BY <1>1, <1>3 DEF CloneData
<1>6. \A x, y : SameNums(s, CopySlice(s, x, y))
  BY <1>1 DEF CopySlice
<1>7. \A x, y : SameNums(s, MoveSlice(s, x, y))
  BY <1>2, <1>3, <1>4, <1>6 DEF MoveSlice
<1>8. \A x, y : SameNums(s, SwapSlices(s, x, y))
  BY <1>1 DEF SwapSlices
<1>9. ASSUME NEW x, NEW lo, NEW hi PROVE SameNums(s, SubSlice(s, x, lo, hi))
  <2> DEFINE m == s.mag[x]
             t == IF hi > Count(s, x) THEN SetVec(s, x, Resize(Vec(s, x), m.lo + hi)) ELSE s
             r == [t EXCEPT !.mag[x].lo = m.lo + lo, !.mag[x].hi = m.lo + hi]
  <2>1. SameNums(s, t) /\ Fields(t)
    BY <1>1, <1>3
  <2>2. SubSlice(s, x, lo, hi) = IF lo = hi THEN [s EXCEPT !.mag[x].hi = m.lo] ELSE r
    BY DEF SubSlice
  <2> HIDE DEF t
  <2>3. SameNums(t, r)
    BY <1>1, <2>1
  <2>4. SameNums(s, [s EXCEPT !.mag[x].hi = m.lo])
    BY <1>1
  <2> HIDE DEF r
  <2>5. QED
    BY <1>2, <2>1, <2>2, <2>3, <2>4
<1>10. \A x, w : SameNums(s, Overwrite(s, x, w))
  BY <1>1 DEF Overwrite
<1>11. \A x, w : SameNums(s, Append_(s, x, w))
  BY <1>1, <1>2, <1>3 DEF Append_
<1>12. ASSUME NEW x, NEW len PROVE SameNums(s, PreExtend(s, x, len))
  <2> DEFINE m == s.mag[x]
             ex == len - m.lo + DefaultPreSpace
             o == SetVec(s, x, Zeros(ex) \o Vec(s, x))
             p == [o EXCEPT !.mag[x].lo = DefaultPreSpace, !.mag[x].hi = m.hi + ex]
             t == IF m.lo >= len THEN [s EXCEPT !.mag[x].lo = m.lo - len] ELSE p
             r == SetVec(t, x, [i \in DOMAIN Vec(t, x) |->
                    IF i \in t.mag[x].lo + 1 .. t.mag[x].lo + len THEN 0 ELSE Vec(t, x)[i]])
  <2>1. SameNums(s, o) /\ Fields(o)
    BY <1>1, <1>3
  <2>2. PreExtend(s, x, len) = r
    BY DEF PreExtend
  <2> HIDE DEF o
  <2>3. SameNums(o, p)
    BY <1>1, <2>1
  <2>4. SameNums(s, [s EXCEPT !.mag[x].lo = m.lo - len])
    BY <1>1
  <2> HIDE DEF p
  <2>5. SameNums(s, t) /\ Fields(t)
    BY <1>2, <1>3, <2>1, <2>3, <2>4
  <2> HIDE DEF t
  <2>6. SameNums(t, r)
    BY <1>1, <2>5
  <2>7. QED
    BY <1>2, <2>2, <2>5, <2>6
<1>13. QED
  BY <1>4, <1>5, <1>6, <1>7, <1>8, <1>9, <1>10, <1>11, <1>12

(* Nor do the kernels.                                                     *)
LEMMA KernelsKeepNums ==
  ASSUME NEW s, Fields(s)
  PROVE  /\ \A x : SameNums(s, EraseZeros(s, x))
         /\ \A x, y : SameNums(s, AddMagTo(s, x, y)) /\ SameNums(s, SubMagFrom(s, x, y))
         /\ \A x, w : SameNums(s, MulMagBy(s, x, w))
         /\ \A x : SameNums(s, IncMagOf(s, x)) /\ SameNums(s, DecMagOf(s, x))
         /\ \A x, n : SameNums(s, ShlMagOf(s, x, n)) /\ SameNums(s, ShrMagOf(s, x, n))
<1>1. \A t, r : SameNums(s, t) /\ SameNums(t, r) => SameNums(s, r)
  BY DEF SameNums
<1>2. SameNums(s, s) /\ \A t : SameNums(s, t) => Fields(t)
  BY DEF SameNums
<1>3. \A x, lo, hi : SameNums(s, SubSlice(s, x, lo, hi))
  BY SlicesKeepNums
<1>4. \A t, x, w : SameNums(s, t) => SameNums(s, Overwrite(t, x, w)) /\ SameNums(s, Append_(t, x, w))
  BY <1>1, <1>2, SlicesKeepNums
<1>5. \A t, x, lo, hi : SameNums(s, t) => SameNums(s, SubSlice(t, x, lo, hi))
  BY <1>1, <1>2, SlicesKeepNums
<1>6. \A x, len, r : SameNums(s, Store(s, x, len, r))
  BY <1>3, <1>4 DEF Store
<1>7. \A x : SameNums(s, EraseZeros(s, x))
  BY <1>3 DEF EraseZeros
<1>8. \A x, y : SameNums(s, AddMagTo(s, x, y)) /\ SameNums(s, SubMagFrom(s, x, y))
  BY <1>2, <1>4, <1>6 DEF AddMagTo, SubMagFrom
<1>9. \A x, w : SameNums(s, MulMagBy(s, x, w))
  BY <1>6 DEF MulMagBy
<1>10. \A x : SameNums(s, IncMagOf(s, x)) /\ SameNums(s, DecMagOf(s, x))
  BY <1>2, <1>4, <1>5, <1>6 DEF IncMagOf, DecMagOf, EraseZeros
<1>11. \A x, n : SameNums(s, ShlMagOf(s, x, n))
  BY <1>6, SlicesKeepNums DEF ShlMagOf
<1>12. \A x, n : SameNums(s, ShrMagOf(s, x, n))
  BY <1>2, <1>3, <1>4, <1>5 DEF ShrMagOf
<1>13. QED
  BY <1>7, <1>8, <1>9, <1>10, <1>11, <1>12

Cold(s, x) == ~ s.num[x].cached
Cools(s, t, x) == Touches(s, t, x) /\ Cold(t, x)
Renews(s, t, x) == Touches(s, t, x) /\ Fresh(t, x)

(* One step after another.                                                 *)
LEMMA NumsTwice ==
  ASSUME NEW s, NEW t, NEW r, NEW x
  PROVE  /\ Touches(s, t, x) /\ Touches(t, r, x) => Touches(s, r, x)
         /\ Touches(s, t, x) /\ Cools(t, r, x) => Cools(s, r, x)
         /\ Touches(s, t, x) /\ Renews(t, r, x) => Renews(s, r, x)
         /\ Cools(s, t, x) => Touches(s, t, x) /\ Renews(s, t, x)
         /\ Renews(s, t, x) => Touches(s, t, x)
         /\ Touches(s, t, x) => Fields(t)
         /\ SameNums(s, t) => Fields(t) /\ Touches(s, t, x)
         /\ x \in Name /\ Cools(s, t, x) /\ SameNums(t, r) => Cools(s, r, x)
         /\ SameNums(s, t) /\ SameNums(t, r) => SameNums(s, r)
  BY DEF Touches, Cools, Renews, Fresh, Cold, SameNums

(* The steps that write flags and cache of x.                              *)
LEMMA NumSteps ==
  ASSUME NEW s, Fields(s), NEW x \in Name
  PROVE  /\ \A sign \in Sign : LET t == SetFlags(s, x, sign)
                               IN  /\ Touches(s, t, x)
                                   /\ t.num[x].cached = s.num[x].cached /\ t.num[x].nz = s.num[x].nz
         /\ Cools(s, BeginWrite(s, x), x)
         /\ Cools(s, BeZero(s, x), x)
         /\ \A sign \in Sign : LET t == BeUnit(s, x, sign)
                               IN  Touches(s, t, x) /\ t.num[x].nz = 0
         /\ \A y \in Name : LET t == CopyConstruct(s, x, y)
                            IN  Touches(s, t, x) /\ t.num[x] = s.num[y]
<1>1. s.num \in [Name -> Nums] /\ s.num[x] \in Nums
  BY DEF Fields
<1>2. ASSUME NEW a, SameNums(s, a), NEW m \in Nums
      PROVE  Touches(s, [a EXCEPT !.num[x] = m], x) /\ [a EXCEPT !.num[x] = m].num[x] = m
  <2> DEFINE t == [a EXCEPT !.num[x] = m]
  <2>1. a.num = s.num /\ {"mem", "mag", "num"} \subseteq DOMAIN a
    BY <1>2 DEF SameNums, Fields
  <2>2. t.num = [s.num EXCEPT ![x] = m] /\ {"mem", "mag", "num"} \subseteq DOMAIN t
    BY <2>1
  <2> HIDE DEF t
  <2>3. t.num \in [Name -> Nums] /\ t.num[x] = m /\ \A y \in Name \ {x} : t.num[y] = s.num[y]
    BY <1>1, <2>2
  <2>4. QED
    BY <2>2, <2>3 DEF Touches, Fields, t
<1>3. SameNums(s, s)
  BY DEF SameNums
<1>4. ASSUME NEW sign \in Sign
      PROVE  LET t == SetFlags(s, x, sign)
             IN  /\ Touches(s, t, x)
                 /\ t.num[x].cached = s.num[x].cached /\ t.num[x].nz = s.num[x].nz
  <2> DEFINE m == [s.num[x] EXCEPT !.sign = sign]
  <2>1. m \in Nums /\ m.cached = s.num[x].cached /\ m.nz = s.num[x].nz
    BY <1>1 DEF Nums
  <2>2. SetFlags(s, x, sign) = [s EXCEPT !.num[x] = m]
    BY DEF SetFlags
  <2> HIDE DEF m
  <2>3. QED
    BY <1>2, <1>3, <2>1, <2>2
<1>5. Cools(s, BeginWrite(s, x), x)
  <2> DEFINE m == [s.num[x] EXCEPT !.cached = FALSE, !.nz = 0]
  <2>1. m \in Nums /\ m.cached = FALSE
    BY <1>1 DEF Nums
  <2>2. BeginWrite(s, x) = [s EXCEPT !.num[x] = m]
    BY DEF BeginWrite
  <2> HIDE DEF m
  <2>3. QED
    BY <1>2, <1>3, <2>1, <2>2 DEF Cools, Cold
<1>6. SameNums(s, NewSlice(s, x)) /\ SameNums(s, Append_(NewSlice(s, x), x, 1))
  <2>1. SameNums(s, NewSlice(s, x)) /\ Fields(NewSlice(s, x))
    BY SlicesKeepNums, NumsTwice
  <2>2. QED
    BY <2>1, SlicesKeepNums, NumsTwice
<1>7. Cools(s, BeZero(s, x), x)
  <2>1. ZeroNum \in Nums /\ ZeroNum.cached = FALSE
    BY DEF ZeroNum, Nums, Sign
  <2>2. QED
    BY <1>2, <1>6, <2>1 DEF BeZero, Cools, Cold
<1>8. ASSUME NEW sign \in Sign
      PROVE  LET t == BeUnit(s, x, sign) IN Touches(s, t, x) /\ t.num[x].nz = 0
  <2> DEFINE m == [sign |-> sign, cached |-> TRUE, nz |-> 0]
  <2>1. m \in Nums /\ m.nz = 0
    BY DEF Nums
  <2>2. BeUnit(s, x, sign) = [Append_(NewSlice(s, x), x, 1) EXCEPT !.num[x] = m]
    BY DEF BeUnit
  <2> HIDE DEF m
  <2>3. QED
    BY <1>2, <1>6, <2>1, <2>2
<1>9. ASSUME NEW y \in Name
      PROVE  LET t == CopyConstruct(s, x, y) IN Touches(s, t, x) /\ t.num[x] = s.num[y]
  <2>1. s.num[y] \in Nums /\ SameNums(s, CopySlice(s, x, y))
    BY <1>1, SlicesKeepNums
  <2>2. QED
    BY <1>2, <2>1 DEF CopyConstruct
<1>10. QED
  BY <1>4, <1>5, <1>7, <1>8, <1>9

(* Such stores have their fields.                                          *)
LEMMA ProperFields ==
  ASSUME NEW s, Proper(s)
  PROVE  Fields(s) /\ \A x \in Alive(s) : x \in Name
  BY DEF Proper, Sound, IsStore, Fields, Alive

(* beginWrite() forgets the index, and what writes then finds no other.    *)
LEMMA OwnedCools ==
  ASSUME NEW s, Fields(s), NEW x \in Name
  PROVE  LET t == CloneData(BeginWrite(s, x), x) IN Cools(s, t, x) /\ Fields(t)
<1> DEFINE a == BeginWrite(s, x)
<1>1. Cools(s, a, x)
  BY NumSteps
<1>2. Fields(a)
  BY <1>1, NumsTwice
<1> HIDE DEF a
<1>3. SameNums(a, CloneData(a, x))
  BY <1>2, SlicesKeepNums
<1>4. QED
  BY <1>1, <1>3, NumsTwice DEF a

(* Flags may be set without reset of the index.                            *)
LEMMA FlagsCool ==
  ASSUME NEW s, NEW t, NEW x \in Name, Cools(s, t, x), NEW sign \in Sign
  PROVE  Cools(s, SetFlags(t, x, sign), x)
<1>1. Fields(t)
  BY NumsTwice
<1>2. Touches(t, SetFlags(t, x, sign), x) /\ Cold(SetFlags(t, x, sign), x)
  BY <1>1, NumSteps DEF Cools, Cold
<1>3. QED
  BY <1>2, NumsTwice DEF Cools

(* beOne() and beNegOne() set the index of the one.                        *)
LEMMA UnitRenews ==
  ASSUME NEW s, Proper(s), NEW x \in Name, NEW sign \in Sign
  PROVE  Renews(s, BeUnit(s, x, sign), x)
<1> DEFINE t == BeUnit(s, x, sign)
           one == << 1 >>
<1>1. Touches(s, t, x) /\ t.num[x].nz = 0
  BY ProperFields, NumSteps
<1>2. Words(t, x) = one
  BY BeUnitSound DEF Writes
<1>3. FirstNonZero(one) = 0
  <2>1. one \in Seq(Word) /\ Len(one) = 1 /\ one[1] = 1
    BY BaseProperties DEF Word
  <2>2. FirstAt(one, 0)
    BY <2>1 DEF FirstAt
  <2> HIDE DEF one
  <2>3. QED
    BY <2>1, <2>2, FirstNonZeroIs
<1> HIDE DEF t, one
<1>4. Fresh(t, x)
  BY <1>1, <1>2, <1>3 DEF Fresh
<1>5. QED
  BY <1>1, <1>4 DEF Renews, t

(* assign(): the index is copied with the words.                           *)
LEMMA AssignRenews ==
  ASSUME NEW s, Proper(s), NEW x \in Name, NEW y \in Alive(s), Fresh(s, x), Fresh(s, y)
  PROVE  Renews(s, Assign(s, x, y), x)
<1>1. Fields(s) /\ y \in Name
  BY ProperFields
<1>2. CASE x = y
  BY <1>1, <1>2 DEF Assign, Renews, Touches
<1>3. CASE x # y
  <2> DEFINE t == CopyConstruct(s, x, y)
  <2>1. Touches(s, t, x) /\ t.num[x] = s.num[y]
    BY <1>1, NumSteps
  <2>2. Words(t, x) = Words(s, y)
    BY CopyConstructSound DEF Writes
  <2> HIDE DEF t
  <2>3. Renews(s, t, x)
    BY <2>1, <2>2 DEF Renews, Fresh
  <2>4. QED
    BY <1>3, <2>3 DEF Assign, t
<1>4. QED
  BY <1>2, <1>3

(* negate() and abs() leave the magnitude alone, and with it the index.    *)
LEMMA NegateRenews ==
  ASSUME NEW s, Proper(s), NEW x \in Alive(s), Fresh(s, x)
  PROVE  Renews(s, Negate(s, x), x) /\ Renews(s, AbsSelf(s, x), x)
<1>1. Fields(s) /\ x \in Name /\ s.num[x] \in Nums
  BY ProperFields DEF Proper
<1>2. Renews(s, s, x)
  BY <1>1 DEF Renews, Touches
<1>3. ASSUME NEW sign \in Sign PROVE Renews(s, SetFlags(s, x, sign), x)
  <2> DEFINE t == SetFlags(s, x, sign)
  <2>1. Touches(s, t, x) /\ t.num[x].cached = s.num[x].cached /\ t.num[x].nz = s.num[x].nz
    BY <1>1, NumSteps
  <2>2. Words(t, x) = Words(s, x)
    BY SetFlagsSound DEF Writes
  <2> HIDE DEF t
  <2>3. QED
    BY <2>1, <2>2 DEF Renews, Fresh, t
<1>4. SignOf(s, x) \in Sign /\ "POSITIVE" \in Sign /\ "NEGATIVE" \in Sign
  BY <1>1 DEF SignOf, Nums, Sign
<1>5. Renews(s, Negate(s, x), x)
  BY <1>2, <1>3, <1>4 DEF Negate, Sign
<1>6. QED
  BY <1>2, <1>5 DEF AbsSelf

(* getU32() fills the cache.                                               *)
LEMMA GetU32Renews ==
  ASSUME NEW s, Proper(s), NEW x, NEW v, Holds(s, x, v), NEW n, Fresh(s, x)
  PROVE  Renews(s, GetU32(s, x, n), x)
<1> DEFINE f == FirstNonZeroU32Index(s, x)
           m == [s.num[x] EXCEPT !.cached = TRUE, !.nz = f]
           t == GetFirstNonZeroU32Index(s, x)
<1>1. /\ x \in Alive(s) /\ x \in Name /\ Words(s, x) \in Seq(Word) /\ Trimmed(Words(s, x))
      /\ SignOf(s, x) = "NEGATIVE" => Words(s, x) # << >>
  BY HoldsCases
<1>2. Fields(s) /\ s.num \in [Name -> Nums] /\ s.num[x] \in Nums
  BY <1>1, ProperFields DEF Proper
<1>3. Renews(s, s, x)
  BY <1>2 DEF Renews, Touches
<1>4. CASE SignOf(s, x) = "NEGATIVE"
  <2>1. FirstNonZero(Words(s, x)) \in Nat
    BY <1>1, <1>4, FirstNonZeroProperties DEF FirstAt
  <2>2. f = FirstNonZero(Words(s, x))
    BY DEF FirstNonZeroU32Index, Fresh
  <2>3. t = [s EXCEPT !.num[x] = m]
    BY DEF GetFirstNonZeroU32Index
  <2> HIDE DEF f, t
  <2>4. m \in Nums /\ m.nz = f
    BY <1>2, <2>1, <2>2 DEF Nums
  <2> HIDE DEF m
  <2>5. /\ Fields(t) /\ t.num[x] = m /\ Words(t, x) = Words(s, x)
        /\ \A y \in Name \ {x} : t.num[y] = s.num[y]
    <3>1. t.num = [s.num EXCEPT ![x] = m] /\ {"mem", "mag", "num"} \subseteq DOMAIN t
          /\ t.mem = s.mem /\ t.mag = s.mag
      BY <1>2, <2>3 DEF Fields
    <3>2. t.num \in [Name -> Nums] /\ t.num[x] = m /\ \A y \in Name \ {x} : t.num[y] = s.num[y]
      BY <1>1, <1>2, <2>4, <3>1
    <3>3. QED
      BY <3>1, <3>2 DEF Fields, Words, Vec
  <2>6. Renews(s, t, x)
    BY <2>2, <2>4, <2>5 DEF Renews, Touches, Fresh
  <2>7. QED
    BY <1>3, <2>6 DEF GetU32, t
<1>5. CASE SignOf(s, x) # "NEGATIVE"
  BY <1>3, <1>5 DEF GetU32
<1>6. QED
  BY <1>4, <1>5

(* assign() leaves a live object.                                          *)
LEMMA AssignSound ==
  ASSUME NEW s, Proper(s), NEW x \in Name, NEW y \in Alive(s)
  PROVE  Proper(Assign(s, x, y)) /\ x \in Alive(Assign(s, x, y))
<1>1. CASE x = y
  BY <1>1 DEF Assign
<1>2. CASE x # y
  BY <1>2, CopyConstructSound, WritesOf DEF Assign
<1>3. QED
  BY <1>1, <1>2

(* Kernels and slices leave a forgotten index forgotten.                   *)
LEMMA StaysCool ==
  ASSUME NEW s, NEW t, NEW r, NEW x \in Name, Cools(s, t, x), SameNums(t, r)
  PROVE  Cools(s, r, x) /\ Fields(r)
  BY NumsTwice

(* swap() swaps the indexes too.                                           *)
LEMMA SwapRenews ==
  ASSUME NEW s, Proper(s), NEW x \in Alive(s), NEW y \in Alive(s), x # y,
         Fresh(s, x), Fresh(s, y)
  PROVE  LET t == SwapWith(s, x, y)
         IN  /\ Fresh(t, x) /\ Fresh(t, y)
             /\ \A z \in Name \ {x, y} : t.num[z] = s.num[z]
<1> DEFINE a == SwapSlices(s, x, y)
           b == [a EXCEPT !.num[x] = s.num[y]]
           t == [b EXCEPT !.num[y] = s.num[x]]
<1>1. Fields(s) /\ x \in Name /\ y \in Name /\ Sound(s)
  BY ProperFields DEF Proper
<1>2. Words(a, x) = Words(s, y) /\ Words(a, y) = Words(s, x)
  BY <1>1, SwapSlicesSound
<1>3. SameNums(s, a)
  BY <1>1, SlicesKeepNums
<1>4. SwapWith(s, x, y) = t
  BY DEF SwapWith
<1> HIDE DEF a
<1>5. a.num = s.num /\ {"mem", "mag", "num"} \subseteq DOMAIN a /\ DOMAIN s.num = Name
  BY <1>3 DEF SameNums, Fields
<1>6. t.num = [s.num EXCEPT ![x] = s.num[y], ![y] = s.num[x]] /\ t.mem = a.mem /\ t.mag = a.mag
  BY <1>5
<1>7. \A z : Words(t, z) = Words(a, z)
  BY <1>6 DEF Words, Vec
<1> HIDE DEF b, t
<1>8. t.num[x] = s.num[y] /\ t.num[y] = s.num[x] /\ \A z \in Name \ {x, y} : t.num[z] = s.num[z]
  BY <1>1, <1>5, <1>6
<1>9. QED
  BY <1>2, <1>4, <1>7, <1>8 DEF Fresh

(* assign(int64_t).                                                        *)
LEMMA AssignI64Cools ==
  ASSUME NEW s, Fields(s), NEW x \in Name, NEW i \in Int
  PROVE  Cools(s, AssignI64(s, x, i), x)
<1> DEFINE t == CloneData(BeginWrite(s, x), x)
<1>1. Cools(s, t, x) /\ Fields(t)
  BY OwnedCools
<1>2. PICK len, r : AssignI64(s, x, i) =
        IF i = 0 THEN SetFlags(SubSlice(t, x, 0, 0), x, "ZERO")
        ELSE SetFlags(Overwrite(SubSlice(t, x, 0, len), x, r), x, FlagsFor(i > 0))
  BY DEF AssignI64
<1> HIDE DEF t
<1>3. \A l : Cools(s, SubSlice(t, x, 0, l), x) /\ Fields(SubSlice(t, x, 0, l))
  BY <1>1, SlicesKeepNums, StaysCool
<1>4. \A l, u : Cools(s, Overwrite(SubSlice(t, x, 0, l), x, u), x)
  BY <1>3, SlicesKeepNums, StaysCool
<1>5. "ZERO" \in Sign /\ FlagsFor(i > 0) \in Sign
  BY DEF Sign, FlagsFor
<1>6. QED
  BY <1>2, <1>3, <1>4, <1>5, FlagsCool

(* inc() and dec().                                                        *)
LEMMA StepByRenews ==
  ASSUME NEW s, Proper(s), NEW x \in Alive(s), NEW step
  PROVE  Renews(s, StepBy(s, x, step), x)
<1> DEFINE t == CloneData(BeginWrite(s, x), x)
<1>1. Fields(s) /\ x \in Name
  BY ProperFields
<1>2. Cools(s, t, x) /\ Fields(t)
  BY <1>1, OwnedCools
<1>3. Proper(t)
  BY OwnedSound, WritesOf
<1>4. StepBy(s, x, step) = IF Signum(t, x) = 0 THEN BeUnit(t, x, FlagsFor(step = 1))
                           ELSE IF Signum(t, x) = step THEN IncMagOf(t, x)
                           ELSE ZeroIfEmpty(DecMagOf(t, x), x)
  BY DEF StepBy
<1> HIDE DEF t
<1>5. FlagsFor(step = 1) \in Sign
  BY DEF Sign, FlagsFor
<1>6. Renews(s, BeUnit(t, x, FlagsFor(step = 1)), x)
  BY <1>1, <1>2, <1>3, <1>5, UnitRenews, NumsTwice
<1>7. Cools(s, IncMagOf(t, x), x) /\ Cools(s, DecMagOf(t, x), x) /\ Fields(DecMagOf(t, x))
  BY <1>1, <1>2, KernelsKeepNums, StaysCool
<1>8. Cools(s, BeZero(DecMagOf(t, x), x), x)
  BY <1>1, <1>7, NumSteps, NumsTwice
<1>9. QED
  BY <1>4, <1>6, <1>7, <1>8, NumsTwice DEF ZeroIfEmpty

(* The difference is stored where the index has been forgotten.            *)
LEMMA DifferenceCools ==
  ASSUME NEW s, Fields(s), NEW x \in Name, Cold(s, x), NEW y
  PROVE  Cools(s, Difference(s, x, y), x)
<1> DEFINE mine == CloneData(s, x)
           shared == CopySlice(s, "copy", y)
           copy == CloneData(shared, "copy")
           down == SubMagFrom(mine, x, y)
           up == SubMagFrom(copy, "copy", x)
           over == CopySlice(up, x, "copy")
<1>1. PICK c \in BOOLEAN, d \in BOOLEAN, same \in BOOLEAN : Difference(s, x, y) =
        IF c THEN BeZero(s, x)
        ELSE SetFlags(EraseZeros(IF d THEN down ELSE over, x), x, FlagsFor(same))
  BY DEF Difference
<1>2. Cools(s, s, x)
  BY DEF Cools, Touches
<1>3. SameNums(s, mine) /\ Fields(mine) /\ SameNums(s, shared) /\ Fields(shared)
  BY SlicesKeepNums, NumsTwice
<1> HIDE DEF mine, shared
<1>4. SameNums(s, down) /\ Fields(down) /\ SameNums(s, copy) /\ Fields(copy)
  BY <1>3, SlicesKeepNums, KernelsKeepNums, NumsTwice
<1> HIDE DEF down, copy
<1>5. SameNums(s, up) /\ Fields(up)
  BY <1>4, KernelsKeepNums, NumsTwice
<1> HIDE DEF up
<1>6. SameNums(s, over) /\ Fields(over)
  BY <1>5, SlicesKeepNums, NumsTwice
<1> HIDE DEF over
<1>7. SameNums(s, EraseZeros(IF d THEN down ELSE over, x))
  BY <1>4, <1>6, KernelsKeepNums, NumsTwice
<1>8. Cools(s, EraseZeros(IF d THEN down ELSE over, x), x)
  BY <1>2, <1>7, StaysCool
<1>9. FlagsFor(same) \in Sign
  BY DEF Sign, FlagsFor
<1>10. Cools(s, BeZero(s, x), x)
  BY NumSteps
<1>11. QED
  BY <1>1, <1>8, <1>9, <1>10, FlagsCool

(* addAssign() and subAssign().                                            *)
LEMMA SumsRenew ==
  ASSUME NEW s, Proper(s), NEW x \in Alive(s), NEW y \in Alive(s), Fresh(s, x), Fresh(s, y)
  PROVE  Renews(s, AddAssign(s, x, y), x) /\ Renews(s, SubAssign(s, x, y), x)
<1> DEFINE t == BeginWrite(s, x)
           own == CloneData(t, x)
           a == Assign(s, x, y)
<1>1. Fields(s) /\ x \in Name /\ y \in Name
  BY ProperFields
<1>2. Renews(s, s, x)
  BY <1>1 DEF Renews, Touches
<1>3. Cools(s, t, x) /\ Fields(t) /\ Cold(t, x)
  BY <1>1, NumSteps, NumsTwice DEF Cools
<1>4. Renews(s, Difference(t, x, y), x)
  BY <1>1, <1>3, DifferenceCools, NumsTwice
<1>5. Cools(s, own, x) /\ Fields(own)
  BY <1>1, OwnedCools
<1> HIDE DEF own
<1>6. Cools(s, AddMagTo(own, x, y), x)
  BY <1>1, <1>5, KernelsKeepNums, StaysCool
<1>7. Renews(s, AddMagTo(own, x, y), x)
  BY <1>6, NumsTwice
<1>8. Renews(s, a, x)
  BY <1>1, AssignRenews
<1>9. Renews(s, Negate(a, x), x)
  <2>1. Proper(a) /\ x \in Alive(a)
    BY <1>1, AssignSound
  <2> HIDE DEF a
  <2>2. Renews(a, Negate(a, x), x)
    BY <1>8, <2>1, NegateRenews DEF Renews
  <2>3. QED
    BY <1>8, <2>2, NumsTwice
<1>10. Renews(s, BeZero(s, x), x)
  BY <1>1, NumSteps, NumsTwice
<1>11. Renews(s, AddAssign(s, x, y), x)
  <2>1. AddAssign(s, x, y) \in {s, a, AddMagTo(own, x, y), Difference(t, x, y)}
    BY DEF AddAssign, own
  <2> HIDE DEF a, t
  <2>2. QED
    BY <1>2, <1>4, <1>7, <1>8, <2>1
<1>12. Renews(s, SubAssign(s, x, y), x)
  <2>1. SubAssign(s, x, y) \in {s, Negate(a, x), BeZero(s, x), AddMagTo(own, x, y),
                                Difference(t, x, y)}
    BY DEF SubAssign, own
  <2> HIDE DEF a, t
  <2>2. QED
    BY <1>2, <1>4, <1>7, <1>9, <1>10, <2>1
<1>13. QED
  BY <1>11, <1>12

(* mulAssign(): the product of long magnitudes is moved from a local.      *)
LEMMA MulAssignRenews ==
  ASSUME NEW s, Proper(s), NEW x \in Alive(s), NEW y \in Alive(s), Fresh(s, x), Fresh(s, y)
  PROVE  Renews(s, MulAssign(s, x, y), x)
<1> DEFINE sign == FlagsFor(SignOf(s, x) = SignOf(s, y))
           b == BeginWrite(s, x)
           t == SetFlags(b, x, sign)
           w == Words(s, x)[1]
           k == Words(s, y)[1]
           p == GradeSchoolMul(Words(s, x), Words(s, y))
           np == NewSlice(t, "product")
           sub == SubSlice(np, "product", 0, Len(p))
           pr == Overwrite(sub, "product", p)
           mv == MoveSlice(pr, x, "product")
           own == CloneData(t, x)
           cp == CopySlice(t, x, y)
           cown == CloneData(cp, x)
           a == Assign(s, x, y)
<1>1. Fields(s) /\ x \in Name /\ y \in Name
  BY ProperFields
<1>2. Renews(s, s, x)
  BY <1>1 DEF Renews, Touches
<1>3. MulAssign(s, x, y) \in
        {BeZero(s, x), s, Negate(s, x), a, Negate(a, x), MulMagBy(own, x, k),
         MulMagBy(cown, x, w), EraseZeros(mv, x)}
  BY DEF MulAssign
<1>4. sign \in Sign
  BY DEF Sign, FlagsFor
<1> HIDE DEF sign, p, w, k
<1>5. Cools(s, t, x) /\ Fields(t)
  <2>1. Cools(s, b, x)
    BY <1>1, NumSteps
  <2> HIDE DEF b
  <2>2. Cools(s, t, x)
    BY <1>1, <1>4, <2>1, FlagsCool
  <2>3. QED
    BY <2>2, NumsTwice
<1> HIDE DEF t, b
<1>6. Renews(s, BeZero(s, x), x)
  BY <1>1, NumSteps, NumsTwice
<1>7. Renews(s, a, x)
  BY <1>1, AssignRenews
<1>8. Renews(s, Negate(a, x), x)
  <2>1. Proper(a) /\ x \in Alive(a)
    BY <1>1, AssignSound
  <2> HIDE DEF a
  <2>2. Renews(a, Negate(a, x), x)
    BY <1>7, <2>1, NegateRenews DEF Renews
  <2>3. QED
    BY <1>7, <2>2, NumsTwice
<1>9. Renews(s, Negate(s, x), x)
  BY NegateRenews
<1> HIDE DEF a
<1>10. Cools(s, own, x) /\ Fields(own) /\ Cools(s, cp, x) /\ Fields(cp)
  BY <1>1, <1>5, SlicesKeepNums, StaysCool
<1> HIDE DEF own, cp
<1>11. Cools(s, cown, x) /\ Fields(cown)
  BY <1>1, <1>10, SlicesKeepNums, StaysCool
<1> HIDE DEF cown
<1>12. Renews(s, MulMagBy(own, x, k), x) /\ Renews(s, MulMagBy(cown, x, w), x)
  <2>1. Cools(s, MulMagBy(own, x, k), x) /\ Cools(s, MulMagBy(cown, x, w), x)
    BY <1>1, <1>10, <1>11, KernelsKeepNums, StaysCool
  <2>2. QED
    BY <2>1, NumsTwice
<1>13. Cools(s, np, x) /\ Fields(np)
  BY <1>1, <1>5, SlicesKeepNums, StaysCool
<1> HIDE DEF np
<1>14. Cools(s, sub, x) /\ Fields(sub)
  BY <1>1, <1>13, SlicesKeepNums, StaysCool
<1> HIDE DEF sub
<1>15. Cools(s, pr, x) /\ Fields(pr)
  BY <1>1, <1>14, SlicesKeepNums, StaysCool
<1> HIDE DEF pr
<1>16. Cools(s, mv, x) /\ Fields(mv)
  BY <1>1, <1>15, SlicesKeepNums, StaysCool
<1> HIDE DEF mv
<1>17. Cools(s, EraseZeros(mv, x), x)
  BY <1>1, <1>16, KernelsKeepNums, StaysCool
<1>18. Renews(s, EraseZeros(mv, x), x)
  BY <1>17, NumsTwice
<1>19. QED
  BY <1>2, <1>3, <1>6, <1>7, <1>8, <1>9, <1>12, <1>18

(* shiftLeft() and shiftRight().                                           *)
LEMMA ShiftsRenew ==
  ASSUME NEW s, Proper(s), NEW x, NEW v, Holds(s, x, v), Fresh(s, x), NEW n \in Nat
  PROVE  Renews(s, ShiftLeftAssign(s, x, n), x) /\ Renews(s, ShiftRightAssign(s, x, n), x)
<1> DEFINE own == CloneData(BeginWrite(s, x), x)
           left == ShlMagOf(own, x, n)
           t == ShrMagOf(own, x, n)
<1>1. Fields(s) /\ x \in Name /\ x \in Alive(s) /\ Count(s, x) = Len(Words(s, x))
  BY HoldsCases, ProperFields
<1>2. Renews(s, s, x)
  BY <1>1 DEF Renews, Touches
<1>3. Cools(s, own, x) /\ Fields(own)
  BY <1>1, OwnedCools
<1>4. Writes(s, own, x, SignOf(s, x), Words(s, x)) /\ Sole(own, x)
  BY <1>1, OwnedSound
<1>5. ShiftLeftAssign(s, x, n) \in {s, left}
  BY DEF ShiftLeftAssign
<1>6. ShiftRightAssign(s, x, n) \in {s, BeUnit(s, x, "NEGATIVE"), BeZero(s, x)}
      \/ /\ ~ (n \div WordBits >= Count(s, x))
         /\ ShiftRightAssign(s, x, n) \in {BeUnit(t, x, "NEGATIVE"), BeZero(t, x),
                                           IncMagOf(t, x), t}
  BY DEF ShiftRightAssign
<1> HIDE DEF own
<1>7. Cools(s, left, x) /\ Cools(s, t, x) /\ Fields(t)
  BY <1>1, <1>3, KernelsKeepNums, StaysCool
<1>8. Renews(s, left, x) /\ Renews(s, t, x)
  BY <1>7, NumsTwice
<1>9. Proper(t) \/ n \div WordBits >= Count(s, x)
  <2>1. Sound(own) /\ x \in Alive(own) /\ Words(own, x) = Words(s, x)
    BY <1>4, WritesOf DEF Writes
  <2>2. Count(own, x) = Count(s, x) /\ n \div WordBits \in Int /\ Count(s, x) \in Int
    BY <1>1, <2>1, WordsAre, WordBitsAssumption, HoldsCases
  <2>3. n \div WordBits < Count(own, x) \/ n \div WordBits >= Count(s, x)
    BY <2>2
  <2>4. n \div WordBits < Count(own, x) => Differ(own, t, x, ShrMag(Words(own, x), n))
    BY <1>4, <2>1, ShrMagOfSound
  <2>5. QED
    BY <1>4, <2>3, <2>4, ThenDiffer, WritesOf
<1> HIDE DEF left, t
<1>10. "NEGATIVE" \in Sign
  BY DEF Sign
<1>11. Renews(s, BeUnit(s, x, "NEGATIVE"), x) /\ Renews(s, BeZero(s, x), x)
  BY <1>1, <1>10, UnitRenews, NumSteps, NumsTwice
<1>12. Renews(s, BeZero(t, x), x) /\ Renews(s, IncMagOf(t, x), x)
  <2>1. Cools(t, BeZero(t, x), x)
    BY <1>1, <1>7, NumSteps
  <2>2. Cools(s, BeZero(t, x), x)
    BY <1>7, <2>1, NumsTwice
  <2>3. Cools(s, IncMagOf(t, x), x)
    BY <1>1, <1>7, KernelsKeepNums, StaysCool
  <2>4. QED
    BY <2>2, <2>3, NumsTwice
<1>13. ASSUME Proper(t) PROVE Renews(s, BeUnit(t, x, "NEGATIVE"), x)
  BY <1>1, <1>7, <1>10, <1>13, UnitRenews, NumsTwice
<1>14. Renews(s, ShiftRightAssign(s, x, n), x)
  BY <1>2, <1>6, <1>8, <1>9, <1>11, <1>12, <1>13
<1>15. QED
  BY <1>2, <1>5, <1>8, <1>14

(* A forgotten index stays forgotten when both shifts leave other objects. *)
LEMMA ShiftsTouch ==
  ASSUME NEW s, Fields(s), NEW x \in Name, NEW n
  PROVE  Touches(s, ShiftLeftAssign(s, x, n), x) /\ Touches(s, ShiftRightAssign(s, x, n), x)
<1> DEFINE own == CloneData(BeginWrite(s, x), x)
           left == ShlMagOf(own, x, n)
           t == ShrMagOf(own, x, n)
<1>1. Touches(s, s, x)
  BY DEF Touches
<1>2. Cools(s, own, x) /\ Fields(own)
  BY OwnedCools
<1>3. ShiftLeftAssign(s, x, n) \in {s, left}
  BY DEF ShiftLeftAssign
<1>4. ShiftRightAssign(s, x, n) \in {s, BeUnit(s, x, "NEGATIVE"), BeZero(s, x),
                                     BeUnit(t, x, "NEGATIVE"), BeZero(t, x), IncMagOf(t, x), t}
  BY DEF ShiftRightAssign
<1> HIDE DEF own
<1>5. Cools(s, left, x) /\ Cools(s, t, x) /\ Fields(t)
  BY <1>2, KernelsKeepNums, StaysCool
<1> HIDE DEF left, t
<1>6. Touches(s, left, x) /\ Touches(s, t, x)
  BY <1>5, NumsTwice
<1>7. \A p : Fields(p) => Touches(p, BeUnit(p, x, "NEGATIVE"), x) /\ Touches(p, BeZero(p, x), x)
                          /\ Touches(p, IncMagOf(p, x), x)
  <2>1. "NEGATIVE" \in Sign
    BY DEF Sign
  <2>2. QED
    BY <2>1, NumSteps, KernelsKeepNums, NumsTwice
<1>8. /\ Touches(s, BeUnit(s, x, "NEGATIVE"), x) /\ Touches(s, BeZero(s, x), x)
      /\ Touches(s, BeUnit(t, x, "NEGATIVE"), x) /\ Touches(s, BeZero(t, x), x)
      /\ Touches(s, IncMagOf(t, x), x)
  BY <1>5, <1>6, <1>7, NumsTwice
<1>9. QED
  BY <1>1, <1>3, <1>4, <1>6, <1>8

-----------------------------------------------------------------------------
(* Division writes flags and caches of its locals and of its two results.  *)
Confined(s, t, X) == Fields(t) /\ \A y \in Name \ X : t.num[y] = s.num[y]
Within(q, r) == Scratch \cup Copies \cup {q, r}
Chills(s, t, q, r) == Confined(s, t, Within(q, r)) /\ Cold(t, q) /\ Cold(t, r)
Warms(s, t, q, r) == Confined(s, t, Within(q, r)) /\ Fresh(t, q) /\ Fresh(t, r)

(* One step after another: slices, locals, and results that forget.        *)
LEMMA ChillsThen ==
  ASSUME NEW s, NEW t, NEW q \in Name, NEW r \in Name, Chills(s, t, q, r)
  PROVE  /\ Fields(t) /\ Warms(s, t, q, r)
         /\ \A p : SameNums(t, p) => Chills(s, p, q, r)
         /\ \A p, x : x \in Within(q, r) \ {q, r} /\ Touches(t, p, x) => Chills(s, p, q, r)
         /\ \A p, x : x \in {q, r} /\ Cools(t, p, x) => Chills(s, p, q, r)
         /\ \A x \in {q, r} : Chills(s, BeZero(t, x), q, r)
         /\ \A x \in {q, r}, sign \in Sign : Chills(s, SetFlags(t, x, sign), q, r)
<1>1. Fields(t) /\ Cold(t, q) /\ Cold(t, r) /\ \A y \in Name \ Within(q, r) : t.num[y] = s.num[y]
  BY DEF Chills, Confined
<1>2. Warms(s, t, q, r)
  BY DEF Chills, Warms, Cold, Fresh
<1>3. ASSUME NEW p, SameNums(t, p) PROVE Chills(s, p, q, r)
  BY <1>1, <1>3 DEF SameNums, Chills, Confined, Cold
<1>4. ASSUME NEW p, NEW x \in Within(q, r) \ {q, r}, Touches(t, p, x) PROVE Chills(s, p, q, r)
  BY <1>1, <1>4 DEF Touches, Chills, Confined, Cold
<1>5. ASSUME NEW p, NEW x \in {q, r}, Cools(t, p, x) PROVE Chills(s, p, q, r)
  <2>1. x \in Within(q, r)
    BY DEF Within
  <2>2. Fields(p) /\ Cold(p, x) /\ \A y \in Name \ {x} : p.num[y] = t.num[y]
    BY <1>5 DEF Cools, Touches
  <2>3. Cold(p, q) /\ Cold(p, r)
    BY <1>1, <2>2 DEF Cold
  <2>4. QED
    BY <1>1, <2>1, <2>2, <2>3 DEF Chills, Confined
<1>6. \A x \in {q, r} : Chills(s, BeZero(t, x), q, r)
  BY <1>1, <1>5, NumSteps
<1>7. ASSUME NEW x \in {q, r}, NEW sign \in Sign PROVE Chills(s, SetFlags(t, x, sign), q, r)
  <2>1. Touches(t, SetFlags(t, x, sign), x) /\ Cold(SetFlags(t, x, sign), x)
    BY <1>1, NumSteps DEF Cold
  <2>2. QED
    BY <1>5, <2>1 DEF Cools
<1>8. QED
  BY <1>1, <1>2, <1>3, <1>4, <1>5, <1>6, <1>7

(* The sign of a result is set last, which leaves words and index.         *)
LEMMA WarmsThen ==
  ASSUME NEW s, NEW t, NEW q \in Name, NEW r \in Name, Warms(s, t, q, r),
         NEW x \in {q, r}, NEW sign \in Sign
  PROVE  Warms(s, SetFlags(t, x, sign), q, r) /\ Warms(s, SetUnlessZero(t, x, sign), q, r)
<1> DEFINE p == SetFlags(t, x, sign)
<1>1. /\ Fields(t) /\ x \in Name /\ x \in Within(q, r) /\ Fresh(t, q) /\ Fresh(t, r)
      /\ \A y \in Name \ Within(q, r) : t.num[y] = s.num[y]
  BY DEF Warms, Confined, Within
<1>2. Touches(t, p, x) /\ p.num[x].cached = t.num[x].cached /\ p.num[x].nz = t.num[x].nz
  BY <1>1, NumSteps
<1>3. \A y : Words(p, y) = Words(t, y)
  <2>1. p.mem = t.mem /\ p.mag = t.mag
    BY DEF SetFlags
  <2> HIDE DEF p
  <2>2. QED
    BY <2>1 DEF Words, Vec
<1> HIDE DEF p
<1>4. \A y \in {q, r} : p.num[y].cached = t.num[y].cached /\ p.num[y].nz = t.num[y].nz
  BY <1>2 DEF Touches
<1>5. Fresh(p, q) /\ Fresh(p, r)
  BY <1>1, <1>3, <1>4 DEF Fresh
<1>6. Warms(s, p, q, r)
  BY <1>1, <1>2, <1>5 DEF Touches, Warms, Confined
<1>7. QED
  BY <1>6 DEF SetUnlessZero, p

(* knuthDivImpl() forgets nothing, and finds the indexes forgotten.        *)
LEMMA KnuthChills ==
  ASSUME NEW o, NEW s, NEW q \in Name \ (Scratch \cup Copies), NEW r \in Name \ (Scratch \cup Copies),
         Chills(o, s, q, r), NEW u \in Name, NEW v \in Name
  PROVE  Chills(o, KnuthDivImpl(s, q, r, u, v), q, r)
<1> DEFINE U == "uDividend"
           V == "vDivisor"
           A == "qArr"
           n == NormShift(Words(s, v))
           c == CopyConstruct(s, U, u)
           d == CopyConstruct(c, V, v)
           e == ShiftLeftAssign(d, U, n)
           f == ShiftLeftAssign(e, V, n)
           g == Append_(f, U, 0)
           k == KnuthLoop(Words(g, U), Words(g, V))
           h == Overwrite(g, U, k.u)
           i == NewSlice(h, A)
           j == SubSlice(i, A, 0, Len(k.q))
           l == Overwrite(j, A, k.q)
           m == SetFlags(l, q, "POSITIVE")
           p == SetFlags(m, r, "POSITIVE")
           w == EraseZeros(p, A)
           x == MoveSlice(w, q, A)
           y == EraseZeros(x, U)
           z == ShiftRightAssign(y, U, n)
           a == MoveSlice(z, r, U)
<1>1. KnuthDivImpl(s, q, r, u, v) = ZeroIfEmpty(a, r)
  BY DEF KnuthDivImpl, KnuthDigits, StoreDigits
<1>2. /\ U \in Name /\ V \in Name /\ A \in Name
      /\ {U, V, A} \subseteq Within(q, r) \ {q, r}
  BY NameAssumption DEF Local, Within, Scratch
<1>3. "POSITIVE" \in Sign /\ q \in {q, r} /\ r \in {q, r} /\ q \in Name /\ r \in Name
  BY DEF Sign
<1> DEFINE C(t) == Chills(o, t, q, r)
<1>4. /\ \A t : C(t) => Fields(t) /\ C(BeZero(t, r))
      /\ \A t, t1 : C(t) /\ SameNums(t, t1) => C(t1)
      /\ \A t, t1, b : C(t) /\ b \in {U, V, A} /\ Touches(t, t1, b) => C(t1)
      /\ \A t : C(t) => C(SetFlags(t, q, "POSITIVE")) /\ C(SetFlags(t, r, "POSITIVE"))
  BY <1>2, <1>3, ChillsThen
<1>5. C(s)
  OBVIOUS
<1> HIDE DEF C, U, V, A, n, k
<1>6. C(c)
  BY <1>2, <1>4, <1>5, NumSteps
<1> HIDE DEF c
<1>7. C(d)
  BY <1>2, <1>4, <1>6, NumSteps
<1> HIDE DEF d
<1>8. C(e)
  BY <1>2, <1>4, <1>7, ShiftsTouch
<1> HIDE DEF e
<1>9. C(f)
  BY <1>2, <1>4, <1>8, ShiftsTouch
<1> HIDE DEF f
<1>10. C(g)
  BY <1>4, <1>9, SlicesKeepNums
<1> HIDE DEF g
<1>11. C(h)
  BY <1>4, <1>10, SlicesKeepNums
<1> HIDE DEF h
<1>12. C(i)
  BY <1>4, <1>11, SlicesKeepNums
<1> HIDE DEF i
<1>13. C(j)
  BY <1>4, <1>12, SlicesKeepNums
<1> HIDE DEF j
<1>14. C(l)
  BY <1>4, <1>13, SlicesKeepNums
<1> HIDE DEF l
<1>15. C(m)
  BY <1>4, <1>14
<1> HIDE DEF m
<1>16. C(p)
  BY <1>4, <1>15
<1> HIDE DEF p
<1>17. C(w)
  BY <1>4, <1>16, KernelsKeepNums
<1> HIDE DEF w
<1>18. C(x)
  BY <1>4, <1>17, SlicesKeepNums
<1> HIDE DEF x
<1>19. C(y)
  BY <1>4, <1>18, KernelsKeepNums
<1> HIDE DEF y
<1>20. C(z)
  BY <1>2, <1>4, <1>19, ShiftsTouch
<1> HIDE DEF z
<1>21. C(a)
  BY <1>4, <1>20, SlicesKeepNums
<1> HIDE DEF a
<1>22. C(ZeroIfEmpty(a, r))
  BY <1>4, <1>21 DEF ZeroIfEmpty
<1>23. QED
  BY <1>1, <1>22 DEF C

(* Division by one word: the quotient of a division by one keeps the index *)
(* of the dividend it is a copy of.                                        *)
LEMMA ShortWarms ==
  ASSUME NEW o, NEW s, Proper(s), NEW q \in Alive(s), NEW r \in Alive(s), q # r,
         Confined(o, s, Within(q, r)), Fresh(s, q), Cold(s, r), NEW w \in Word, w # 0
  PROVE  Warms(o, DivideAssignAndReminderByU32(s, q, w, r), q, r)
<1> DEFINE t == CloneData(BeginWrite(s, q), q)
           d == DivideByWord(Words(t, q), w)
           ov == Overwrite(t, q, d.q)
           qt == EraseZeros(ov, q)
           sgn == FlagsFor(SignOf(s, q) = "POSITIVE")
           dn == IF Count(qt, q) = 0 THEN BeZero(qt, q) ELSE SetFlags(qt, q, sgn)
           re == AssignI64(dn, r, d.r)
           z == BeZero(s, r)
<1>1. DivideAssignAndReminderByU32(s, q, w, r) \in {z, SetFlags(z, q, sgn), re, SetFlags(re, r, sgn)}
  BY DEF DivideAssignAndReminderByU32
<1>2. Fields(s) /\ q \in Name /\ r \in Name /\ sgn \in Sign
  BY ProperFields DEF Sign, FlagsFor
<1>3. d.r \in Int
  <2>1. Writes(s, t, q, SignOf(s, q), Words(s, q))
    BY OwnedSound
  <2> HIDE DEF t
  <2>2. Words(t, q) \in Seq(Word) /\ w \in Nat /\ w >= 1
    <3>1. Sound(t) /\ q \in Alive(t)
      BY <2>1, WritesOf
    <3>2. Words(t, q) \in Seq(Word)
      BY <3>1, WordsAre
    <3>3. w \in Nat /\ w >= 1
      BY BaseProperties DEF Word
    <3>4. QED
      BY <3>2, <3>3
  <2>3. d.r \in 0 .. w - 1
    BY <2>2, DivideByWordExact
  <2>4. QED
    BY <2>2, <2>3
<1> HIDE DEF sgn
<1>4. Warms(o, z, q, r)
  <2>1. Cools(s, z, r)
    BY <1>2, NumSteps
  <2>2. Words(z, q) = Words(s, q)
    BY BeZeroSound, <1>2 DEF Writes, Preserves
  <2> HIDE DEF z
  <2>3. Fields(z) /\ Cold(z, r) /\ \A y \in Name \ {r} : z.num[y] = s.num[y]
    BY <2>1 DEF Cools, Touches
  <2>4. Fresh(z, q) /\ Fresh(z, r)
    BY <1>2, <2>2, <2>3 DEF Fresh, Cold
  <2>5. QED
    BY <2>3, <2>4 DEF Warms, Confined, Within
<1> HIDE DEF z
<1>5. Chills(o, t, q, r)
  <2>1. Cools(s, t, q)
    BY <1>2, OwnedCools
  <2> HIDE DEF t
  <2>2. Fields(t) /\ Cold(t, q) /\ \A y \in Name \ {q} : t.num[y] = s.num[y]
    BY <2>1 DEF Cools, Touches
  <2>3. QED
    BY <1>2, <2>2 DEF Chills, Confined, Within, Cold
<1> HIDE DEF t, d
<1>6. Chills(o, ov, q, r)
  BY <1>2, <1>5, ChillsThen, SlicesKeepNums
<1> HIDE DEF ov
<1>7. Chills(o, qt, q, r)
  BY <1>2, <1>6, ChillsThen, KernelsKeepNums
<1> HIDE DEF qt
<1>8. Chills(o, dn, q, r) /\ Fields(dn)
  <2>1. Chills(o, BeZero(qt, q), q, r) /\ Chills(o, SetFlags(qt, q, sgn), q, r)
    BY <1>2, <1>7, ChillsThen
  <2>2. Chills(o, dn, q, r)
    BY <2>1
  <2> HIDE DEF dn
  <2>3. QED
    BY <1>2, <2>2, ChillsThen
<1> HIDE DEF dn
<1>9. Chills(o, re, q, r)
  <2>1. Cools(dn, re, r)
    BY <1>2, <1>3, <1>8, AssignI64Cools
  <2>2. QED
    BY <1>2, <1>8, <2>1, ChillsThen
<1> HIDE DEF re
<1>10. Warms(o, re, q, r)
  BY <1>2, <1>9, ChillsThen
<1>11. Warms(o, SetFlags(z, q, sgn), q, r) /\ Warms(o, SetFlags(re, r, sgn), q, r)
  BY <1>2, <1>4, <1>10, WarmsThen
<1>12. QED
  BY <1>1, <1>4, <1>10, <1>11

(* div() knows the indexes of what it leaves in results that had none.     *)
LEMMA DivWarms ==
  ASSUME NEW s, Proper(s), NEW a, NEW b, NEW v, NEW u, Holds(s, a, v), Holds(s, b, u), u # 0,
         NEW q \in Alive(s), NEW r \in Alive(s), q # r, q # a, q # b, r # a, r # b,
         (Scratch \cup Copies) \cap Alive(s) = {},
         Cold(s, q), Cold(s, r), Fresh(s, a)
  PROVE  Warms(s, Div(s, q, r, a, b), q, r)
<1> DEFINE D == "dividend"
           S == "divisor"
           c1 == CopyConstruct(s, D, a)
           s1 == SetFlags(c1, D, "POSITIVE")
           c2 == CopyConstruct(s1, S, b)
           s2 == SetFlags(c2, S, "POSITIVE")
           q1 == Assign(s2, q, a)
           w == Words(q1, b)[1]
           qr == DivideAssignAndReminderByU32(q1, q, w, r)
           own == CloneData(BeginWrite(s2, D), D)
           al == AsLong(own)
           kn == KnuthDivImpl(al, q, r, D, S)
           fs == FlagsFor(SignOf(s, a) = SignOf(s, b))
           g == SignOf(s, a)
           t == Div(s, q, r, a, b)
           z == BeZero(s2, q)
           n == BeUnit(s2, q, fs)
           as == Assign(z, r, D)
<1>1. \/ t = BeZero(z, r)
      \/ /\ SignOf(s, a) # "ZERO" /\ Count(s, b) = 1
         /\ t = SetUnlessZero(SetUnlessZero(qr, q, fs), r, g)
      \/ t = BeZero(n, r)
      \/ t = SetFlags(as, r, g)
      \/ t = SetUnlessZero(SetFlags(kn, q, fs), r, g)
  BY DEF Div
<1>2. /\ a \in Alive(s) /\ b \in Alive(s) /\ a \in Name /\ b \in Name /\ q \in Name /\ r \in Name
      /\ D \in Name /\ S \in Name /\ D # S /\ Fields(s)
      /\ a \notin {D, S} /\ b \notin {D, S} /\ {q, r} \cap (Scratch \cup Copies) = {}
      /\ D \in Within(q, r) \ {q, r} /\ S \in Within(q, r) \ {q, r}
  <2>1. D \in Copies /\ S \in Copies /\ D \in Name /\ S \in Name /\ D # S
    BY NameAssumption DEF Local, Copies
  <2>2. a \in Alive(s) /\ b \in Alive(s) /\ Fields(s) /\ \A y \in Alive(s) : y \in Name
    BY ProperFields DEF Holds
  <2> HIDE DEF D, S
  <2>3. QED
    BY <2>1, <2>2 DEF Within
<1>3. fs \in Sign /\ g \in Sign
  BY <1>2 DEF FlagsFor, Sign, SignOf, Proper, Alive, Nums
<1> HIDE DEF t, qr, kn, as, n, z, q1, w, own, al, fs, g, D, S
<1>4. Writes(s, c1, D, SignOf(s, a), Words(s, a)) /\ Touches(s, c1, D) /\ c1.num[D] = s.num[a]
  BY <1>2, CopyConstructSound, NumSteps
<1> HIDE DEF c1
<1>5. /\ Writes(c1, s1, D, "POSITIVE", Words(s, a)) /\ Touches(c1, s1, D)
      /\ s1.num[D].cached = s.num[a].cached /\ s1.num[D].nz = s.num[a].nz
  <2>1. Proper(c1) /\ D \in Alive(c1) /\ Words(c1, D) = Words(s, a) /\ Fields(c1)
    BY <1>4, WritesOf DEF Writes, Touches
  <2>2. "POSITIVE" \in Sign
    BY DEF Sign
  <2>3. QED
    BY <1>2, <1>4, <2>1, <2>2, SetFlagsSound, NumSteps
<1> HIDE DEF s1
<1>6. /\ Proper(s1) /\ D \in Alive(s1) /\ Words(s1, D) = Words(s, a) /\ Fields(s1)
      /\ \A y \in Alive(s) \ {D} : y \in Alive(s1) /\ Words(s1, y) = Words(s, y)
      /\ \A y \in Name \ {D} : s1.num[y] = s.num[y]
  BY <1>4, <1>5 DEF Writes, Preserves, Touches
<1>7. Writes(s1, c2, S, SignOf(s1, b), Words(s1, b)) /\ Touches(s1, c2, S)
  BY <1>2, <1>6, CopyConstructSound, NumSteps
<1> HIDE DEF c2
<1>8. Writes(c2, s2, S, "POSITIVE", Words(s1, b)) /\ Touches(c2, s2, S)
  <2>1. Proper(c2) /\ S \in Alive(c2) /\ Words(c2, S) = Words(s1, b) /\ Fields(c2)
    BY <1>7, WritesOf DEF Writes, Touches
  <2>2. "POSITIVE" \in Sign
    BY DEF Sign
  <2>3. QED
    BY <1>2, <2>1, <2>2, SetFlagsSound, NumSteps
<1> HIDE DEF s2
<1>9. /\ Proper(s2) /\ Fields(s2) /\ D \in Alive(s2) /\ Words(s2, D) = Words(s, a)
      /\ s2.num[D].cached = s.num[a].cached /\ s2.num[D].nz = s.num[a].nz
      /\ \A y \in Alive(s) \ {D, S} : y \in Alive(s2) /\ Words(s2, y) = Words(s, y)
      /\ \A y \in Name \ {D, S} : s2.num[y] = s.num[y]
  BY <1>2, <1>5, <1>6, <1>7, <1>8 DEF Writes, Preserves, Touches
<1>10. /\ Chills(s, s2, q, r) /\ Confined(s, s2, Within(q, r))
       /\ q \in Alive(s2) /\ r \in Alive(s2) /\ a \in Alive(s2)
       /\ Fresh(s2, q) /\ Fresh(s2, a) /\ Fresh(s2, D) /\ Cold(s2, q) /\ Cold(s2, r)
  <2>1. q \notin {D, S} /\ r \notin {D, S}
    BY <1>2
  <2>2. Cold(s2, q) /\ Cold(s2, r) /\ q \in Alive(s2) /\ r \in Alive(s2) /\ a \in Alive(s2)
    BY <1>2, <1>9, <2>1 DEF Cold
  <2>3. Fresh(s2, q) /\ Fresh(s2, a) /\ Fresh(s2, D)
    BY <1>2, <1>9, <2>2 DEF Fresh, Cold
  <2>4. Confined(s, s2, Within(q, r))
    BY <1>2, <1>9 DEF Confined
  <2>5. QED
    BY <2>2, <2>3, <2>4 DEF Chills
<1>11. ASSUME t = BeZero(z, r) PROVE Warms(s, t, q, r)
  <2>1. Chills(s, z, q, r)
    BY <1>2, <1>10, ChillsThen DEF z
  <2>2. QED
    BY <1>2, <1>11, <2>1, ChillsThen
<1>12. ASSUME SignOf(s, a) # "ZERO", Count(s, b) = 1,
              t = SetUnlessZero(SetUnlessZero(qr, q, fs), r, g)
       PROVE  Warms(s, t, q, r)
  <2>1. Proper(q1) /\ q \in Alive(q1) /\ r \in Alive(q1) /\ Words(q1, b) = Words(s, b)
    <3>1. Writes(s2, q1, q, SignOf(s2, a), Words(s2, a))
      BY <1>2, <1>10, <1>9, CopyConstructSound DEF q1, Assign
    <3>2. q1 = q1 /\ b \in Alive(s2) \ {q} /\ Words(s2, b) = Words(s, b) /\ r \in Alive(s2) \ {q}
      BY <1>2, <1>9, <1>10
    <3>3. QED
      BY <3>1, <3>2 DEF Writes, Preserves
  <2>2. Renews(s2, q1, q)
    BY <1>2, <1>9, <1>10, AssignRenews DEF q1
  <2>3. Confined(s, q1, Within(q, r)) /\ Fresh(q1, q) /\ Cold(q1, r)
    <3>1. Fields(q1) /\ Fresh(q1, q) /\ \A y \in Name \ {q} : q1.num[y] = s2.num[y]
      BY <2>2 DEF Renews, Touches
    <3>2. QED
      BY <1>2, <1>10, <3>1 DEF Confined, Within, Cold
  <2>4. w \in Word /\ w # 0
    <3> DEFINE B == Words(s, b)
    <3>1. B \in Seq(Word) /\ Trimmed(B) /\ Count(s, b) = Len(B)
      <4> HIDE DEF B
      <4>1. QED
        BY HoldsCases DEF B
    <3>2. w = B[1] /\ Len(B) = 1
      BY <1>12, <2>1, <3>1 DEF w
    <3> HIDE DEF B
    <3>3. QED
      BY <3>1, <3>2 DEF Trimmed
  <2>5. Warms(s, qr, q, r)
    BY <2>1, <2>3, <2>4, ShortWarms DEF qr
  <2>6. QED
    BY <1>2, <1>3, <1>12, <2>5, WarmsThen
<1>13. ASSUME t = BeZero(n, r) PROVE Warms(s, t, q, r)
  <2>1. Renews(s2, n, q) /\ Writes(s2, n, q, fs, << 1 >>)
    BY <1>2, <1>3, <1>9, UnitRenews, BeUnitSound DEF n
  <2>2. /\ Proper(n) /\ q \in Alive(n) /\ Fresh(n, q) /\ Fields(n)
        /\ \A y \in Name \ {q} : n.num[y] = s2.num[y]
    BY <2>1, WritesOf DEF Renews, Touches
  <2>3. Cools(n, t, r) /\ Words(t, q) = Words(n, q)
    <3>1. Writes(n, BeZero(n, r), r, "ZERO", << >>)
      BY <1>2, <2>2, BeZeroSound
    <3>2. QED
      BY <1>2, <1>13, <2>2, <3>1, NumSteps DEF Writes, Preserves
  <2>4. Fields(t) /\ Cold(t, r) /\ \A y \in Name \ {r} : t.num[y] = n.num[y]
    BY <2>3 DEF Cools, Touches
  <2>5. Fresh(t, q) /\ Fresh(t, r)
    BY <1>2, <2>2, <2>3, <2>4 DEF Fresh, Cold
  <2>6. QED
    BY <1>10, <2>2, <2>4, <2>5 DEF Warms, Confined, Within
<1>14. ASSUME t = SetFlags(as, r, g) PROVE Warms(s, t, q, r)
  <2>1. Chills(s, z, q, r) /\ Cools(s2, z, q)
    BY <1>2, <1>9, <1>10, ChillsThen, NumSteps DEF z
  <2>2. Writes(s2, z, q, "ZERO", << >>)
    BY <1>2, <1>9, BeZeroSound DEF z
  <2>3. /\ Proper(z) /\ D \in Alive(z) /\ Words(z, D) = Words(s2, D) /\ z.num[D] = s2.num[D]
        /\ q \in Alive(z)
    BY <1>2, <1>9, <1>10, <2>1, <2>2 DEF Writes, Preserves, Cools, Touches
  <2>4. Fresh(z, r) /\ Fresh(z, D) /\ Cold(z, q)
    BY <1>10, <2>1, <2>3 DEF Fresh, Chills, Cold
  <2>5. Renews(z, as, r)
    BY <1>2, <2>3, <2>4, AssignRenews DEF as
  <2>6. Fields(as) /\ Fresh(as, r) /\ \A y \in Name \ {r} : as.num[y] = z.num[y]
    BY <2>5 DEF Renews, Touches
  <2>7. Fresh(as, q)
    BY <1>2, <2>4, <2>6 DEF Cold, Fresh
  <2>8. Warms(s, as, q, r)
    BY <2>1, <2>6, <2>7 DEF Warms, Chills, Confined, Within
  <2>9. QED
    BY <1>2, <1>3, <1>14, <2>8, WarmsThen
<1>15. ASSUME t = SetUnlessZero(SetFlags(kn, q, fs), r, g) PROVE Warms(s, t, q, r)
  <2>1. Chills(s, own, q, r)
    <3>1. Touches(s2, own, D)
      BY <1>2, <1>9, OwnedCools, NumsTwice DEF own
    <3>2. QED
      BY <1>2, <1>10, <3>1, ChillsThen
  <2>2. Chills(s, al, q, r)
    <3>1. SameNums(own, al)
      <4>1. Fields(own)
        BY <1>2, <2>1, ChillsThen
      <4>2. al \in {own, Append_(own, D, 0)}
        BY DEF al, AsLong, D
      <4>3. QED
        BY <4>1, <4>2, SlicesKeepNums DEF SameNums
    <3>2. QED
      BY <1>2, <2>1, <3>1, ChillsThen
  <2>3. Chills(s, kn, q, r)
    BY <1>2, <2>2, KnuthChills DEF kn
  <2>4. Warms(s, SetFlags(kn, q, fs), q, r)
    BY <1>2, <1>3, <2>3, ChillsThen, WarmsThen
  <2>5. QED
    BY <1>2, <1>3, <1>15, <2>4, WarmsThen
<1>16. QED
  BY <1>1, <1>11, <1>12, <1>13, <1>14, <1>15 DEF t

(* The operands' results, moved: whatever index the dividend had.          *)
LEMMA DividedWarms ==
  ASSUME NEW s, Proper(s), NEW x, NEW y, NEW v, NEW u, Holds(s, x, v), Holds(s, y, u), u # 0,
         NEW q \in Alive(s), NEW r \in Alive(s), q # r, q # x, q # y, r # x, r # y,
         (Scratch \cup Copies) \cap Alive(s) = {},
         Cold(s, q), Cold(s, r), Fresh(s, x), NEW l \in {q, r}
  PROVE  LET t == MoveAssign(Div(s, q, r, x, y), x, l)
         IN  /\ Fresh(t, x) /\ \A k \in {q, r} \ {l} : Fresh(t, k)
             /\ Confined(s, t, Within(q, r) \cup {x})
<1> DEFINE d == Div(s, q, r, x, y)
           m == MoveSlice(d, x, l)
           t == MoveAssign(d, x, l)
<1>1. Preserves(s, d, {q, r}) /\ q \in Alive(d) /\ r \in Alive(d)
  BY DivExact DEF Holds
<1>2. Warms(s, d, q, r)
  BY DivWarms
<1>3. x \in Name /\ x # l /\ q \in Name /\ r \in Name
  BY HoldsCases, ProperFields
<1>4. t = [m EXCEPT !.num[x] = d.num[l]]
  BY DEF MoveAssign
<1> HIDE DEF d
<1>5. Proper(d) /\ Fields(d) /\ l \in Alive(d) /\ l \in Name /\ d.num[l] \in Nums
  BY <1>1, ProperFields DEF Preserves, Fields
<1>6. /\ Words(m, x) = Words(d, l) /\ SameNums(d, m)
      /\ \A k \in Alive(d) \ {x, l} : Words(m, k) = Words(d, k)
  BY <1>3, <1>5, MoveSliceWrites, SlicesKeepNums DEF Preserves
<1> HIDE DEF m
<1>7. /\ Fields(t) /\ t.num[x] = d.num[l] /\ \A k \in Name \ {x} : t.num[k] = d.num[k]
      /\ t.mem = m.mem /\ t.mag = m.mag
  BY <1>3, <1>4, <1>5, <1>6 DEF SameNums, Fields
<1> HIDE DEF t
<1>8. \A k : Words(t, k) = Words(m, k)
  BY <1>7 DEF Words, Vec
<1>9. Fresh(t, x)
  BY <1>2, <1>6, <1>7, <1>8 DEF Fresh, Warms
<1>10. ASSUME NEW k \in {q, r} \ {l} PROVE Fresh(t, k)
  <2>1. k \in Alive(d) \ {x, l} /\ k \in Name \ {x} /\ Fresh(d, k)
    BY <1>1, <1>2, <1>3 DEF Warms
  <2>2. QED
    BY <1>6, <1>7, <1>8, <2>1 DEF Fresh
<1>11. Confined(s, t, Within(q, r) \cup {x})
  BY <1>2, <1>7 DEF Warms, Confined
<1>12. QED
  BY <1>9, <1>10, <1>11 DEF t, d

(* A local has no index, and no object's changes for it.                   *)
LEMMA LocalCold ==
  ASSUME NEW s, Proper(s), NEW l \in {"q", "r"}, l \notin Alive(s)
  PROVE  LET z == BeZero(s, l)
         IN  /\ Cold(z, l) /\ \A k \in Name \ {l} : z.num[k] = s.num[k]
             /\ \A k \in Alive(s) : /\ Fresh(s, k) => Fresh(z, k)
                                    /\ Cold(s, k) => Cold(z, k)
<1> DEFINE z == BeZero(s, l)
<1>1. l \in Name /\ Fields(s) /\ \A k \in Alive(s) : k \in Name \ {l}
  BY NameAssumption, ProperFields DEF Local
<1>2. Cools(s, z, l) /\ Writes(s, z, l, "ZERO", << >>)
  BY <1>1, NumSteps, BeZeroSound
<1> HIDE DEF z
<1>3. Cold(z, l) /\ \A k \in Name \ {l} : z.num[k] = s.num[k]
  BY <1>2 DEF Cools, Touches
<1>4. \A k \in Alive(s) : Words(z, k) = Words(s, k) /\ z.num[k] = s.num[k]
  BY <1>1, <1>2, <1>3 DEF Writes, Preserves
<1>5. QED
  BY <1>3, <1>4 DEF z, Fresh, Cold

(* divideAssign() leaves the index of its quotient.                        *)
LEMMA DivAssignWarms ==
  ASSUME NEW s, Proper(s), Undivided(s), NEW x \in Obj, NEW y, NEW v, NEW u,
         Holds(s, x, v), Holds(s, y, u), u # 0, Fresh(s, x)
  PROVE  LET t == DivAssign(s, x, y)
         IN  Fresh(t, x) /\ \A k \in Obj \ {x} : t.num[k] = s.num[k]
<1> DEFINE q == "q"
           r == "r"
           z == BeZero(s, r)
           o == BeZero(z, q)
           t == DivAssign(s, x, y)
<1>1. /\ q \in {"q", "r"} /\ r \in {"q", "r"} /\ q # r /\ q \notin Alive(s) /\ r \notin Alive(s)
      /\ (Scratch \cup Copies) \cap Alive(s) = {} /\ x \in Alive(s) /\ y \in Alive(s)
      /\ t = MoveAssign(Div(o, q, r, x, y), x, q) /\ q \in {q, r} /\ q \in Name
  BY NameAssumption DEF Undivided, Holds, DivAssign, Local
<1>2. Obj \cap Within(q, r) = {} /\ Obj \subseteq Name
  BY NameAssumption DEF Within, Scratch, Copies, Local
<1> HIDE DEF q, r
<1>3. /\ Proper(z) /\ r \in Alive(z) /\ Alive(z) = Alive(s) \cup {r}
      /\ (Scratch \cup Copies) \cap Alive(z) = {} /\ Holds(z, x, v) /\ Holds(z, y, u)
      /\ Fresh(z, x) /\ Cold(z, r) /\ \A k \in Name \ {r} : z.num[k] = s.num[k]
  BY <1>1, LocalLives, LocalCold
<1> HIDE DEF z
<1>4. /\ Proper(o) /\ q \in Alive(o) /\ Alive(o) = Alive(z) \cup {q}
      /\ (Scratch \cup Copies) \cap Alive(o) = {} /\ Holds(o, x, v) /\ Holds(o, y, u)
      /\ Fresh(o, x) /\ Cold(o, q) /\ Cold(o, r) /\ \A k \in Name \ {q} : o.num[k] = z.num[k]
  <2>1. q \notin Alive(z) /\ x \in Alive(z)
    BY <1>1, <1>3
  <2>2. QED
    BY <1>1, <1>3, <2>1, LocalLives, LocalCold
<1> HIDE DEF o, t
<1>5. Fresh(t, x) /\ Confined(o, t, Within(q, r) \cup {x})
  <2>1. r \in Alive(o) /\ q # x /\ q # y /\ r # x /\ r # y
    BY <1>1, <1>3, <1>4
  <2>2. QED
    BY <1>1, <1>4, <2>1, DividedWarms
<1>6. ASSUME NEW k \in Obj \ {x} PROVE t.num[k] = s.num[k]
  <2>1. k \in Name \ (Within(q, r) \cup {x}) /\ k \in Name \ {q} /\ k \in Name \ {r}
    BY <1>2 DEF Within
  <2>2. QED
    BY <1>3, <1>4, <1>5, <2>1 DEF Confined
<1>7. QED
  BY <1>5, <1>6 DEF t

(* With a second result, which goes to an object without an index.         *)
LEMMA DividesBothWarm ==
  ASSUME NEW s, Proper(s), Undivided(s), NEW x \in Obj, NEW y, NEW v, NEW u,
         Holds(s, x, v), Holds(s, y, u), u # 0, NEW r \in Alive(s), r \in Obj, r # x, r # y,
         Fresh(s, x), Cold(s, r)
  PROVE  \A t \in {DivideAssignAndReminder(s, x, y, r), ModAssignAndQuotient(s, x, y, r)} :
           Fresh(t, x) /\ Fresh(t, r) /\ \A k \in Obj \ {x, r} : t.num[k] = s.num[k]
<1>1. /\ (Scratch \cup Copies) \cap Alive(s) = {} /\ x \in Alive(s) /\ y \in Alive(s)
      /\ "q" \notin Alive(s) /\ "r" \notin Alive(s)
  BY DEF Undivided, Holds
<1>2. ASSUME NEW l \in {"q", "r"}, l \notin Alive(s),
             NEW t, \/ t = MoveAssign(Div(BeZero(s, l), l, r, x, y), x, l)
                    \/ t = MoveAssign(Div(BeZero(s, l), r, l, x, y), x, l)
      PROVE  Fresh(t, x) /\ Fresh(t, r) /\ \A k \in Obj \ {x, r} : t.num[k] = s.num[k]
  <2> DEFINE z == BeZero(s, l)
  <2>1. /\ Proper(z) /\ l \in Alive(z) /\ Alive(z) = Alive(s) \cup {l}
        /\ (Scratch \cup Copies) \cap Alive(z) = {} /\ Holds(z, x, v) /\ Holds(z, y, u)
        /\ Fresh(z, x) /\ Cold(z, l) /\ Cold(z, r) /\ \A k \in Name \ {l} : z.num[k] = s.num[k]
    BY <1>1, <1>2, LocalLives, LocalCold
  <2>2. t = MoveAssign(Div(z, l, r, x, y), x, l) \/ t = MoveAssign(Div(z, r, l, x, y), x, l)
    BY <1>2
  <2> HIDE DEF z
  <2>3. r \in Alive(z) /\ l # r /\ l # x /\ l # y
    BY <1>1, <1>2, <2>1
  <2>4. Within(r, l) = Within(l, r) /\ Obj \cap (Within(l, r) \ {r}) = {} /\ Obj \subseteq Name
    BY <1>2, NameAssumption DEF Within, Scratch, Copies, Local
  <2>5. Fresh(t, x) /\ Fresh(t, r) /\ Confined(z, t, Within(l, r) \cup {x})
    <3>1. CASE t = MoveAssign(Div(z, l, r, x, y), x, l)
      <4>1. r \in {l, r} \ {l} /\ l \in {l, r}
        BY <2>3
      <4>2. QED
        BY <2>1, <2>3, <3>1, <4>1, DividedWarms
    <3>2. CASE t = MoveAssign(Div(z, r, l, x, y), x, l)
      <4>1. r \in {r, l} \ {l} /\ l \in {r, l}
        BY <2>3
      <4>2. Fresh(t, x) /\ Fresh(t, r) /\ Confined(z, t, Within(r, l) \cup {x})
        BY <2>1, <2>3, <3>2, <4>1, DividedWarms
      <4>3. QED
        BY <2>4, <4>2
    <3>3. QED
      BY <2>2, <3>1, <3>2
  <2>6. ASSUME NEW k \in Obj \ {x, r} PROVE t.num[k] = s.num[k]
    <3>1. k \in Name \ (Within(l, r) \cup {x}) /\ k \in Name \ {l}
      BY <2>4, <2>6 DEF Within
    <3>2. QED
      BY <2>1, <2>5, <3>1 DEF Confined
  <2>7. QED
    BY <2>5, <2>6
<1>3. "q" \in {"q", "r"} /\ "r" \in {"q", "r"}
  OBVIOUS
<1>4. QED
  BY <1>1, <1>2, <1>3 DEF DivideAssignAndReminder, ModAssignAndQuotient

-----------------------------------------------------------------------------
(* What stands below a word of a magnitude, and what above.                *)
LEMMA SplitAtWord ==
  ASSUME NEW a \in Seq(Word), NEW f, FirstAt(a, f),
         NEW N \in Nat, NEW w, Weights(w, N), NEW n \in 0 .. N, n < Len(a)
  PROVE  \E low \in Nat, high \in Nat :
           /\ ToNat(a) = low + w[n] * (a[n + 1] + Base * high)
           /\ low < w[n] /\ (low = 0 <=> n <= f)
<1> DEFINE l == SubSeq(a, 1, n)
           r == SubSeq(a, n + 1, Len(a))
           r1 == SubSeq(r, 1, 1)
           r2 == SubSeq(r, 2, Len(r))
<1>1. /\ Len(a) \in Nat /\ DOMAIN a = 1 .. Len(a) /\ a \in Seq(Int) /\ Word \subseteq Nat
      /\ \A i \in 1 .. Len(a) : a[i] \in Word
  BY WordsProperties, BaseProperties DEF Word
<1>2. n \in 0 .. Len(a) /\ n <= N
  BY <1>1
<1>3. /\ l \in Seq(Word) /\ Len(l) = n /\ \A i \in 1 .. n : l[i] = a[i]
      /\ r \in Seq(Word) /\ Len(r) = Len(a) - n /\ r[1] = a[n + 1]
  <2>1. l \in Seq(Word) /\ Len(l) = n /\ \A i \in 1 .. n : l[i] = a[i]
    BY <1>1, <1>2
  <2>2. /\ n + 1 \in 1 .. Len(a) + 1 /\ Len(a) \in 0 .. Len(a) /\ Len(a) - (n + 1) + 1 = Len(a) - n
        /\ 1 \in 1 .. Len(a) - n /\ (n + 1) + 1 - 1 = n + 1 /\ n + 1 <= Len(a)
    BY <1>1, <1>2
  <2> DEFINE i == n + 1
             j == Len(a)
  <2>3. i \in Nat \ {0} /\ i <= j /\ j \in Nat /\ \A k \in i .. j : a[k] \in Word
    BY <1>1, <1>2
  <2>4. r = [k \in 1 .. j - i + 1 |-> a[i + k - 1]]
    OBVIOUS
  <2> HIDE DEF i, j, r
  <2>5. r \in Seq(Word) /\ Len(r) = j - i + 1 /\ r[1] = a[i]
    <3>1. r \in [1 .. j - i + 1 -> Word]
      BY <2>3, <2>4
    <3>2. r[1] = a[i + 1 - 1] /\ j - i + 1 \in Nat /\ i + 1 - 1 = i
      BY <2>3, <2>4
    <3>3. QED
      BY <3>1, <3>2
  <2>6. r \in Seq(Word) /\ Len(r) = Len(a) - n /\ r[1] = a[n + 1]
    BY <1>2, <2>2, <2>5 DEF i, j
  <2>7. QED
    BY <2>1, <2>6 DEF r
<1>4. ToNat(a) = ToNat(l) + w[n] * ToNat(r)
  BY <1>1, <1>2, ToNatSplit
<1> HIDE DEF l, r
<1>5. /\ r1 \in Seq(Int) /\ Len(r1) = 1 /\ r1[1] = r[1] /\ r2 \in Seq(Word)
  BY <1>1, <1>3
<1>6. ToNat(r) = r[1] + Base * ToNat(r2)
  <2>1. 1 \in Nat /\ 1 \in 0 .. Len(r) /\ 1 <= 1 /\ r \in Seq(Int) /\ 1 + 1 = 2
    BY <1>1, <1>2, <1>3, WordsProperties
  <2>2. PICK u : Weights(u, 1)
    BY WeightsExist
  <2>3. u[1] = Base
    BY <2>2, BaseProperties DEF Weights
  <2>4. ToNat(r) = ToNat(r1) + u[1] * ToNat(SubSeq(r, 1 + 1, Len(r)))
    BY <2>1, <2>2, ToNatSplit
  <2>5. ToNat(r1) = r1[1]
    BY <1>5, ToNatSingle
  <2>6. QED
    BY <1>5, <2>1, <2>3, <2>4, <2>5
<1> HIDE DEF r1, r2
<1>7. ToNat(r2) \in Nat /\ ToNat(l) \in Nat
  <2>1. r2 \in Seq(Nat) /\ l \in Seq(Nat)
    BY <1>3, <1>5, WordsProperties
  <2>2. QED
    BY <2>1, ToNatPositive
<1>8. ToNat(l) < w[n]
  BY <1>2, <1>3, ToNatBound
<1>9. n <= f => ToNat(l) = 0
  <2>1. ASSUME n <= f PROVE \A i \in 1 .. Len(l) : l[i] = 0
    BY <1>2, <1>3, <2>1 DEF FirstAt
  <2>2. l \in Seq(Int)
    BY <1>1, <1>3
  <2>3. QED
    BY <2>1, <2>2, ToNatZeros
<1>10. ~(n <= f) => ToNat(l) # 0
  <2> SUFFICES ASSUME ~(n <= f) PROVE ToNat(l) > 0
    BY <1>7
  <2> DEFINE g == f + 1
             b == SubSeq(l, 1, g)
             c == SubSeq(l, g + 1, Len(l))
  <2>1. f \in Nat /\ g \in 1 .. n /\ g <= N /\ g \in 0 .. Len(l) /\ a[g] # 0
    BY <1>2, <1>3 DEF FirstAt
  <2> HIDE DEF g
  <2>2. b \in Seq(Nat) /\ Len(b) = g /\ b[g] = a[g] /\ c \in Seq(Nat) /\ l \in Seq(Int)
    <3>1. l \in Seq(Nat) /\ l \in Seq(Int)
      BY <1>3, WordsProperties
    <3>2. QED
      BY <1>3, <2>1, <3>1
  <2>3. ToNat(l) = ToNat(b) + w[g] * ToNat(c)
    BY <2>1, <2>2, ToNatSplit
  <2> HIDE DEF b, c
  <2>4. ToNat(b) > 0 /\ ToNat(b) \in Nat /\ ToNat(c) \in Nat
    <3>1. Len(b) > 0 /\ b[Len(b)] # 0
      BY <2>1, <2>2
    <3>2. QED
      BY <2>2, <3>1, ToNatPositive
  <2>5. w[g] \in Nat
    BY <2>1, WeightsPositive
  <2>6. w[g] * ToNat(c) >= 0
    BY <2>4, <2>5
  <2>7. QED
    BY <2>3, <2>4, <2>5, <2>6
<1>11. QED
  BY <1>3, <1>4, <1>6, <1>7, <1>8, <1>9, <1>10

(* m with the digit d, to base B, in the place that counts W.              *)
HasDigit(m, B, W, low, d, h) ==
  /\ B \in Nat /\ B >= 2 /\ W \in Nat /\ W >= 1 /\ low \in Nat /\ low < W
  /\ d \in Nat /\ d < B /\ h \in Nat /\ m = low + W * (d + B * h)

(* That digit in the two's complement of m and of - m.                     *)
LEMMA WordOfTwos ==
  ASSUME NEW m, NEW B, NEW W, NEW low, NEW d, NEW h, HasDigit(m, B, W, low, d, h)
  PROVE  /\ (m \div W) % B = d
         /\ low = 0 => ((- m) \div W) % B = (- d) % B
         /\ low # 0 => ((- m) \div W) % B = B - 1 - d
<1> DEFINE g == d + B * h
<1>0. /\ B \in Nat /\ B >= 2 /\ W \in Nat /\ W >= 1 /\ low \in Nat /\ low < W
      /\ d \in Nat /\ d < B /\ h \in Nat /\ m = low + W * g
  BY DEF HasDigit
<1>1. g = h * B + d /\ g \in Nat
  BY <1>0, h * B = B * h /\ h * B \in Nat
<1> HIDE DEF g
<1>2. m \in Nat /\ m = g * W + low
  BY <1>0, <1>1, W * g = g * W /\ W * g \in Nat
<1>3. (m \div W) % B = d
  <2>1. m \div W = g
    <3>1. /\ W \in Nat /\ W >= 1 /\ g \in Int /\ low \in Int /\ 0 <= low /\ low < W
          /\ m = g * W + low
      BY <1>0, <1>1, <1>2
    <3>2. QED
      BY ONLY <3>1, DivisionUnique
  <2>2. g % B = d
    <3>1. h \in Int /\ d \in Int /\ 0 <= d /\ B >= 1
      BY <1>0
    <3>2. QED
      BY <1>0, <1>1, <3>1, DivisionUnique
  <2>3. QED
    BY <2>1, <2>2
<1>4. CASE low = 0
  <2> DEFINE k == - g
             z == 0
  <2>1. k \in Int /\ z \in Int /\ 0 <= z /\ z < W /\ k * W + z = - m
    <3>1. k * W = - (g * W)
      BY <1>0, <1>1
    <3>2. QED
      BY <1>0, <1>1, <1>2, <1>4, <3>1
  <2> HIDE DEF k, z
  <2>2. (- m) \div W = k
    BY <1>0, <2>1, DivisionUnique
  <2>3. k % B = (- d) % B
    <3> DEFINE q == (- d) \div B
               r == (- d) % B
    <3>1. q \in Int /\ r \in Int /\ 0 <= r /\ r < B /\ - d = q * B + r
      <4> DEFINE e == - d
      <4>1. e \in Int
        BY <1>0
      <4> HIDE DEF e
      <4>2. e \div B \in Int /\ e % B \in Int /\ 0 <= e % B /\ e % B < B
            /\ e = (e \div B) * B + (e % B)
        BY <1>0, <4>1
      <4>3. QED
        BY <4>2 DEF e
    <3> HIDE DEF q, r
    <3>2. k = (q - h) * B + r /\ q - h \in Int
      <4>1. (q - h) * B = q * B - h * B /\ h * B \in Int /\ q * B \in Int
        BY <1>0, <3>1
      <4>2. k = - g
        BY DEF k
      <4>3. QED
        BY <1>0, <1>1, <3>1, <4>1, <4>2
    <3>3. k % B = r
      <4> DEFINE p == q - h
      <4>1. p \in Int /\ k = p * B + r
        BY <3>2
      <4> HIDE DEF p
      <4>2. QED
        <5>1. B \in Nat /\ B >= 1
          BY <1>0
        <5>2. QED
          BY <3>1, <4>1, <5>1, DivisionUnique
    <3>4. QED
      BY <3>3 DEF r
  <2>4. QED
    BY <1>0, <1>3, <1>4, <2>2, <2>3
<1>5. CASE low # 0
  <2> DEFINE k == - g - 1
             z == W - low
             p == - h - 1
             y == B - 1 - d
  <2>1. k \in Int /\ z \in Int /\ 0 <= z /\ z < W /\ k * W + z = - m
    <3>1. k * W = - (g * W) - W
      BY <1>0, <1>1
    <3>2. QED
      BY <1>0, <1>1, <1>2, <1>5, <3>1
  <2>2. p \in Int /\ y \in Int /\ 0 <= y /\ y < B /\ k = p * B + y
    <3>1. p * B = - (h * B) - B
      BY <1>0
    <3>2. QED
      BY <1>0, <1>1, <3>1
  <2> HIDE DEF k, z, p, y
  <2>3. (- m) \div W = k
    BY <1>0, <2>1, DivisionUnique
  <2>4. k % B = y
    <3>1. B \in Nat /\ B >= 1
      BY <1>0
    <3>2. QED
      BY <2>2, <3>1, DivisionUnique
  <2>5. QED
    BY <1>0, <1>3, <1>5, <2>3, <2>4 DEF y
<1>6. QED
  BY <1>0, <1>4, <1>5

(* Beyond the words of a number stands nothing but its sign.               *)
LEMMA BeyondWords ==
  ASSUME NEW B \in Nat, B >= 2, NEW W \in Nat, NEW m \in Nat, m < W
  PROVE  /\ (m \div W) % B = 0
         /\ m > 0 => ((- m) \div W) % B = B - 1
<1>0. W >= 1
  OBVIOUS
<1>1. (m \div W) % B = 0
  <2> DEFINE z == 0
  <2>1. z \in Int /\ 0 <= z /\ z < B /\ m = z * W + m /\ z = z * B + z
    OBVIOUS
  <2> HIDE DEF z
  <2>2. m \div W = z /\ z % B = z
    BY <1>0, <2>1, DivisionUnique
  <2>3. QED
    BY <2>2 DEF z
<1>2. ASSUME m > 0 PROVE ((- m) \div W) % B = B - 1
  <2> DEFINE k == -1
             z == W - m
             y == B - 1
  <2>1. k \in Int /\ z \in Int /\ 0 <= z /\ z < W /\ - m = k * W + z
    BY <1>2
  <2>2. y \in Int /\ 0 <= y /\ y < B /\ k = k * B + y
    OBVIOUS
  <2> HIDE DEF k, z, y
  <2>3. (- m) \div W = k /\ k % B = y
    <3>1. (- m) \div W = k
      BY <1>0, <2>1, DivisionUnique
    <3>2. k % B = y
      BY <2>1, <2>2, DivisionUnique
    <3>3. QED
      BY <3>1, <3>2
  <2>4. QED
    BY <2>3 DEF y
<1>3. QED
  BY <1>1, <1>2

-----------------------------------------------------------------------------
(* The powers of the base are the weights of the words.                    *)
LEMMA PowersAreWeights == Weights([i \in 0 .. MaxVec |-> Base ^ i], MaxVec)
<1> DEFINE B == Base
           P(i) == Base ^ i
           T == {i \in 0 .. MaxVec : P(i) \in Int}
<1>1. /\ MaxVec \in Nat /\ P(0) = 1 /\ B \in Int
      /\ \A i \in 1 .. MaxVec : P(i) = P(i - 1) * B
  BY MaxVecAssumption, BaseProperties
<1> HIDE DEF B, P
<1>2. 0 \in T
  BY <1>1
<1>3. ASSUME NEW i \in T, i < MaxVec PROVE i + 1 \in T
  <2>1. i \in Nat /\ i + 1 \in 1 .. MaxVec /\ i + 1 \in 0 .. MaxVec /\ (i + 1) - 1 = i /\ P(i) \in Int
    BY <1>1, <1>3
  <2>2. P(i + 1) = P(i) * B
    BY <1>1, <2>1
  <2>3. QED
    BY <1>1, <2>1, <2>2
<1>4. T \subseteq 0 .. MaxVec
  OBVIOUS
<1> HIDE DEF T
<1>5. \A i \in 0 .. MaxVec : i \in T
  BY <1>1, <1>2, <1>3, <1>4, UpTo
<1>6. \A i \in 0 .. MaxVec : P(i) \in Int
  BY <1>5 DEF T
<1> DEFINE w == [i \in 0 .. MaxVec |-> P(i)]
<1>7. /\ w \in [0 .. MaxVec -> Int] /\ w[0] = 1
      /\ \A i \in 1 .. MaxVec : w[i] = w[i - 1] * B
  <2>1. \A i \in 1 .. MaxVec : i \in 0 .. MaxVec /\ i - 1 \in 0 .. MaxVec
    BY <1>1
  <2>2. 0 \in 0 .. MaxVec
    BY <1>1
  <2>3. QED
    BY <1>1, <1>6, <2>1, <2>2
<1>8. QED
  BY <1>7 DEF Weights, B, P

(* getU32() reads the two's complement through a cache that is not stale.  *)
LEMMA ReadsTwos ==
  ASSUME NEW s, Proper(s), NEW x, NEW v, Holds(s, x, v), Fresh(s, x), NEW n \in 0 .. MaxVec
  PROVE  U32(s, x, n) = (v \div Base ^ n) % Base
<1> DEFINE a == Words(s, x)
           m == ToNat(a)
           sg == SignOf(s, x)
           B == Base
           W == Base ^ n
           d == a[n + 1]
           f == FirstNonZero(a)
           g == FirstNonZeroU32Index(s, x)
           c == Count(s, x)
           w == [i \in 0 .. MaxVec |-> Base ^ i]
<1>1. /\ a \in Seq(Word) /\ Trimmed(a) /\ m \in Nat /\ v \in Int /\ c = Len(a) /\ c \in Nat
      /\ \/ sg = "ZERO" /\ a = << >> /\ v = 0
         \/ sg = "POSITIVE" /\ a # << >> /\ v = m /\ m > 0
         \/ sg = "NEGATIVE" /\ a # << >> /\ v = - m /\ m > 0
  BY HoldsCases
<1>2. U32(s, x, n) = CASE sg = "ZERO" -> 0
                       [] sg # "ZERO" /\ n >= c -> IF sg = "NEGATIVE" THEN WordMax ELSE 0
                       [] sg = "POSITIVE" /\ n < c -> d
                       [] OTHER -> IF n > g THEN WordMax - d
                                   ELSE IF n < g THEN 0 ELSE (- d) % B
  BY DEF U32
<1>3. MaxVec \in Nat /\ n \in Nat /\ B \in Nat /\ B >= 2 /\ WordMax = B - 1
  BY MaxVecAssumption, BaseProperties
<1>4. Weights(w, MaxVec) /\ w[n] = W
  BY PowersAreWeights
<1>5. W \in Nat /\ W >= 1
  <2> HIDE DEF w, W
  <2>1. QED
    BY <1>3, <1>4, WeightsPositive
<1>6. g = f
  BY DEF FirstNonZeroU32Index, Fresh
<1>7. CASE sg = "ZERO"
  <2> DEFINE z == 0
  <2>1. z \in Nat /\ z < W
    BY <1>5
  <2> HIDE DEF W, z, a, m, B
  <2>2. (z \div W) % B = 0
    BY <1>3, <1>5, <2>1, BeyondWords
  <2>3. v = z
    BY <1>1, <1>7 DEF z
  <2>4. U32(s, x, n) = 0
    BY <1>2, <1>7
  <2>5. QED
    BY <2>2, <2>3, <2>4 DEF W, B
<1>8. CASE sg # "ZERO" /\ n >= c
  <2>1. m < W
    <3> HIDE DEF w, W
    <3>1. Len(a) <= n
      BY <1>1, <1>8
    <3>2. QED
      BY <1>1, <1>3, <1>4, <3>1, ToNatBound
  <2> HIDE DEF W, a, m, B, c, sg, w
  <2>2. (m \div W) % B = 0 /\ ((- m) \div W) % B = B - 1
    BY <1>1, <1>3, <1>5, <1>8, <2>1, BeyondWords
  <2>3. U32(s, x, n) = IF sg = "NEGATIVE" THEN WordMax ELSE 0
    BY <1>1, <1>2, <1>3, <1>8
  <2>4. CASE sg = "NEGATIVE"
    BY <1>1, <1>3, <2>2, <2>3, <2>4 DEF W, B
  <2>5. CASE sg # "NEGATIVE"
    BY <1>1, <1>8, <2>2, <2>3, <2>5 DEF W, B
  <2>6. QED
    BY <2>4, <2>5
<1>9. CASE sg # "ZERO" /\ n < c
  <2>1. FirstAt(a, f)
    BY <1>1, <1>9, FirstNonZeroProperties
  <2>2. /\ f \in Nat /\ d \in Nat /\ d < B /\ (n < f => d = 0)
    <3>1. n + 1 \in 1 .. Len(a)
      BY <1>1, <1>3, <1>9
    <3>2. d \in Nat /\ d < B
      BY <1>1, <3>1, WordsProperties
    <3>3. f \in Nat /\ \A i \in 1 .. f : a[i] = 0
      BY <1>1, <2>1 DEF FirstAt
    <3> HIDE DEF f, a
    <3>4. n < f => d = 0
      BY <1>3, <3>3
    <3>5. QED
      BY <3>2, <3>3, <3>4
  <2>3. PICK low \in Nat, high \in Nat : /\ m = low + w[n] * (d + B * high)
                                         /\ low < w[n] /\ (low = 0 <=> n <= f)
    <3>1. n < Len(a)
      BY <1>1, <1>9
    <3> HIDE DEF w
    <3>2. QED
      BY <1>1, <1>3, <1>4, <2>1, <3>1, SplitAtWord
  <2> HIDE DEF W, a, m, B, c, sg, w, d, f
  <2>4. m = low + W * (d + B * high) /\ low < W
    BY <1>4, <2>3
  <2>5. /\ (m \div W) % B = d
        /\ low = 0 => ((- m) \div W) % B = (- d) % B
        /\ low # 0 => ((- m) \div W) % B = B - 1 - d
    <3>1. HasDigit(m, B, W, low, d, high)
      BY <1>3, <1>5, <2>2, <2>4 DEF HasDigit
    <3>2. QED
      BY ONLY <3>1, WordOfTwos
  <2>6. CASE sg = "POSITIVE"
    BY <1>1, <1>2, <1>9, <2>5, <2>6 DEF W, B
  <2>7. CASE sg = "NEGATIVE"
    <3>1. U32(s, x, n) = IF n > f THEN WordMax - d ELSE IF n < f THEN 0 ELSE (- d) % B
      <4>1. ~(n >= c)
        BY <1>1, <1>3, <1>9
      <4>2. QED
        BY <1>2, <1>6, <1>9, <2>7, <4>1 DEF f
    <3>2. (v \div W) % B = IF n <= f THEN (- d) % B ELSE B - 1 - d
      BY <1>1, <2>3, <2>5, <2>7
    <3>3. n < f => (- d) % B = 0
      <4> DEFINE z == 0
      <4>1. z \in Nat /\ z < B /\ z = z * B + z
        BY <1>3
      <4>2. (z * B + z) % B = z
        <5> HIDE DEF z
        <5>1. QED
          BY <1>3, <4>1, DivisionUnique
      <4>3. n < f => - d = z
        <5>1. n < f => - d >= z /\ - d <= z
          BY <2>2
        <5>2. - d \in Int /\ z \in Int
          BY <2>2
        <5> DEFINE e == - d
        <5>3. \A p, q \in Int : p >= q /\ p <= q => p = q
          OBVIOUS
        <5> HIDE DEF z, e
        <5>4. e \in Int /\ z \in Int /\ (n < f => e >= z /\ e <= z)
          BY <5>1, <5>2 DEF e
        <5>5. QED
          BY <5>3, <5>4 DEF e
      <4>4. QED
        BY <4>1, <4>2, <4>3
    <3>4. U32(s, x, n) = (v \div W) % B
      BY <1>3, <2>2, <3>1, <3>2, <3>3
    <3>5. QED
      BY <3>4 DEF W, B
  <2>8. QED
    BY <1>1, <1>9, <2>6, <2>7
<1>10. QED
  <2> HIDE DEF c, a
  <2>1. n >= c \/ n < c
    BY <1>1, <1>3
  <2>2. QED
    BY <1>7, <1>8, <1>9, <2>1

-----------------------------------------------------------------------------
(* Between calls no object's index is stale.                               *)
Caches == \A x \in Obj : Fresh(st, x)
Refreshes(s, x) == Fresh(s, x) /\ \A y \in Obj \ {x} : s.num[y] = st.num[y]

(* A call returns with the indexes it has.                                 *)
LEMMA ReturnCaches ==
  ASSUME NEW STATE s, Proper(s), Obj \subseteq Alive(s), \A y \in Obj : Fresh(s, y),
         NEW STATE c, Return(s, c)
  PROVE  Caches'
<1> SUFFICES ASSUME NEW y \in Obj PROVE Fresh(st, y)'
  BY DEF Caches
<1>1. Words(st, y)' = Words(s, y) /\ Fresh(s, y)
  BY ReturnSound
<1>2. st'.num[y] = s.num[y]
  <2>1. num' = [x \in Obj |-> s.num[x]]
    BY DEF Return, Leave
  <2>2. st'.num = [x \in Name |-> IF x \in Obj THEN num'[x] ELSE ZeroNum] /\ y \in Name
    BY NameAssumption DEF st
  <2>3. QED
    BY <2>1, <2>2
<1>3. QED
  BY <1>1, <1>2 DEF Fresh

(* A call that writes x, and knows the index of what it wrote.             *)
LEMMA CallKeeps ==
  ASSUME TypeOK, Caches, NEW STATE s, NEW x \in Obj, NEW STATE v, NEW STATE c,
         Yields(st, s, x, v), Refreshes(s, x), Return(s, c)
  PROVE  Caches'
<1>1. Proper(s) /\ x \in Alive(s)
      /\ \A y \in Obj \ {x} : y \in Alive(s) /\ Words(s, y) = Words(st, y)
  BY StateSound DEF Yields, Preserves, Holds
<1>2. Obj \subseteq Alive(s)
  BY <1>1
<1>3. \A y \in Obj : Fresh(s, y)
  BY <1>1 DEF Caches, Refreshes, Fresh
<1>4. QED
  BY <1>1, <1>2, <1>3, ReturnCaches

(* A call on the caller's objects alone.                                   *)
LEMMA RenewsKeeps ==
  ASSUME NEW s, NEW x \in Obj, Renews(st, s, x)
  PROVE  Refreshes(s, x)
<1>1. Obj \subseteq Name
  BY NameAssumption
<1>2. QED
  BY <1>1 DEF Renews, Touches, Refreshes

(* The int64_t overloads: the temporary has no index.                      *)
LEMMA TempKeeps ==
  ASSUME TypeOK, Normalised, LoadsNormalised, Caches, NEW x \in Obj, NEW i \in I64
  PROVE  /\ Proper(TempOf(i)) /\ x \in Alive(TempOf(i)) /\ "temp" \in Alive(TempOf(i))
         /\ Fresh(TempOf(i), x) /\ Fresh(TempOf(i), "temp")
         /\ \A y \in Obj : TempOf(i).num[y] = st.num[y]
         /\ \A r : Renews(TempOf(i), r, x) => Refreshes(r, x)
<1> DEFINE loc == "temp"
           z == BeZero(st, loc)
           t == TempOf(i)
<1>1. loc \in Name /\ loc \notin Obj /\ Obj \subseteq Name
  BY NameAssumption DEF Local
<1>2. Proper(st) /\ Fields(st) /\ Alive(st) = Obj
  BY NowHolds, ProperFields
<1>3. t = AssignI64(z, loc, i)
  BY DEF TempOf
<1> HIDE DEF t, loc
<1>4. Yields(st, z, loc, 0) /\ Cools(st, z, loc)
  BY <1>1, <1>2, ZeroYields, NumSteps
<1>5. Proper(z) /\ loc \in Alive(z) /\ Fields(z)
  BY <1>4, NumsTwice DEF Yields, Preserves, Holds
<1> HIDE DEF z
<1>6. Yields(z, t, loc, i)
  BY <1>3, <1>5, LoadBounds, AssignI64Yields
<1>7. Cools(z, t, loc)
  <2>1. i \in Int
    BY LoadBounds
  <2>2. QED
    BY <1>1, <1>3, <1>5, <2>1, AssignI64Cools
<1>8. Preserves(st, t, {loc}) /\ Proper(t) /\ loc \in Alive(t)
  BY <1>4, <1>6, YieldsTwice DEF Yields, Preserves, Holds
<1>9. Cools(st, t, loc)
  BY <1>4, <1>7, NumsTwice
<1>10. \A y \in Obj : t.num[y] = st.num[y]
  BY <1>1, <1>9 DEF Cools, Touches
<1>11. x \in Alive(t) /\ Words(t, x) = Words(st, x)
  BY <1>1, <1>2, <1>8 DEF Preserves
<1>12. Fresh(t, x) /\ Fresh(t, loc)
  BY <1>9, <1>10, <1>11 DEF Caches, Fresh, Cools, Cold
<1>13. ASSUME NEW r, Renews(t, r, x) PROVE Refreshes(r, x)
  BY <1>1, <1>10, <1>13 DEF Renews, Touches, Refreshes
<1>14. QED
  BY <1>8, <1>10, <1>11, <1>12, <1>13 DEF t, loc

(* Construction and copies.                                                *)
LEMMA ConstructorsKeep ==
  ASSUME TypeOK, Normalised, LoadsNormalised, Caches, Constructors
  PROVE  Caches'
<1>1. PICK x \in Obj : \/ Construct(x)
                       \/ \E i \in I64 : AssignInt(x, i)
                       \/ \E y \in Obj : AssignOther(x, y)
                       \/ \E y \in Obj : Swap(x, y)
  BY DEF Constructors
<1>2. Proper(st) /\ Alive(st) = Obj /\ x \in Name /\ Fields(st) /\ Obj \subseteq Name
  BY NowHolds, ProperFields, NameAssumption
<1>3. \A y \in Obj : Fresh(st, y)
  BY DEF Caches
<1>4. CASE Construct(x)
  <2>1. Yields(st, BeZero(st, x), x, 0)
    BY <1>2, ZeroYields
  <2>2. Renews(st, BeZero(st, x), x)
    BY <1>2, NumSteps, NumsTwice
  <2>3. QED
    BY <1>4, <2>1, <2>2, RenewsKeeps, CallKeeps DEF Construct
<1>5. CASE \E i \in I64 : AssignInt(x, i)
  <2>1. PICK i \in I64 : AssignInt(x, i)
    BY <1>5
  <2>2. Yields(st, AssignI64(st, x, i), x, i)
    BY <1>2, LoadBounds, AssignI64Yields
  <2>3. i \in Int
    BY LoadBounds
  <2>4. Renews(st, AssignI64(st, x, i), x)
    BY <1>2, <2>3, AssignI64Cools, NumsTwice
  <2>5. QED
    BY <2>1, <2>2, <2>4, RenewsKeeps, CallKeeps DEF AssignInt
<1>6. CASE \E y \in Obj : AssignOther(x, y)
  <2>1. PICK y \in Obj : AssignOther(x, y)
    BY <1>6
  <2>2. Yields(st, Assign(st, x, y), x, Now(y))
    BY <1>2, NowHolds, AssignYields
  <2>3. Renews(st, Assign(st, x, y), x)
    BY <1>2, <1>3, AssignRenews
  <2>4. QED
    BY <2>1, <2>2, <2>3, RenewsKeeps, CallKeeps DEF AssignOther
<1>7. CASE \E y \in Obj : Swap(x, y)
  <2>1. PICK y \in Obj : Swap(x, y)
    BY <1>7
  <2> DEFINE s == SwapWith(st, x, y)
             c == <<"swap", x, y>>
  <2>2. x # y /\ Return(s, c)
    BY <2>1 DEF Swap
  <2>3. Holds(st, x, Value(st, x)) /\ Holds(st, y, Value(st, y))
    BY StateHolds
  <2>4. Preserves(st, s, {x, y}) /\ Holds(s, x, Value(st, y)) /\ Holds(s, y, Value(st, x))
    BY <1>2, <2>2, <2>3, SwapWithSound
  <2>5. Fresh(s, x) /\ Fresh(s, y) /\ \A z \in Name \ {x, y} : s.num[z] = st.num[z]
    BY <1>2, <1>3, <2>2, SwapRenews
  <2> HIDE DEF s
  <2>6. Proper(s) /\ Obj \subseteq Alive(s) /\ \A z \in Obj \ {x, y} : Words(s, z) = Words(st, z)
    BY <1>2, <2>4 DEF Preserves, Holds
  <2>7. \A z \in Obj : Fresh(s, z)
    BY <1>2, <1>3, <2>5, <2>6 DEF Fresh
  <2>8. QED
    BY <2>2, <2>6, <2>7, ReturnCaches
<1>8. QED
  BY <1>1, <1>4, <1>5, <1>6, <1>7

(* Reads, and changes of the sign.                                         *)
LEMMA SignsKeep ==
  ASSUME TypeOK, Normalised, Caches, Signs
  PROVE  Caches'
<1>1. PICK x \in Obj : ReadU32(x) \/ NegateSelf(x) \/ AbsoluteSelf(x)
  BY DEF Signs
<1>2. Proper(st) /\ Holds(st, x, Now(x)) /\ x \in Alive(st) /\ Fresh(st, x)
  BY NowHolds DEF Caches
<1>3. CASE ReadU32(x)
  <2>1. Yields(st, GetU32(st, x, 0), x, Now(x)) /\ Renews(st, GetU32(st, x, 0), x)
    BY <1>2, GetU32Yields, GetU32Renews
  <2>2. QED
    BY <1>3, <2>1, RenewsKeeps, CallKeeps DEF ReadU32
<1>4. CASE NegateSelf(x)
  <2>1. Yields(st, Negate(st, x), x, - Now(x)) /\ Renews(st, Negate(st, x), x)
    BY <1>2, NegateYields, NegateRenews
  <2>2. QED
    BY <1>4, <2>1, RenewsKeeps, CallKeeps DEF NegateSelf
<1>5. CASE AbsoluteSelf(x)
  <2>1. Yields(st, AbsSelf(st, x), x, Abs(Now(x))) /\ Renews(st, AbsSelf(st, x), x)
    BY <1>2, AbsSelfYields, NegateRenews
  <2>2. QED
    BY <1>5, <2>1, RenewsKeeps, CallKeeps DEF AbsoluteSelf
<1>6. QED
  BY <1>1, <1>3, <1>4, <1>5

(* Sums and differences.                                                   *)
LEMMA SumsKeep ==
  ASSUME TypeOK, Normalised, LoadsNormalised, Caches, Sums
  PROVE  Caches'
<1>1. PICK x \in Obj : \/ Inc(x) \/ Dec(x)
                       \/ \E y \in Obj : Add(x, y)
                       \/ \E y \in Obj : Sub(x, y)
                       \/ \E i \in I64 : AddI64(x, i)
                       \/ \E i \in I64 : SubI64(x, i)
  BY DEF Sums
<1>2. /\ Proper(st) /\ Holds(st, x, Now(x)) /\ Alive(st) = Obj /\ "copy" \notin Alive(st)
      /\ \A y \in Obj : Fresh(st, y)
  BY NowHolds DEF Caches
<1>3. \A step : Refreshes(StepBy(st, x, step), x)
  BY <1>2, StepByRenews, RenewsKeeps
<1>4. CASE Inc(x)
  <2>1. 1 \in {1, -1}
    OBVIOUS
  <2>2. Yields(st, StepBy(st, x, 1), x, Now(x) + 1)
    BY <1>2, <2>1, StepByYields
  <2>3. QED
    BY <1>3, <1>4, <2>2, CallKeeps DEF Inc
<1>5. CASE Dec(x)
  <2>1. -1 \in {1, -1}
    OBVIOUS
  <2>2. Yields(st, StepBy(st, x, -1), x, Now(x) + (-1))
    BY <1>2, <2>1, StepByYields
  <2>3. QED
    BY <1>3, <1>5, <2>2, CallKeeps DEF Dec
<1>6. CASE \E y \in Obj : Add(x, y)
  <2>1. PICK y \in Obj : Add(x, y)
    BY <1>6
  <2>2. Yields(st, AddAssign(st, x, y), x, Now(x) + Now(y))
    BY <1>2, NowHolds, AddAssignYields
  <2>3. Refreshes(AddAssign(st, x, y), x)
    BY <1>2, SumsRenew, RenewsKeeps
  <2>4. QED
    BY <2>1, <2>2, <2>3, CallKeeps DEF Add
<1>7. CASE \E y \in Obj : Sub(x, y)
  <2>1. PICK y \in Obj : Sub(x, y)
    BY <1>7
  <2>2. Yields(st, SubAssign(st, x, y), x, Now(x) - Now(y))
    BY <1>2, NowHolds, SubAssignYields
  <2>3. Refreshes(SubAssign(st, x, y), x)
    BY <1>2, SumsRenew, RenewsKeeps
  <2>4. QED
    BY <2>1, <2>2, <2>3, CallKeeps DEF Sub
<1>8. CASE \E i \in I64 : AddI64(x, i)
  <2>1. PICK i \in I64 : AddI64(x, i)
    BY <1>8
  <2> DEFINE t == TempOf(i)
             r == AddAssign(t, x, "temp")
  <2>2. Yields(st, r, x, Now(x) + i)
    BY TempHolds, AddAssignYields
  <2>3. Refreshes(r, x)
    BY TempKeeps, SumsRenew
  <2>4. QED
    BY <2>1, <2>2, <2>3, CallKeeps DEF AddI64
<1>9. CASE \E i \in I64 : SubI64(x, i)
  <2>1. PICK i \in I64 : SubI64(x, i)
    BY <1>9
  <2> DEFINE t == TempOf(i)
             r == SubAssign(t, x, "temp")
  <2>2. Yields(st, r, x, Now(x) - i)
    BY TempHolds, SubAssignYields
  <2>3. Refreshes(r, x)
    BY TempKeeps, SumsRenew
  <2>4. QED
    BY <2>1, <2>2, <2>3, CallKeeps DEF SubI64
<1>10. QED
  BY <1>1, <1>4, <1>5, <1>6, <1>7, <1>8, <1>9

(* Products and shifts.                                                    *)
LEMMA ProductsKeep ==
  ASSUME TypeOK, Normalised, LoadsNormalised, Caches, Products
  PROVE  Caches'
<1>1. PICK x \in Obj : \/ \E y \in Obj : Mul(x, y)
                       \/ \E i \in I64 : MulI64(x, i)
                       \/ \E n \in Shift : ShiftLeft(x, n)
                       \/ \E n \in Shift : ShiftRight(x, n)
  BY DEF Products
<1>2. /\ Proper(st) /\ Holds(st, x, Now(x)) /\ Alive(st) = Obj /\ "product" \notin Alive(st)
      /\ \A y \in Obj : Fresh(st, y)
  BY NowHolds DEF Caches
<1>3. CASE \E y \in Obj : Mul(x, y)
  <2>1. PICK y \in Obj : Mul(x, y)
    BY <1>3
  <2>2. Yields(st, MulAssign(st, x, y), x, Now(x) * Now(y))
    BY <1>2, NowHolds, MulAssignYields
  <2>3. Refreshes(MulAssign(st, x, y), x)
    BY <1>2, MulAssignRenews, RenewsKeeps
  <2>4. QED
    BY <2>1, <2>2, <2>3, CallKeeps DEF Mul
<1>4. CASE \E i \in I64 : MulI64(x, i)
  <2>1. PICK i \in I64 : MulI64(x, i)
    BY <1>4
  <2> DEFINE t == TempOf(i)
             r == MulAssign(t, x, "temp")
  <2>2. Yields(st, r, x, Now(x) * i)
    BY TempHolds, MulAssignYields
  <2>3. Refreshes(r, x)
    BY TempKeeps, MulAssignRenews
  <2>4. QED
    BY <2>1, <2>2, <2>3, CallKeeps DEF MulI64
<1>5. CASE \E n \in Shift : ShiftLeft(x, n)
  <2>1. PICK n \in Shift : ShiftLeft(x, n)
    BY <1>5
  <2>2. n \in Nat /\ PowersUpTo(n)
    BY ShiftAssumption
  <2>3. Yields(st, ShiftLeftAssign(st, x, n), x, Now(x) * 2 ^ n)
    BY <1>2, <2>2, ShiftLeftYields
  <2>4. Refreshes(ShiftLeftAssign(st, x, n), x)
    BY <1>2, <2>2, ShiftsRenew, RenewsKeeps
  <2>5. QED
    BY <2>1, <2>3, <2>4, CallKeeps DEF ShiftLeft
<1>6. CASE \E n \in Shift : ShiftRight(x, n)
  <2>1. PICK n \in Shift : ShiftRight(x, n)
    BY <1>6
  <2>2. n \in Nat /\ PowersUpTo(n)
    BY ShiftAssumption
  <2>3. Yields(st, ShiftRightAssign(st, x, n), x, Now(x) \div 2 ^ n)
    BY <1>2, <2>2, ShiftRightYields
  <2>4. Refreshes(ShiftRightAssign(st, x, n), x)
    BY <1>2, <2>2, ShiftsRenew, RenewsKeeps
  <2>5. QED
    BY <2>1, <2>3, <2>4, CallKeeps DEF ShiftRight
<1>7. QED
  BY <1>1, <1>3, <1>4, <1>5, <1>6

(* Division: quotients and remainders are moved from locals.               *)
LEMMA QuotientsKeep ==
  ASSUME TypeOK, Normalised, LoadsNormalised, Caches, Quotients
  PROVE  Caches'
<1>1. PICK x \in Obj : \/ \E y \in Obj : Divide(x, y)
                       \/ \E i \in I64 : DivideI64(x, i)
  BY DEF Quotients
<1>2. Proper(st) /\ Holds(st, x, Now(x)) /\ Fresh(st, x)
  BY NowHolds DEF Caches
<1>3. CASE \E y \in Obj : Divide(x, y)
  <2>1. PICK y \in Obj : Divide(x, y)
    BY <1>3
  <2>2. Holds(st, y, Now(y)) /\ Now(y) # 0
    BY <1>2, <2>1, NowHolds, DivisorNotZero DEF Divide
  <2>3. Yields(st, DivAssign(st, x, y), x, Integers!Quot(Now(x), Now(y)))
    BY <1>2, <2>2, NoneDivides, DivAssignYields
  <2>4. Refreshes(DivAssign(st, x, y), x)
    BY <1>2, <2>2, NoneDivides, DivAssignWarms DEF Refreshes
  <2>5. QED
    BY <2>1, <2>3, <2>4, CallKeeps DEF Divide
<1>4. CASE \E i \in I64 : DivideI64(x, i)
  <2>1. PICK i \in I64 : DivideI64(x, i)
    BY <1>4
  <2> DEFINE t == TempOf(i)
             r == DivAssign(t, x, "temp")
  <2>2. /\ Proper(t) /\ Holds(t, x, Now(x)) /\ Holds(t, "temp", i) /\ Undivided(t) /\ Fresh(t, x)
        /\ \A p, n : Yields(t, p, x, n) => Yields(st, p, x, n)
        /\ \A y \in Obj : t.num[y] = st.num[y]
    BY TempHolds, NoneDivides, TempKeeps
  <2>3. i # 0
    BY <2>1, <2>2, DivisorNotZero DEF DivideI64
  <2>4. Yields(st, r, x, Integers!Quot(Now(x), i))
    BY <2>2, <2>3, DivAssignYields
  <2>5. Refreshes(r, x)
    BY <2>2, <2>3, DivAssignWarms DEF Refreshes
  <2>6. QED
    BY <2>1, <2>4, <2>5, CallKeeps DEF DivideI64
<1>5. QED
  BY <1>1, <1>3, <1>4

(* Division with both results.                                             *)
LEMMA RemaindersKeep ==
  ASSUME TypeOK, Normalised, LoadsNormalised, Caches, Unindexed
  PROVE  Caches'
<1>1. PICK x \in Obj, z \in Obj : \/ \E y \in Obj : DivRem(x, y, z)
                                  \/ \E y \in Obj : ModQuot(x, y, z)
                                  \/ \E i \in I64 : DivRemI64(x, i, z)
                                  \/ \E i \in I64 : ModQuotI64(x, i, z)
  BY DEF Unindexed, Remainders
<1>2. /\ Proper(st) /\ Holds(st, x, Now(x)) /\ x # z /\ z \in Alive(st) /\ Alive(st) = Obj
      /\ Undivided(st) /\ Fresh(st, x)
  BY <1>1, NowHolds, NoneDivides DEF DivRem, ModQuot, DivRemI64, ModQuotI64, Caches
<1>3. ASSUME call'[4] = z PROVE Cold(st, z)
  <2>1. st.num[z] = num[z]
    BY NameAssumption DEF st
  <2>2. QED
    BY <1>3, <2>1 DEF Unindexed, Cold
<1>4. ASSUME NEW STATE s, NEW STATE c, Return(s, c), Preserves(st, s, {x} \cup {z}),
             x \in Alive(s), z \in Alive(s), Fresh(s, x), Fresh(s, z),
             \A k \in Obj \ {x, z} : s.num[k] = st.num[k]
      PROVE  Caches'
  <2>1. /\ Proper(s) /\ Obj \subseteq Alive(s)
        /\ \A k \in Obj \ {x, z} : Words(s, k) = Words(st, k)
    BY <1>2, <1>4 DEF Preserves
  <2>2. \A k \in Obj : Fresh(s, k)
    BY <1>4, <2>1 DEF Caches, Fresh
  <2>3. QED
    BY <1>4, <2>1, <2>2, ReturnCaches
<1>5. CASE \E y \in Obj : DivRem(x, y, z) \/ ModQuot(x, y, z)
  <2>1. PICK y \in Obj : DivRem(x, y, z) \/ ModQuot(x, y, z)
    BY <1>5
  <2>2. Holds(st, y, Now(y)) /\ Now(y) # 0 /\ z # y
    BY <1>2, <2>1, NowHolds, DivisorNotZero DEF DivRem, ModQuot
  <2> DEFINE t == DivideAssignAndReminder(st, x, y, z)
             m == ModAssignAndQuotient(st, x, y, z)
  <2>3. PICK s \in {t, m} : \E c : Return(s, c) /\ c[4] = z
    BY <2>1 DEF DivRem, ModQuot
  <2>4. PICK c : Return(s, c) /\ c[4] = z
    BY <2>3
  <2>5. Cold(st, z)
    BY <1>3, <2>4 DEF Return
  <2>6. Preserves(st, s, {x} \cup {z}) /\ x \in Alive(s) /\ z \in Alive(s)
    <3> HIDE DEF t, m
    <3>1. /\ Preserves(st, t, {x} \cup {z}) /\ x \in Alive(t) /\ z \in Alive(t)
          /\ Preserves(st, m, {x} \cup {z}) /\ x \in Alive(m) /\ z \in Alive(m)
      BY <1>2, <2>2, DividesBoth DEF Holds, t, m
    <3>2. QED
      BY <3>1
  <2>7. Fresh(s, x) /\ Fresh(s, z) /\ \A k \in Obj \ {x, z} : s.num[k] = st.num[k]
    BY <1>2, <2>2, <2>5, DividesBothWarm
  <2>8. QED
    BY <1>4, <2>4, <2>6, <2>7
<1>6. CASE \E i \in I64 : DivRemI64(x, i, z) \/ ModQuotI64(x, i, z)
  <2>1. PICK i \in I64 : DivRemI64(x, i, z) \/ ModQuotI64(x, i, z)
    BY <1>6
  <2> DEFINE p == TempOf(i)
             y == "temp"
             t == DivideAssignAndReminder(p, x, y, z)
             m == ModAssignAndQuotient(p, x, y, z)
  <2>2. /\ Proper(p) /\ Holds(p, x, Now(x)) /\ Holds(p, y, i) /\ Undivided(p) /\ Fresh(p, x)
        /\ z \in Alive(p) /\ z # y
        /\ \A r, X : Preserves(p, r, X) => Preserves(st, r, X)
        /\ \A k \in Obj : p.num[k] = st.num[k]
    <3>1. z # "temp"
      BY NameAssumption DEF Local
    <3>2. QED
      BY <3>1, TempAlone, TempHolds, TempDropped, TempKeeps, NoneDivides
  <2>3. i # 0
    BY <2>1, <2>2, DivisorNotZero DEF DivRemI64, ModQuotI64
  <2>4. PICK s \in {t, m} : \E c : Return(s, c) /\ c[4] = z
    BY <2>1 DEF DivRemI64, ModQuotI64
  <2>5. PICK c : Return(s, c) /\ c[4] = z
    BY <2>4
  <2> HIDE DEF p, y
  <2>6. Cold(p, z)
    BY <1>3, <2>2, <2>5 DEF Return, Cold
  <2>7. Preserves(st, s, {x} \cup {z}) /\ x \in Alive(s) /\ z \in Alive(s)
    <3> HIDE DEF t, m
    <3>1. /\ Preserves(p, t, {x} \cup {z}) /\ x \in Alive(t) /\ z \in Alive(t)
          /\ Preserves(p, m, {x} \cup {z}) /\ x \in Alive(m) /\ z \in Alive(m)
      BY <1>2, <2>2, <2>3, DividesBoth DEF Holds, t, m
    <3>2. QED
      BY <2>2, <3>1
  <2>8. Fresh(s, x) /\ Fresh(s, z) /\ \A k \in Obj \ {x, z} : s.num[k] = st.num[k]
    <3>1. Fresh(s, x) /\ Fresh(s, z) /\ \A k \in Obj \ {x, z} : s.num[k] = p.num[k]
      BY <1>2, <2>2, <2>3, <2>6, DividesBothWarm
    <3>2. QED
      BY <2>2, <3>1
  <2>9. QED
    BY <1>4, <2>5, <2>7, <2>8
<1>7. QED
  BY <1>1, <1>5, <1>6

(* The types of the class's state, for all objects, words and integers.    *)
THEOREM ObjectsTyped ==
  LoadsNormalised => (CalculatingSpec => []TypeOK)
<1> SUFFICES ASSUME LoadsNormalised PROVE CalculatingSpec => []TypeOK
  OBVIOUS
<1>1. CalculatingSpec => [](TypeOK /\ Normalised)
  BY ObjectsNormalised
<1>2. QED
  BY <1>1, PTL

(* getU32() reads the words of the two's complement, whatever index copies,*)
(* swaps, negations, writes and divisions have left in the cache.          *)
THEOREM ReadsAreExact ==
  LoadsNormalised => (ReadingSpec => []ReadsExact)
<1> SUFFICES ASSUME LoadsNormalised PROVE ReadingSpec => []ReadsExact
  OBVIOUS
<1>1. Init => Caches
  <2> SUFFICES ASSUME Init, NEW x \in Obj PROVE Fresh(st, x)
    BY DEF Caches
  <2>1. st.num[x] = ZeroNum
    BY NameAssumption DEF Init, st
  <2>2. QED
    BY <2>1 DEF Fresh, ZeroNum
<1>2. TypeOK /\ Normalised /\ Caches /\ [Arithmetic \/ Quotients \/ Unindexed]_vars => Caches'
  <2> SUFFICES ASSUME TypeOK, Normalised, Caches, [Arithmetic \/ Quotients \/ Unindexed]_vars PROVE Caches'
    OBVIOUS
  <2>1. CASE UNCHANGED vars
    <3>1. st' = st
      BY <2>1 DEF vars, st
    <3>2. QED
      BY <3>1 DEF Caches, Fresh, Words, Vec
  <2>2. CASE Arithmetic
    BY <2>2, ConstructorsKeep, SignsKeep, SumsKeep, ProductsKeep DEF Arithmetic
  <2>3. CASE Quotients \/ Unindexed
    BY <2>3, QuotientsKeep, RemaindersKeep
  <2>4. QED
    BY <2>1, <2>2, <2>3
<1>3. TypeOK /\ Normalised /\ Caches => ReadsExact
  <2> SUFFICES ASSUME TypeOK, Normalised, Caches, NEW x \in Obj, NEW n \in 0 .. MaxVec
               PROVE  U32(st, x, n) = (Value(st, x) \div Base ^ n) % Base
    BY DEF ReadsExact
  <2>1. Proper(st) /\ Holds(st, x, Value(st, x)) /\ Fresh(st, x)
    BY StateHolds DEF Caches
  <2>2. QED
    BY <2>1, ReadsTwos
<1>4. Init => TypeOK /\ Normalised
  BY InitSound
<1>5. TypeOK /\ Normalised /\ [Arithmetic \/ Quotients \/ Unindexed]_vars => (TypeOK /\ Normalised)'
  BY CalculationsStep DEF Calculations, Unindexed
<1>6. QED
  BY <1>1, <1>2, <1>3, <1>4, <1>5, PTL DEF ReadingSpec
=============================================================================
