---------------------------- MODULE Eval_proofs ----------------------------
(* What holds of every text: the tokenizer stays inside it, the parser     *)
(* inside its tokens, an error empties the root, the pool holds a tree,    *)
(* and peval gives no value that eval does not.                            *)
EXTENDS Eval, NaturalsInduction, WellFoundedInduction, SequenceTheorems, FiniteSetTheorems, TLAPS

-----------------------------------------------------------------------------
(* Sequences whose elements are of no interest: tokens and nodes.          *)
IsSeq(s) == \E S : s \in Seq(S)

LEMMA SeqFacts ==
  ASSUME NEW s, IsSeq(s)
  PROVE  Len(s) \in Nat /\ DOMAIN s = 1 .. Len(s)
<1>1. PICK S : s \in Seq(S)
  BY DEF IsSeq
<1>2. QED
  BY <1>1

LEMMA AppendFacts ==
  ASSUME NEW s, IsSeq(s), NEW e
  PROVE  /\ IsSeq(Append(s, e)) /\ Len(Append(s, e)) = Len(s) + 1
         /\ Append(s, e)[Len(s) + 1] = e
         /\ \A i \in 1 .. Len(s) : Append(s, e)[i] = s[i]
<1>1. PICK S : s \in Seq(S)
  BY DEF IsSeq
<1> DEFINE T == S \cup {e}
<1>2. s \in Seq(T)
  <2>1. \A i \in 1 .. Len(s) : s[i] \in T
    BY <1>1
  <2>2. Len(s) \in Nat /\ s = [i \in 1 .. Len(s) |-> s[i]]
    BY <1>1
  <2>3. QED
    BY <2>1, <2>2
<1>3. e \in T
  OBVIOUS
<1> HIDE DEF T
<1>4. Append(s, e) \in Seq(T) /\ Len(Append(s, e)) = Len(s) + 1
  BY <1>2, <1>3
<1>5. QED
  BY <1>2, <1>3, <1>4 DEF IsSeq

LEMMA EmptyFacts == IsSeq(<< >>) /\ Len(<< >>) = 0
<1>1. << >> \in Seq({})
  OBVIOUS
<1>2. QED
  BY <1>1 DEF IsSeq

(* The end of a sequence.                                                  *)
LEMMA FrontFacts ==
  ASSUME NEW S, NEW s \in Seq(S), s # << >>
  PROVE  /\ Len(s) \in Nat \ {0}
         /\ Front(s) \in Seq(S) /\ Len(Front(s)) = Len(s) - 1
         /\ \A i \in 1 .. Len(s) - 1 : Front(s)[i] = s[i]
         /\ Last(s) = s[Len(s)] /\ Last(s) \in S
<1>1. Len(s) \in Nat \ {0}
  BY EmptySeq
<1>2. Len(s) - 1 \in 0 .. Len(s)
  BY <1>1
<1>3. /\ Front(s) \in Seq(S) /\ Len(Front(s)) = Len(s) - 1
      /\ \A i \in 1 .. Len(s) - 1 : Front(s)[i] = s[i]
  <2>1. Front(s) = SubSeq(s, 1, Len(s) - 1)
    BY DEF Front
  <2>2. Len(s) - 1 \in 0 .. Len(s)
    BY <1>1
  <2> DEFINE m == Len(s) - 1
             t == SubSeq(s, 1, m)
  <2>3. m \in Int /\ 1 \in Int /\ \A i \in 1 .. m : s[i] \in S
    BY <1>1
  <2> HIDE DEF m
  <2>4. t \in Seq(S) /\ Len(t) = (IF 1 <= m THEN m - 1 + 1 ELSE 0)
        /\ \A i \in 1 .. m - 1 + 1 : t[i] = s[1 + i - 1]
    BY <2>3, SubSeqProperties
  <2>5. m \in Nat /\ m - 1 + 1 = m /\ \A i \in 1 .. m : 1 + i - 1 = i
    BY <2>2 DEF m
  <2>6. Len(t) = m /\ \A i \in 1 .. m : t[i] = s[i]
    <3> HIDE DEF t
    <3>1. QED
      BY <2>4, <2>5
  <2>7. QED
    BY <2>1, <2>4, <2>6 DEF m
<1>4. QED
  BY <1>1, <1>3 DEF Last

-----------------------------------------------------------------------------
(* The pool.                                                               *)
BinaryOps == {"OR", "XOR", "AND", "EQU", "NEQU", "LT", "LE", "GT", "GE",
              "SHIFTLEFT", "SHIFTRIGHT", "ADD", "SUB", "MUL", "DIV", "MOD", "POW"}

(* As many operands as the operator takes.                                 *)
Shaped(node) ==
  \/ node.op \in {"LITERAL", "BUILTINCONSTANT"} /\ node.kids = << >>
  \/ node.op \in Sign \cup {"FACT"} /\ Len(node.kids) = 1
  \/ node.op \in BinaryOps /\ Len(node.kids) = 2
  \/ node.op = "QMARK" /\ Len(node.kids) = 3
  \/ node.op = "BUILTINFUNC"

(* The array is filled before the deque; operands come before operators.   *)
PoolOK(pool) ==
  /\ pool = [buf |-> pool.buf, ex |-> pool.ex]
  /\ IsSeq(pool.buf) /\ IsSeq(pool.ex)
  /\ Len(pool.buf) <= InitBufSize
  /\ Len(pool.ex) # 0 => Len(pool.buf) = InitBufSize
  /\ \A n \in 0 .. Count(pool) - 1 :
       Shaped(Get(pool, n)) /\ Get(pool, n).kids \in Seq(Null .. n - 1)

LEMMA CountNat == ASSUME NEW pool, PoolOK(pool) PROVE Count(pool) \in Nat
  BY SeqFacts DEF PoolOK, Count

(* A new node comes last, and the others keep their places.                *)
LEMMA NewNodeFacts ==
  ASSUME NEW pool, PoolOK(pool), NEW node, Shaped(node),
         node.kids \in Seq(Null .. Count(pool) - 1)
  PROVE  LET q == NewNode(pool, node)
         IN  /\ PoolOK(q) /\ Count(q) = Count(pool) + 1
             /\ Get(q, Count(pool)) = node
             /\ \A n \in 0 .. Count(pool) - 1 : Get(q, n) = Get(pool, n)
<1> DEFINE q == NewNode(pool, node)
           N == Count(pool)
           b == Len(pool.buf)
           x == Len(pool.ex)
<1>1. /\ IsSeq(pool.buf) /\ IsSeq(pool.ex) /\ b \in Nat /\ x \in Nat /\ N = b + x
      /\ b <= InitBufSize /\ (x # 0 => b = InitBufSize) /\ InitBufSize \in Nat
      /\ pool = [buf |-> pool.buf, ex |-> pool.ex]
  BY SeqFacts, BufAssumption DEF PoolOK, Count
<1>0. b \in Nat /\ x \in Nat /\ N = b + x /\ InitBufSize \in Nat
      /\ b <= InitBufSize /\ (x # 0 => b = InitBufSize)
  BY <1>1
<1>2. /\ q = [buf |-> q.buf, ex |-> q.ex] /\ IsSeq(q.buf) /\ IsSeq(q.ex)
      /\ Len(q.buf) <= InitBufSize /\ (Len(q.ex) # 0 => Len(q.buf) = InitBufSize)
      /\ Count(q) = N + 1 /\ Get(q, N) = node
      /\ \A n \in 0 .. N - 1 : Get(q, n) = Get(pool, n)
  <2>1. CASE N >= InitBufSize
    <3>1. q = [buf |-> pool.buf, ex |-> Append(pool.ex, node)] /\ b = InitBufSize
      <4>1. q = [pool EXCEPT !.ex = Append(@, node)]
        BY <2>1 DEF NewNode
      <4>2. b = InitBufSize
        BY <1>1, <2>1
      <4>3. QED
        BY <1>1, <4>1, <4>2
    <3> HIDE DEF q
    <3>2. /\ q.buf = pool.buf /\ IsSeq(q.ex) /\ Len(q.ex) = x + 1 /\ q.ex[x + 1] = node
          /\ \A i \in 1 .. x : q.ex[i] = pool.ex[i]
      BY <1>1, <3>1, AppendFacts
    <3>3. Count(q) = N + 1 /\ Get(q, N) = node
      <4>1. N \in Nat /\ ~(N < InitBufSize) /\ N - InitBufSize + 1 = x + 1 /\ N + 1 = b + (x + 1)
        BY <1>0, <2>1, <3>1
      <4> HIDE DEF N, x
      <4>2. QED
        BY <3>2, <4>1 DEF Count, Get
    <3>4. ASSUME NEW n \in 0 .. N - 1 PROVE Get(q, n) = Get(pool, n)
      <4>1. n \in Nat /\ InitBufSize \in Nat /\ (n >= InitBufSize => n - InitBufSize + 1 \in 1 .. x)
        BY <1>0, <3>1
      <4> HIDE DEF x
      <4>2. QED
        BY <3>2, <4>1 DEF Get
    <3>5. QED
      BY <1>1, <3>1, <3>2, <3>3, <3>4
  <2>2. CASE ~(N >= InitBufSize)
    <3>1. q = [buf |-> Append(pool.buf, node), ex |-> pool.ex] /\ x = 0 /\ b < InitBufSize
      <4>1. q = [pool EXCEPT !.buf = Append(@, node)]
        BY <2>2 DEF NewNode
      <4>2. x = 0 /\ b < InitBufSize
        BY <1>1, <2>2
      <4>3. QED
        BY <1>1, <4>1, <4>2
    <3> HIDE DEF q
    <3>2. /\ q.ex = pool.ex /\ IsSeq(q.buf) /\ Len(q.buf) = b + 1 /\ q.buf[b + 1] = node
          /\ \A i \in 1 .. b : q.buf[i] = pool.buf[i]
      BY <1>1, <3>1, AppendFacts
    <3>3. Count(q) = N + 1 /\ Get(q, N) = node
      <4>1. N \in Nat /\ N < InitBufSize /\ N + 1 = b + 1 /\ N + 1 = (b + 1) + x
        BY <1>0, <2>2, <3>1
      <4> HIDE DEF N, b
      <4>2. QED
        BY <3>2, <4>1 DEF Count, Get
    <3>4. ASSUME NEW n \in 0 .. N - 1 PROVE Get(q, n) = Get(pool, n)
      <4>1. n < InitBufSize /\ n + 1 \in 1 .. b
        BY <1>0, <3>1
      <4> HIDE DEF b
      <4>2. QED
        BY <3>2, <4>1 DEF Get
    <3>5. Len(q.ex) = 0 /\ Len(q.buf) <= InitBufSize
      BY <1>0, <3>1, <3>2
    <3>6. QED
      BY <1>1, <3>1, <3>2, <3>3, <3>4, <3>5
  <2>3. QED
    BY <2>1, <2>2
<1> HIDE DEF q
<1>3. ASSUME NEW n \in 0 .. Count(q) - 1
      PROVE  Shaped(Get(q, n)) /\ Get(q, n).kids \in Seq(Null .. n - 1)
  <2>1. CASE n = N
    BY <1>1, <1>2, <2>1
  <2>2. CASE n # N
    <3>1. n \in 0 .. N - 1
      BY <1>1, <1>2, <2>2
    <3>2. QED
      BY <1>2, <3>1 DEF PoolOK
  <2>3. QED
    BY <2>1, <2>2
<1>4. QED
  BY <1>1, <1>2, <1>3 DEF PoolOK, q

-----------------------------------------------------------------------------
(* Where nodes are referred to: list n is that of the operands of node n,  *)
(* list -j that of frame j, and the last one, -l, what has just been       *)
(* parsed.  Every node is in one place, and operands before operators.     *)
Forest(N, l, A) ==
  /\ \A i \in - l .. N - 1 : A[i] \in Seq(Null .. N - 1)
  /\ \A i \in 0 .. N - 1 : A[i] \in Seq(Null .. i - 1)
  /\ \A i, k \in - l .. N - 1 : \A a \in DOMAIN A[i], b \in DOMAIN A[k] :
       A[i][a] = A[k][b] => A[i][a] = Null \/ (i = k /\ a = b)
  /\ \A c \in 0 .. N - 1 : \E i \in - l .. N - 1 : \E a \in DOMAIN A[i] : A[i][a] = c

LEMMA ForestGrows ==
  ASSUME NEW N \in Nat, NEW l \in Nat, NEW k \in Nat, NEW A, Forest(N, l, A),
         NEW B, \A i \in - l .. N - 1 : B[i] = A[i],
         \A i \in - (l + k) .. - (l + 1) : B[i] = << >>
  PROVE  Forest(N, l + k, B)
<1>1. \A i \in - (l + k) .. N - 1 : i \in - l .. N - 1 \/ i \in - (l + k) .. - (l + 1)
  OBVIOUS
<1>2. \A i \in - l .. N - 1 : i \in - (l + k) .. N - 1
  OBVIOUS
<1>3. \A i \in - (l + k) .. - (l + 1) : DOMAIN B[i] = {} /\ B[i] \in Seq(Null .. N - 1)
  <2>1. DOMAIN << >> = {} /\ << >> \in Seq(Null .. N - 1)
    OBVIOUS
  <2>2. QED
    BY <2>1
<1>4. \A i \in 0 .. N - 1 : i \in - l .. N - 1
  OBVIOUS
<1>5. \A i \in - (l + k) .. N - 1 : B[i] \in Seq(Null .. N - 1)
  BY <1>1, <1>3 DEF Forest
<1>6. \A i \in 0 .. N - 1 : B[i] \in Seq(Null .. i - 1)
  BY <1>4 DEF Forest
<1>7. \A i, j \in - (l + k) .. N - 1 : \A a \in DOMAIN B[i], b \in DOMAIN B[j] :
        B[i][a] = B[j][b] => B[i][a] = Null \/ (i = j /\ a = b)
  <2>1. TAKE i, j \in - (l + k) .. N - 1
  <2>2. TAKE a \in DOMAIN B[i], b \in DOMAIN B[j]
  <2>3. i \in - l .. N - 1 /\ j \in - l .. N - 1
    BY <1>1, <1>3, <2>2
  <2>4. B[i] = A[i] /\ B[j] = A[j]
    BY <2>3
  <2>5. QED
    BY <2>2, <2>3, <2>4 DEF Forest
<1>8. \A c \in 0 .. N - 1 : \E i \in - (l + k) .. N - 1 : \E a \in DOMAIN B[i] : B[i][a] = c
  <2>1. TAKE c \in 0 .. N - 1
  <2>2. PICK i \in - l .. N - 1 : \E a \in DOMAIN A[i] : A[i][a] = c
    BY DEF Forest
  <2>3. QED
    BY <1>2, <2>2
<1>9. QED
  BY <1>5, <1>6, <1>7, <1>8 DEF Forest

(* The last two lists become one.                                          *)
LEMMA ForestMerges ==
  ASSUME NEW N \in Nat, NEW l \in Nat, NEW A, Forest(N, l + 1, A), l > 0,
         NEW B, \A i \in - l .. N - 1 : i # - l => B[i] = A[i],
         B[- l] = A[- l] \o A[- (l + 1)]
  PROVE  Forest(N, l, B)
<1> DEFINE s == A[- l]
           t == A[- (l + 1)]
           S == Null .. N - 1
           m == Len(s)
           n == Len(t)
<1>1. /\ \A i \in - l .. N - 1 : i \in - (l + 1) .. N - 1 /\ i # - (l + 1)
      /\ \A i \in - (l + 1) .. N - 1 : i \in - l .. N - 1 \/ i = - (l + 1)
      /\ - (l + 1) \in - (l + 1) .. N - 1 /\ - l \in - (l + 1) .. N - 1
      /\ - l \in - l .. N - 1 /\ - l # - (l + 1)
      /\ \A i \in 0 .. N - 1 : i \in - l .. N - 1 /\ i # - l
  OBVIOUS
<1>2. s \in Seq(S) /\ t \in Seq(S)
  BY <1>1 DEF Forest
<1>3. /\ B[- l] \in Seq(S) /\ DOMAIN B[- l] = 1 .. m + n
      /\ m \in Nat /\ n \in Nat /\ DOMAIN s = 1 .. m /\ DOMAIN t = 1 .. n
      /\ \A a \in 1 .. m : B[- l][a] = s[a]
      /\ \A a \in 1 .. n : B[- l][m + a] = t[a]
  <2> HIDE DEF s, t, S
  <2>1. B[- l] = s \o t
    BY DEF s, t
  <2>2. QED
    BY <1>2, <2>1
<1> HIDE DEF m, n
<1> DEFINE from(i, a) == IF i = - l /\ a > m THEN <<- (l + 1), a - m>> ELSE <<i, a>>
<1>4. ASSUME NEW i \in - l .. N - 1, NEW a \in DOMAIN B[i]
      PROVE  \E j \in - (l + 1) .. N - 1 : \E b \in DOMAIN A[j] :
               /\ A[j][b] = B[i][a] /\ from(i, a) = <<j, b>>
  <2>1. CASE i # - l
    BY <1>1, <2>1
  <2>2. CASE i = - l /\ a > m
    <3>1. a \in 1 .. m + n
      BY <1>3, <2>2
    <3>2. a - m \in 1 .. n /\ m + (a - m) = a
      BY <1>3, <2>2, <3>1
    <3>3. B[- l][a] = t[a - m]
      BY <1>3, <3>2
    <3>4. QED
      BY <1>1, <1>3, <2>2, <3>2, <3>3
  <2>3. CASE i = - l /\ ~(a > m)
    <3>1. a \in DOMAIN B[- l]
      BY <2>3
    <3>2. a \in 1 .. m
      BY <1>3, <2>3, <3>1
    <3>3. QED
      BY <1>1, <1>3, <2>3, <3>2
  <2>4. QED
    BY <2>1, <2>2, <2>3
<1>5. ASSUME NEW i \in - l .. N - 1, NEW k \in - l .. N - 1,
             NEW a \in DOMAIN B[i], NEW b \in DOMAIN B[k], from(i, a) = from(k, b)
      PROVE  i = k /\ a = b
  <2>1. \A j \in - l .. N - 1 : j # - (l + 1)
    BY <1>1
  <2>2. i = k
    <3>1. i = - l /\ a > m => k = - l /\ b > m
      BY <1>5, <2>1
    <3>2. QED
      BY <1>5, <2>1, <3>1
  <2>3. i = - l => a \in Int /\ b \in Int
    <3>1. i = - l => a \in DOMAIN B[- l] /\ b \in DOMAIN B[- l]
      BY <2>2
    <3>2. QED
      BY <1>3, <3>1
  <2>4. a = b
    <3>1. CASE i # - l
      BY <1>5, <2>2, <3>1
    <3>2. CASE i = - l
      <4>1. a \in Int /\ b \in Int /\ m \in Int
        BY <1>3, <2>3, <3>2
      <4>2. a > m <=> b > m
        BY <1>5, <2>1, <2>2, <3>2
      <4>3. (IF a > m THEN a - m ELSE a) = (IF b > m THEN b - m ELSE b)
        BY <1>5, <2>2, <3>2, <4>2
      <4>4. QED
        BY <4>1, <4>2, <4>3
    <3>3. QED
      BY <3>1, <3>2
  <2>5. QED
    BY <2>2, <2>4
<1>6. \A i \in - l .. N - 1 : B[i] \in Seq(Null .. N - 1)
  BY <1>1, <1>3 DEF Forest
<1>7. \A i \in 0 .. N - 1 : B[i] \in Seq(Null .. i - 1)
  BY <1>1 DEF Forest
<1>8. ASSUME NEW i \in - l .. N - 1, NEW k \in - l .. N - 1,
             NEW a \in DOMAIN B[i], NEW b \in DOMAIN B[k], B[i][a] = B[k][b], B[i][a] # Null
      PROVE  i = k /\ a = b
  <2> HIDE DEF from
  <2>1. PICK j \in - (l + 1) .. N - 1 :
          \E c \in DOMAIN A[j] : A[j][c] = B[i][a] /\ from(i, a) = <<j, c>>
    BY <1>4
  <2>2. PICK c \in DOMAIN A[j] : A[j][c] = B[i][a] /\ from(i, a) = <<j, c>>
    BY <2>1
  <2>3. PICK h \in - (l + 1) .. N - 1 :
          \E d \in DOMAIN A[h] : A[h][d] = B[k][b] /\ from(k, b) = <<h, d>>
    BY <1>4
  <2>4. PICK d \in DOMAIN A[h] : A[h][d] = B[k][b] /\ from(k, b) = <<h, d>>
    BY <2>3
  <2>5. j = h /\ c = d
    BY <1>8, <2>2, <2>4 DEF Forest
  <2>6. QED
    BY <1>5, <2>2, <2>4, <2>5
<1>9. ASSUME NEW c \in 0 .. N - 1
      PROVE  \E i \in - l .. N - 1 : \E a \in DOMAIN B[i] : B[i][a] = c
  <2>1. PICK i \in - (l + 1) .. N - 1 : \E a \in DOMAIN A[i] : A[i][a] = c
    BY DEF Forest
  <2>2. PICK a \in DOMAIN A[i] : A[i][a] = c
    BY <2>1
  <2>3. CASE i = - (l + 1)
    <3>1. a \in 1 .. n /\ t[a] = c
      BY <1>3, <2>2, <2>3
    <3>2. m + a \in 1 .. m + n
      BY <1>3, <3>1
    <3>3. QED
      BY <1>1, <1>3, <3>1, <3>2
  <2>4. CASE i = - l
    <3>1. a \in 1 .. m /\ a \in 1 .. m + n
      BY <1>3, <2>4
    <3>2. QED
      BY <1>1, <1>3, <2>2, <2>4, <3>1
  <2>5. CASE i # - (l + 1) /\ i # - l
    BY <1>1, <2>2, <2>5
  <2>6. QED
    BY <2>3, <2>4, <2>5
<1>10. QED
  BY <1>6, <1>7, <1>8, <1>9 DEF Forest

(* What has just been parsed becomes the operands of a new node.           *)
LEMMA ForestTakes ==
  ASSUME NEW N \in Nat, NEW l \in Nat, l > 0, NEW A, Forest(N, l, A),
         NEW B, \A i \in - l .. N - 1 : i # - l => B[i] = A[i],
         B[N] = A[- l], B[- l] = <<N>>
  PROVE  Forest(N + 1, l, B)
<1> DEFINE S == Null .. (N + 1) - 1
           from(i) == IF i = N THEN - l ELSE i
<1>1. /\ - l \in - l .. N - 1 /\ - l \in - l .. (N + 1) - 1 /\ N \in - l .. (N + 1) - 1
      /\ \A i \in - l .. N - 1 : i \in - l .. (N + 1) - 1 /\ i # N
      /\ \A i \in - l .. (N + 1) - 1 : i = N \/ i \in - l .. N - 1
      /\ \A i \in 0 .. (N + 1) - 1 : i = N \/ (i \in 0 .. N - 1 /\ i \in - l .. N - 1 /\ i # - l)
      /\ - l # N
  OBVIOUS
<1>2. \A s \in Seq(Null .. N - 1) : s \in Seq(S) /\ \A a \in DOMAIN s : s[a] # N
  <2>1. TAKE s \in Seq(Null .. N - 1)
  <2>2. \A a \in 1 .. Len(s) : s[a] \in Null .. N - 1
    BY ElementOfSeq
  <2>3. \A x \in Null .. N - 1 : x \in S /\ x # N
    BY DEF Null
  <2>4. \A a \in 1 .. Len(s) : s[a] \in S /\ s[a] # N
    BY <2>2, <2>3
  <2>5. Len(s) \in Nat /\ s = [a \in 1 .. Len(s) |-> s[a]] /\ DOMAIN s = 1 .. Len(s)
    OBVIOUS
  <2> HIDE DEF S
  <2>6. QED
    BY <2>4, <2>5
<1>3. B[- l] \in Seq(S) /\ DOMAIN B[- l] = {1} /\ B[- l][1] = N
  <2>1. N \in S
    BY DEF Null
  <2> HIDE DEF S
  <2>2. QED
    BY <2>1
<1>4. \A i \in - l .. (N + 1) - 1 : i # - l => from(i) \in - l .. N - 1 /\ B[i] = A[from(i)]
  BY <1>1
<1>5. \A i, k \in - l .. (N + 1) - 1 : i # - l /\ k # - l /\ from(i) = from(k) => i = k
  OBVIOUS
<1>6. \A i \in - l .. (N + 1) - 1 : B[i] \in Seq(S)
  <2>1. TAKE i \in - l .. (N + 1) - 1
  <2>2. CASE i = - l
    BY <1>3, <2>2
  <2>3. CASE i # - l
    <3>1. B[i] \in Seq(Null .. N - 1)
      BY <1>4, <2>3 DEF Forest
    <3> HIDE DEF S
    <3>2. QED
      BY <1>2, <3>1
  <2>4. QED
    BY <2>2, <2>3
<1>7. \A i \in 0 .. (N + 1) - 1 : B[i] \in Seq(Null .. i - 1)
  <2>1. A[- l] \in Seq(Null .. N - 1)
    BY <1>1 DEF Forest
  <2>2. TAKE i \in 0 .. (N + 1) - 1
  <2>3. CASE i = N
    BY <2>1, <2>3
  <2>4. CASE i # N
    <3>1. i \in 0 .. N - 1 /\ B[i] = A[i]
      BY <1>1, <2>4
    <3>2. QED
      BY <3>1 DEF Forest
  <2>5. QED
    BY <2>3, <2>4
<1>8. ASSUME NEW i \in - l .. (N + 1) - 1, NEW k \in - l .. (N + 1) - 1,
             NEW a \in DOMAIN B[i], NEW b \in DOMAIN B[k], B[i][a] = B[k][b], B[i][a] # Null
      PROVE  i = k /\ a = b
  <2>1. \A j \in - l .. (N + 1) - 1 : j # - l => \A c \in DOMAIN B[j] : B[j][c] # N
    <3>1. TAKE j \in - l .. (N + 1) - 1
    <3>2. HAVE j # - l
    <3>3. B[j] \in Seq(Null .. N - 1)
      BY <1>4, <3>2 DEF Forest
    <3> HIDE DEF S
    <3>4. QED
      BY <1>2, <3>3
  <2>2. CASE i = - l
    <3>1. a = 1 /\ B[i][a] = N
      BY <1>3, <2>2
    <3>2. k = - l
      BY <1>8, <2>1, <3>1
    <3>3. QED
      BY <1>3, <2>2, <3>1, <3>2
  <2>3. CASE i # - l
    <3>1. k # - l
      <4>1. B[k][b] # N
        BY <1>8, <2>1, <2>3
      <4>2. QED
        BY <1>3, <4>1
    <3>2. from(i) = from(k) /\ a = b
      <4>1. B[i] = A[from(i)] /\ B[k] = A[from(k)] /\ from(i) \in - l .. N - 1 /\ from(k) \in - l .. N - 1
        BY <1>4, <2>3, <3>1
      <4> HIDE DEF from
      <4>2. QED
        BY <1>8, <4>1 DEF Forest
    <3>3. QED
      BY <1>5, <2>3, <3>1, <3>2
  <2>4. QED
    BY <2>2, <2>3
<1>9. ASSUME NEW c \in 0 .. (N + 1) - 1
      PROVE  \E i \in - l .. (N + 1) - 1 : \E a \in DOMAIN B[i] : B[i][a] = c
  <2>1. CASE c = N
    BY <1>1, <1>3, <2>1
  <2>2. CASE c # N
    <3>1. c \in 0 .. N - 1
      BY <2>2
    <3>2. PICK i \in - l .. N - 1 : \E a \in DOMAIN A[i] : A[i][a] = c
      BY <3>1 DEF Forest
    <3>3. PICK a \in DOMAIN A[i] : A[i][a] = c
      BY <3>2
    <3>4. CASE i = - l
      <4>1. a \in DOMAIN B[N] /\ B[N][a] = c
        BY <3>3, <3>4
      <4>2. QED
        BY <1>1, <4>1
    <3>5. CASE i # - l
      <4>1. a \in DOMAIN B[i] /\ B[i][a] = c
        BY <3>3, <3>5
      <4>2. QED
        BY <1>1, <4>1
    <3>6. QED
      BY <3>4, <3>5
  <2>3. QED
    BY <2>1, <2>2
<1>10. QED
  BY <1>6, <1>7, <1>8, <1>9 DEF Forest

(* A missing operand is no node.                                           *)
LEMMA ForestMisses ==
  ASSUME NEW N \in Nat, NEW l \in Nat, l > 0, NEW A, Forest(N, l, A), A[- l] = << >>,
         NEW B, \A i \in - l .. N - 1 : i # - l => B[i] = A[i], B[- l] = <<Null>>
  PROVE  Forest(N, l, B)
<1>1. Null \in Null .. N - 1
  BY DEF Null
<1>2. B[- l] \in Seq(Null .. N - 1) /\ DOMAIN B[- l] = {1} /\ B[- l][1] = Null
  BY <1>1
<1>3. DOMAIN A[- l] = {}
  OBVIOUS
<1>4. \A i \in - l .. N - 1 : B[i] \in Seq(Null .. N - 1)
  BY <1>2 DEF Forest
<1>5. \A i \in 0 .. N - 1 : B[i] \in Seq(Null .. i - 1)
  <2>1. \A i \in 0 .. N - 1 : i \in - l .. N - 1 /\ i # - l
    OBVIOUS
  <2>2. QED
    BY <2>1 DEF Forest
<1>6. \A i, k \in - l .. N - 1 : \A a \in DOMAIN B[i], b \in DOMAIN B[k] :
        B[i][a] = B[k][b] => B[i][a] = Null \/ (i = k /\ a = b)
  <2>1. TAKE i, k \in - l .. N - 1
  <2>2. TAKE a \in DOMAIN B[i], b \in DOMAIN B[k]
  <2>3. CASE i # - l /\ k # - l
    <3>1. B[i] = A[i] /\ B[k] = A[k]
      BY <2>3
    <3>2. QED
      BY <2>2, <3>1 DEF Forest
  <2>4. CASE i = - l
    BY <1>2, <2>4
  <2>5. CASE k = - l
    BY <1>2, <2>5
  <2>6. QED
    BY <2>3, <2>4, <2>5
<1>7. \A c \in 0 .. N - 1 : \E i \in - l .. N - 1 : \E a \in DOMAIN B[i] : B[i][a] = c
  <2>1. TAKE c \in 0 .. N - 1
  <2>2. PICK i \in - l .. N - 1 : \E a \in DOMAIN A[i] : A[i][a] = c
    BY DEF Forest
  <2>3. i # - l
    BY <1>3, <2>2
  <2>4. QED
    BY <2>2, <2>3
<1>8. QED
  BY <1>4, <1>5, <1>6, <1>7 DEF Forest

-----------------------------------------------------------------------------
(* The parser's state, now being what has been parsed since the innermost  *)
(* call was made: nothing, an operand, or those of the next node.          *)
Rows(pool, calls, now) ==
  [i \in - (Len(calls) + 1) .. Count(pool) - 1 |->
     IF i >= 0 THEN Get(pool, i).kids
     ELSE IF i = - (Len(calls) + 1) THEN now ELSE calls[- i].held]

Functions == {"conditional", "binary", "sign", "postfix", "bracket", "call"}
FrameType == [fn : Functions, level : 0 .. 9, tok : Nat, held : Seq(Int)]
FrameOK(ts, f, N) ==
  /\ f.held \in Seq(Null .. N - 1)
  /\ f.fn = "conditional" => Len(f.held) <= 2
  /\ f.fn = "binary" => /\ f.level \in 1 .. 9
                        /\ f.held # << >> => /\ Len(f.held) = 1
                                             /\ ts[f.tok].type \in Level[f.level]
  /\ f.fn = "sign" => f.held = << >> /\ ts[f.tok].type \in Sign
  /\ f.fn \in {"postfix", "bracket"} => f.held = << >>

(* parse() calls parseExpr, and parseExpr alone.                           *)
CallsOK(ts, calls, N) ==
  /\ calls \in Seq(FrameType)
  /\ \A j \in 1 .. Len(calls) : FrameOK(ts, calls[j], N)
  /\ calls # << >> => calls[1].fn = "conditional"

IsRec(p) == p = [pos |-> p.pos, pool |-> p.pool, err |-> p.err, node |-> p.node,
                 calls |-> p.calls, at |-> p.at]
Closed(ts) == Len(ts) > 0 /\ ts[Len(ts)].type = "INVALID"
Good(ts, p, now) ==
  /\ IsRec(p) /\ IsSeq(ts)
  /\ p.pos \in 1 .. Len(ts) + 1
  /\ Closed(ts) => p.pos <= Len(ts)
  /\ p.err \in BOOLEAN
  /\ PoolOK(p.pool)
  /\ p.node \in Null .. Count(p.pool) - 1
  /\ now \in Seq(Null .. Count(p.pool) - 1)
  /\ CallsOK(ts, p.calls, Count(p.pool))
  /\ ~ p.err => Forest(Count(p.pool), Len(p.calls) + 1, Rows(p.pool, p.calls, now))

(* The calls.                                                              *)
LEMMA CallsPush ==
  ASSUME NEW ts, NEW calls, NEW N \in Nat, CallsOK(ts, calls, N),
         NEW f \in FrameType, FrameOK(ts, f, N), calls = << >> => f.fn = "conditional"
  PROVE  LET pushed == Append(calls, f)
         IN  /\ CallsOK(ts, pushed, N) /\ pushed # << >> /\ Len(pushed) = Len(calls) + 1
             /\ pushed[Len(calls) + 1] = f /\ Last(pushed) = f
             /\ \A j \in 1 .. Len(calls) : pushed[j] = calls[j]
             /\ Len(calls) \in Nat
<1> DEFINE pushed == Append(calls, f)
<1>1. calls \in Seq(FrameType) /\ Len(calls) \in Nat
  BY DEF CallsOK
<1>2. /\ pushed \in Seq(FrameType) /\ Len(pushed) = Len(calls) + 1
      /\ pushed[Len(calls) + 1] = f /\ \A j \in 1 .. Len(calls) : pushed[j] = calls[j]
  <2> HIDE DEF FrameType
  <2>1. QED
    BY <1>1
<1> HIDE DEF pushed
<1>3. pushed # << >>
  BY <1>1, <1>2
<1>4. ASSUME NEW j \in 1 .. Len(pushed) PROVE FrameOK(ts, pushed[j], N)
  <2>1. CASE j = Len(calls) + 1
    BY <1>2, <2>1
  <2>2. CASE j # Len(calls) + 1
    <3>1. j \in 1 .. Len(calls)
      BY <1>1, <1>2, <2>2
    <3>2. QED
      BY <1>2, <3>1 DEF CallsOK
  <2>3. QED
    BY <2>1, <2>2
<1>5. pushed[1].fn = "conditional"
  <2>1. CASE calls = << >>
    <3>1. Len(calls) = 0
      BY <2>1
    <3>2. QED
      BY <1>2, <2>1, <3>1
  <2>2. CASE calls # << >>
    <3>1. 1 \in 1 .. Len(calls)
      BY <1>1, <2>2, EmptySeq
    <3>2. QED
      BY <1>2, <2>2, <3>1 DEF CallsOK
  <2>3. QED
    BY <2>1, <2>2
<1>6. QED
  BY <1>1, <1>2, <1>3, <1>4, <1>5 DEF CallsOK, Last, pushed

LEMMA CallsPop ==
  ASSUME NEW ts, NEW calls, NEW N \in Nat, CallsOK(ts, calls, N), calls # << >>
  PROVE  LET f == Last(calls)
             rest == Front(calls)
         IN  /\ f \in FrameType /\ FrameOK(ts, f, N)
             /\ CallsOK(ts, rest, N) /\ Len(calls) \in Nat \ {0} /\ Len(rest) = Len(calls) - 1
             /\ \A j \in 1 .. Len(calls) - 1 : rest[j] = calls[j]
             /\ f = calls[Len(calls)]
             /\ f.fn # "conditional" => rest # << >>
<1> DEFINE f == Last(calls)
           rest == Front(calls)
<1>1. calls \in Seq(FrameType)
  BY DEF CallsOK
<1>2. /\ Len(calls) \in Nat \ {0} /\ rest \in Seq(FrameType) /\ Len(rest) = Len(calls) - 1
      /\ \A j \in 1 .. Len(calls) - 1 : rest[j] = calls[j]
      /\ f = calls[Len(calls)] /\ f \in FrameType
  BY <1>1, FrontFacts
<1> HIDE DEF f, rest
<1>3. FrameOK(ts, f, N)
  BY <1>2 DEF CallsOK
<1>4. \A j \in 1 .. Len(rest) : FrameOK(ts, rest[j], N)
  BY <1>2 DEF CallsOK
<1>5. rest # << >> => rest[1].fn = "conditional"
  <2>1. HAVE rest # << >>
  <2>2. Len(rest) \in Nat \ {0}
    BY <1>2, <2>1, EmptySeq
  <2>3. 1 \in 1 .. Len(calls) - 1
    BY <1>2, <2>2
  <2>4. QED
    BY <1>2, <2>3 DEF CallsOK
<1>6. f.fn # "conditional" => rest # << >>
  <2>1. SUFFICES ASSUME rest = << >> PROVE f.fn = "conditional"
    OBVIOUS
  <2>2. Len(rest) = 0
    BY <2>1
  <2>3. Len(calls) = 1
    BY <1>2, <2>2
  <2>4. QED
    BY <1>2, <2>3 DEF CallsOK
<1>7. QED
  BY <1>2, <1>3, <1>4, <1>5, <1>6 DEF CallsOK, f, rest

LEMMA CallsStay ==
  ASSUME NEW ts, NEW calls, NEW N \in Nat, CallsOK(ts, calls, N)
  PROVE  CallsOK(ts, calls, N + 1)
<1>1. Null .. N - 1 \subseteq Null .. (N + 1) - 1
  BY DEF Null
<1>2. \A s \in Seq(Null .. N - 1) : s \in Seq(Null .. (N + 1) - 1)
  BY <1>1, SeqMonotonic
<1>3. \A j \in 1 .. Len(calls) : FrameOK(ts, calls[j], N + 1)
  BY <1>2 DEF CallsOK, FrameOK
<1>4. QED
  BY <1>3 DEF CallsOK

-----------------------------------------------------------------------------
(* What one step of the parser is made of.                                 *)
LEMMA RowsFacts ==
  ASSUME NEW pool, NEW calls, NEW now, Count(pool) \in Nat, Len(calls) \in Nat
  PROVE  LET A == Rows(pool, calls, now)
         IN  /\ \A i \in 0 .. Count(pool) - 1 : A[i] = Get(pool, i).kids
             /\ \A j \in 1 .. Len(calls) : A[- j] = calls[j].held
             /\ A[- (Len(calls) + 1)] = now
<1> DEFINE A == Rows(pool, calls, now)
           l == Len(calls)
           N == Count(pool)
<1>1. l \in Nat /\ N \in Nat
  OBVIOUS
<1>2. A = [i \in - (l + 1) .. N - 1 |->
             IF i >= 0 THEN Get(pool, i).kids ELSE IF i = - (l + 1) THEN now ELSE calls[- i].held]
  BY DEF Rows
<1> HIDE DEF A, l, N
<1>3. ASSUME NEW i \in 0 .. N - 1 PROVE A[i] = Get(pool, i).kids
  <2>1. i \in - (l + 1) .. N - 1 /\ i >= 0
    BY <1>1
  <2>2. QED
    BY <1>2, <2>1
<1>4. ASSUME NEW j \in 1 .. l PROVE A[- j] = calls[j].held
  <2>1. - j \in - (l + 1) .. N - 1 /\ ~(- j >= 0) /\ - j # - (l + 1) /\ - (- j) = j
    BY <1>1
  <2>2. QED
    BY <1>2, <2>1
<1>5. A[- (l + 1)] = now
  <2>1. - (l + 1) \in - (l + 1) .. N - 1 /\ ~(- (l + 1) >= 0)
    BY <1>1
  <2>2. QED
    BY <1>2, <2>1
<1>6. QED
  BY <1>3, <1>4, <1>5 DEF A, l, N

(* Every index is that of a node, a call, or the last list.                *)
LEMMA Indices ==
  ASSUME NEW N \in Nat, NEW l \in Nat, NEW i \in - l .. N - 1
  PROVE  i \in 0 .. N - 1 \/ \E j \in 1 .. l : i = - j
<1>1. CASE i >= 0
  BY <1>1
<1>2. CASE ~(i >= 0)
  <2>1. - i \in 1 .. l /\ i = - (- i)
    BY <1>2
  <2>2. QED
    BY <2>1
<1>3. QED
  BY <1>1, <1>2

(* at is not looked at.                                                    *)
LEMMA GoodAt ==
  ASSUME NEW ts, NEW p, NEW now, Good(ts, p, now), NEW at
  PROVE  Good(ts, [p EXCEPT !.at = at], now)
<1> DEFINE q == [p EXCEPT !.at = at]
<1>1. /\ IsRec(q) /\ q.pos = p.pos /\ q.pool = p.pool /\ q.err = p.err /\ q.node = p.node
      /\ q.calls = p.calls
  <2>1. IsRec(p)
    BY DEF Good
  <2>2. q = [pos |-> p.pos, pool |-> p.pool, err |-> p.err, node |-> p.node,
             calls |-> p.calls, at |-> at]
    BY <2>1 DEF IsRec
  <2> HIDE DEF q
  <2>3. QED
    BY <2>2 DEF IsRec
<1> HIDE DEF q
<1>2. Good(ts, q, now)
  BY <1>1 DEF Good
<1>3. QED
  BY <1>2 DEF q

LEMMA GoodCounts ==
  ASSUME NEW ts, NEW p, NEW now, Good(ts, p, now)
  PROVE  Count(p.pool) \in Nat /\ Len(p.calls) \in Nat /\ Len(ts) \in Nat
<1>1. Count(p.pool) \in Nat
  BY CountNat DEF Good
<1>2. Len(p.calls) \in Nat
  BY DEF Good, CallsOK
<1>3. Len(ts) \in Nat
  BY SeqFacts DEF Good
<1>4. QED
  BY <1>1, <1>2, <1>3

(* A call that holds what has been parsed.                                 *)
LEMMA GoodCall ==
  ASSUME NEW ts, NEW p, NEW f \in FrameType, Good(ts, p, f.held),
         FrameOK(ts, f, Count(p.pool)), p.calls = << >> => f.fn = "conditional"
  PROVE  LET q == Call(p, f)
         IN  Good(ts, q, << >>) /\ q.calls # << >> /\ Top(q) = f /\ q.pos = p.pos /\ q.at = p.at
<1> DEFINE q == Call(p, f)
           N == Count(p.pool)
           l == Len(p.calls)
           A == Rows(p.pool, p.calls, f.held)
           B == Rows(p.pool, q.calls, << >>)
<1>1. /\ IsRec(q) /\ q.pos = p.pos /\ q.pool = p.pool /\ q.err = p.err /\ q.node = p.node
      /\ q.calls = Append(p.calls, f) /\ q.at = p.at
  <2>1. IsRec(p)
    BY DEF Good
  <2>2. q = [pos |-> p.pos, pool |-> p.pool, err |-> p.err, node |-> p.node,
             calls |-> Append(p.calls, f), at |-> p.at]
    <3> DEFINE c == Append(p.calls, f)
    <3>1. q = [p EXCEPT !.calls = c]
      BY DEF Call
    <3> HIDE DEF c, q
    <3>2. [p EXCEPT !.calls = c]
            = [pos |-> p.pos, pool |-> p.pool, err |-> p.err, node |-> p.node,
               calls |-> c, at |-> p.at]
      BY ONLY <2>1 DEF IsRec
    <3>3. QED
      BY ONLY <3>1, <3>2, Zenon DEF c
  <2> HIDE DEF q
  <2>3. QED
    BY <2>2 DEF IsRec
<1>2. N \in Nat /\ l \in Nat
  BY GoodCounts
<1> HIDE DEF q
<1>3. /\ CallsOK(ts, q.calls, N) /\ q.calls # << >> /\ Len(q.calls) = l + 1
      /\ q.calls[l + 1] = f /\ Last(q.calls) = f
      /\ \A j \in 1 .. l : q.calls[j] = p.calls[j]
  BY <1>1, <1>2, CallsPush DEF Good
<1>4. ~ p.err => Forest(N, l + 2, B)
  <2>1. HAVE ~ p.err
  <2>2. Forest(N, l + 1, A)
    BY <2>1 DEF Good
  <2>3. /\ \A i \in 0 .. N - 1 : A[i] = Get(p.pool, i).kids
        /\ \A j \in 1 .. l : A[- j] = p.calls[j].held
        /\ A[- (l + 1)] = f.held
    BY <1>2, RowsFacts
  <2>4. l + 1 \in Nat /\ Len(q.calls) \in Nat
    BY <1>2, <1>3
  <2>5. /\ \A i \in 0 .. N - 1 : B[i] = Get(p.pool, i).kids
        /\ \A j \in 1 .. l + 1 : B[- j] = q.calls[j].held
        /\ B[- ((l + 1) + 1)] = << >>
    BY <1>2, <1>3, <2>4, RowsFacts
  <2> HIDE DEF A, B, N, l
  <2>6. \A i \in - (l + 1) .. N - 1 : B[i] = A[i]
    <3>1. TAKE i \in - (l + 1) .. N - 1
    <3>2. CASE i \in 0 .. N - 1
      BY <2>3, <2>5, <3>2
    <3>3. ASSUME NEW j \in 1 .. l + 1, i = - j PROVE B[i] = A[i]
      <4>1. CASE j = l + 1
        BY <1>3, <2>3, <2>5, <3>3, <4>1
      <4>2. CASE j # l + 1
        <5>1. j \in 1 .. l
          BY <1>2, <4>2
        <5>2. QED
          BY <1>3, <2>3, <2>5, <3>3, <5>1
      <4>3. QED
        BY <4>1, <4>2
    <3>4. QED
      BY <1>2, <2>4, <3>2, <3>3, Indices
  <2>7. \A i \in - ((l + 1) + 1) .. - ((l + 1) + 1) : B[i] = << >>
    BY <1>2, <2>5
  <2>8. Forest(N, (l + 1) + 1, B)
    <3>1. 1 \in Nat
      OBVIOUS
    <3>2. QED
      BY <1>2, <2>2, <2>4, <2>6, <2>7, <3>1, ForestGrows
  <2>9. (l + 1) + 1 = l + 2
    BY <1>2
  <2>10. QED
    BY <2>8, <2>9
<1>5. Good(ts, q, << >>)
  <2>1. << >> \in Seq(Null .. N - 1)
    OBVIOUS
  <2>2. Len(q.calls) + 1 = l + 2
    BY <1>2, <1>3
  <2>3. ~ q.err => Forest(Count(q.pool), Len(q.calls) + 1, Rows(q.pool, q.calls, << >>))
    BY <1>1, <1>4, <2>2
  <2>4. QED
    BY <1>1, <1>3, <2>1, <2>3 DEF Good
<1>6. QED
  BY <1>1, <1>3, <1>5 DEF Top, q

(* The functions for the operators from one level on.                      *)
LEMMA GoodCallLevels ==
  ASSUME NEW ts, NEW p, Good(ts, p, << >>), p.calls # << >>, NEW first \in 1 .. 10
  PROVE  LET q == CallLevels(p, first)
         IN  Good(ts, q, << >>) /\ q.calls # << >> /\ q.at = "operand"
<1> DEFINE q == CallLevels(p, first)
           N == Count(p.pool)
           l == Len(p.calls)
           k == 10 - first
           more == [i \in 1 .. k |-> Frame("binary", first + i - 1, 0, << >>)]
           A == Rows(p.pool, p.calls, << >>)
           B == Rows(p.pool, q.calls, << >>)
<1>1. /\ IsRec(q) /\ q.pos = p.pos /\ q.pool = p.pool /\ q.err = p.err /\ q.node = p.node
      /\ q.calls = p.calls \o more /\ q.at = "operand"
  <2>1. IsRec(p)
    BY DEF Good
  <2>2. Len(Level) = 9
    BY DEF Level
  <2>3. Len(Level) + 1 - first = k
    BY <2>2
  <2>4. q = [p EXCEPT !.calls = @ \o more, !.at = "operand"]
    <3> HIDE DEF k
    <3>1. QED
      BY <2>3 DEF CallLevels
  <2> HIDE DEF more
  <2>5. q = [pos |-> p.pos, pool |-> p.pool, err |-> p.err, node |-> p.node,
             calls |-> p.calls \o more, at |-> "operand"]
    BY <2>1, <2>4 DEF IsRec
  <2> HIDE DEF q
  <2>6. QED
    BY <2>5 DEF IsRec
<1>2. N \in Nat /\ l \in Nat /\ k \in Nat
  BY GoodCounts
<1> HIDE DEF q
<1>3. /\ more \in Seq(FrameType) /\ Len(more) = k
      /\ \A i \in 1 .. k : more[i].held = << >> /\ FrameOK(ts, more[i], N)
  <2>1. ASSUME NEW i \in 1 .. k
        PROVE  LET f == Frame("binary", first + i - 1, 0, << >>)
               IN  f \in FrameType /\ f.held = << >> /\ FrameOK(ts, f, N)
    <3> DEFINE m == first + i - 1
               f == Frame("binary", m, 0, << >>)
    <3>1. m \in 1 .. 9 /\ m \in 0 .. 9
      OBVIOUS
    <3>2. << >> \in Seq(Int) /\ << >> \in Seq(Null .. N - 1)
      OBVIOUS
    <3> HIDE DEF m
    <3>3. f \in FrameType /\ f.held = << >> /\ f.fn = "binary" /\ f.level = m
      <4> HIDE DEF f
      <4>1. f = [fn |-> "binary", level |-> m, tok |-> 0, held |-> << >>]
        BY DEF Frame, f
      <4>2. "binary" \in Functions /\ 0 \in Nat
        BY DEF Functions
      <4>3. f \in FrameType
        BY <3>1, <3>2, <4>1, <4>2 DEF FrameType
      <4>4. QED
        BY <4>1, <4>3
    <3> HIDE DEF f
    <3>4. FrameOK(ts, f, N)
      BY <3>1, <3>2, <3>3 DEF FrameOK
    <3>5. QED
      BY <3>3, <3>4 DEF f, m
  <2>2. \A i \in 1 .. k : more[i] = Frame("binary", first + i - 1, 0, << >>)
    OBVIOUS
  <2>3. \A i \in 1 .. k : more[i] \in FrameType
    BY <2>1, <2>2
  <2>4. more = [i \in 1 .. k |-> more[i]]
    OBVIOUS
  <2> HIDE DEF k, FrameType, more
  <2>5. more \in Seq(FrameType) /\ Len(more) = k
    BY <1>2, <2>3, <2>4
  <2>6. QED
    BY <2>1, <2>2, <2>5
<1> HIDE DEF more, k
<1>4. p.calls \in Seq(FrameType)
  BY DEF Good, CallsOK
<1>5. /\ q.calls \in Seq(FrameType) /\ Len(q.calls) = l + k
      /\ \A j \in 1 .. l : q.calls[j] = p.calls[j]
      /\ \A j \in l + 1 .. l + k : q.calls[j].held = << >> /\ FrameOK(ts, q.calls[j], N)
  <2>1. /\ q.calls \in Seq(FrameType) /\ Len(q.calls) = l + k
        /\ \A j \in 1 .. l + k : q.calls[j] = IF j <= l THEN p.calls[j] ELSE more[j - l]
    <3> DEFINE s == p.calls
    <3>1. s \in Seq(FrameType) /\ more \in Seq(FrameType)
      BY <1>3, <1>4
    <3> HIDE DEF FrameType, s
    <3>2. /\ s \o more \in Seq(FrameType) /\ Len(s \o more) = Len(s) + Len(more)
          /\ \A i \in 1 .. Len(s) + Len(more) : (s \o more)[i] =
                 IF i <= Len(s) THEN s[i] ELSE more[i - Len(s)]
      BY <3>1, ConcatProperties
    <3>3. Len(more) = k /\ q.calls = s \o more /\ Len(s) = l
      BY <1>1, <1>3 DEF s
    <3>4. QED
      BY <3>2, <3>3 DEF s
  <2> HIDE DEF l
  <2>2. ASSUME NEW j \in l + 1 .. l + k
        PROVE  q.calls[j].held = << >> /\ FrameOK(ts, q.calls[j], N)
    <3>1. j - l \in 1 .. k /\ j \in 1 .. l + k /\ ~(j <= l)
      BY <1>2
    <3>2. QED
      BY <1>3, <2>1, <3>1
  <2>3. \A j \in 1 .. l : q.calls[j] = p.calls[j]
    <3>1. \A j \in 1 .. l : j \in 1 .. l + k /\ j <= l
      BY <1>2
    <3>2. QED
      BY <2>1, <3>1
  <2>4. QED
    BY <2>1, <2>2, <2>3
<1>6. l >= 1
  BY <1>4, EmptySeq
<1>7. q.calls # << >>
  <2>1. Len(q.calls) # 0
    BY <1>2, <1>5, <1>6
  <2>2. QED
    BY <2>1, EmptyFacts
<1>8. CallsOK(ts, q.calls, N)
  <2>1. \A j \in 1 .. l : FrameOK(ts, p.calls[j], N)
    BY DEF Good, CallsOK
  <2>2. \A j \in 1 .. Len(q.calls) : j \in 1 .. l \/ j \in l + 1 .. l + k
    BY <1>2, <1>5
  <2>3. 1 \in 1 .. l /\ p.calls[1].fn = "conditional"
    BY <1>2, <1>6 DEF Good, CallsOK
  <2> HIDE DEF l
  <2>4. QED
    BY <1>5, <2>1, <2>2, <2>3 DEF CallsOK
<1>9. ~ p.err => Forest(N, (l + 1) + k, B)
  <2>1. HAVE ~ p.err
  <2>2. Forest(N, l + 1, A)
    BY <2>1 DEF Good
  <2>3. /\ \A i \in 0 .. N - 1 : A[i] = Get(p.pool, i).kids
        /\ \A j \in 1 .. l : A[- j] = p.calls[j].held
        /\ A[- (l + 1)] = << >>
    BY <1>2, RowsFacts
  <2>4. l + 1 \in Nat /\ l + k \in Nat
    BY <1>2
  <2>5. /\ \A i \in 0 .. N - 1 : B[i] = Get(p.pool, i).kids
        /\ \A j \in 1 .. l + k : B[- j] = q.calls[j].held
        /\ B[- ((l + k) + 1)] = << >>
    <3> DEFINE L == Len(q.calls)
    <3>1. L = l + k /\ L \in Nat
      BY <1>5, <2>4
    <3>2. /\ \A i \in 0 .. N - 1 : B[i] = Get(p.pool, i).kids
          /\ \A j \in 1 .. L : B[- j] = q.calls[j].held
          /\ B[- (L + 1)] = << >>
      <4> DEFINE c == q.calls
      <4>1. Len(c) \in Nat /\ Count(p.pool) \in Nat
        BY <1>2, <3>1
      <4> HIDE DEF c
      <4>2. LET R == Rows(p.pool, c, << >>)
            IN  /\ \A i \in 0 .. Count(p.pool) - 1 : R[i] = Get(p.pool, i).kids
                /\ \A j \in 1 .. Len(c) : R[- j] = c[j].held
                /\ R[- (Len(c) + 1)] = << >>
        BY <4>1, RowsFacts
      <4>3. QED
        BY <4>2 DEF c
    <3> HIDE DEF L, B, l, k, N
    <3>3. QED
      BY <3>1, <3>2
  <2> HIDE DEF A, B, N, l
  <2>6. \A j \in l + 1 .. (l + k) + 1 : B[- j] = << >>
    <3>1. TAKE j \in l + 1 .. (l + k) + 1
    <3>2. j = (l + k) + 1 \/ (j \in l + 1 .. l + k /\ j \in 1 .. l + k)
      BY <1>2
    <3>3. QED
      BY <1>5, <2>5, <3>2
  <2>7. \A i \in - (l + 1) .. N - 1 : B[i] = A[i]
    <3>1. TAKE i \in - (l + 1) .. N - 1
    <3>2. CASE i \in 0 .. N - 1
      BY <2>3, <2>5, <3>2
    <3>3. ASSUME NEW j \in 1 .. l + 1, i = - j PROVE B[i] = A[i]
      <4>1. CASE j = l + 1
        <5>1. j \in l + 1 .. (l + k) + 1
          BY <1>2, <4>1
        <5>2. QED
          BY <2>3, <2>6, <3>3, <4>1, <5>1
      <4>2. CASE j # l + 1
        <5>1. j \in 1 .. l /\ j \in 1 .. l + k
          BY <1>2, <4>2
        <5>2. QED
          BY <1>5, <2>3, <2>5, <3>3, <5>1
      <4>3. QED
        BY <4>1, <4>2
    <3>4. QED
      BY <1>2, <2>4, <3>2, <3>3, Indices
  <2>8. \A i \in - ((l + 1) + k) .. - ((l + 1) + 1) : B[i] = << >>
    <3>1. TAKE i \in - ((l + 1) + k) .. - ((l + 1) + 1)
    <3>2. - i \in l + 1 .. (l + k) + 1 /\ - (- i) = i
      BY <1>2
    <3>3. QED
      BY <2>6, <3>2
  <2>9. QED
    BY <1>2, <2>2, <2>4, <2>7, <2>8, ForestGrows
<1>10. Good(ts, q, << >>)
  <2>1. << >> \in Seq(Null .. N - 1)
    OBVIOUS
  <2>2. Len(q.calls) + 1 = (l + 1) + k
    BY <1>2, <1>5
  <2>3. ~ q.err => Forest(Count(q.pool), Len(q.calls) + 1, Rows(q.pool, q.calls, << >>))
    BY <1>1, <1>9, <2>2
  <2>4. QED
    BY <1>1, <1>8, <2>1, <2>3 DEF Good
<1>11. QED
  BY <1>1, <1>7, <1>10 DEF q

(* A state of the parser with some of its fields changed.                  *)
LEMMA Changed ==
  ASSUME NEW p, IsRec(p), NEW calls, NEW at
  PROVE  /\ [p EXCEPT !.calls = calls, !.at = at]
              = [pos |-> p.pos, pool |-> p.pool, err |-> p.err, node |-> p.node,
                 calls |-> calls, at |-> at]
         /\ [p EXCEPT !.calls = calls]
              = [pos |-> p.pos, pool |-> p.pool, err |-> p.err, node |-> p.node,
                 calls |-> calls, at |-> p.at]
         /\ [p EXCEPT !.at = at]
              = [pos |-> p.pos, pool |-> p.pool, err |-> p.err, node |-> p.node,
                 calls |-> p.calls, at |-> at]
<1>1. [p EXCEPT !.calls = calls, !.at = at]
        = [pos |-> p.pos, pool |-> p.pool, err |-> p.err, node |-> p.node,
           calls |-> calls, at |-> at]
  <2> DEFINE q == [p EXCEPT !.calls = calls, !.at = at]
  <2>1. q = [[p EXCEPT !.calls = calls] EXCEPT !.at = at]
    OBVIOUS
  <2>2. [p EXCEPT !.calls = calls]
          = [pos |-> p.pos, pool |-> p.pool, err |-> p.err, node |-> p.node,
             calls |-> calls, at |-> p.at]
    BY DEF IsRec
  <2>3. [[pos |-> p.pos, pool |-> p.pool, err |-> p.err, node |-> p.node,
           calls |-> calls, at |-> p.at] EXCEPT !.at = at]
          = [pos |-> p.pos, pool |-> p.pool, err |-> p.err, node |-> p.node,
             calls |-> calls, at |-> at]
    OBVIOUS
  <2> HIDE DEF q
  <2>4. q = [pos |-> p.pos, pool |-> p.pool, err |-> p.err, node |-> p.node,
             calls |-> calls, at |-> at]
    BY <2>1, <2>2, <2>3, Zenon
  <2>5. QED
    BY <2>4 DEF q
<1>2. [p EXCEPT !.calls = calls]
        = [pos |-> p.pos, pool |-> p.pool, err |-> p.err, node |-> p.node,
           calls |-> calls, at |-> p.at]
  BY DEF IsRec
<1>3. [p EXCEPT !.at = at]
        = [pos |-> p.pos, pool |-> p.pool, err |-> p.err, node |-> p.node,
           calls |-> p.calls, at |-> at]
  BY DEF IsRec
<1>4. QED
  BY <1>1, <1>2, <1>3

(* The innermost call returns, and leaves what it holds.                   *)
LEMMA GoodReturn ==
  ASSUME NEW ts, NEW p, NEW now, Good(ts, p, now), p.calls # << >>
  PROVE  LET q == Return(p)
         IN  /\ Good(ts, q, Top(p).held \o now)
             /\ q.pos = p.pos /\ q.pool = p.pool /\ q.err = p.err /\ q.node = p.node
             /\ q.at = "return"
             /\ Top(p).fn # "conditional" => q.calls # << >>
             /\ Top(p) \in FrameType /\ FrameOK(ts, Top(p), Count(p.pool))
<1> DEFINE q == Return(p)
           N == Count(p.pool)
           l == Len(p.calls)
           f == Last(p.calls)
           A == Rows(p.pool, p.calls, now)
           B == Rows(p.pool, q.calls, f.held \o now)
<1>1. /\ IsRec(q) /\ q.pos = p.pos /\ q.pool = p.pool /\ q.err = p.err /\ q.node = p.node
      /\ q.calls = Front(p.calls) /\ q.at = "return"
  <2>1. IsRec(p)
    BY DEF Good
  <2>2. q = [pos |-> p.pos, pool |-> p.pool, err |-> p.err, node |-> p.node,
             calls |-> Front(p.calls), at |-> "return"]
    <3>1. q = [p EXCEPT !.calls = Front(p.calls), !.at = "return"]
      BY DEF Return
    <3> HIDE DEF q
    <3>2. QED
      BY ONLY <2>1, <3>1, Changed, ZenonT(60)
  <2> HIDE DEF q
  <2>3. QED
    BY <2>2 DEF IsRec
<1>2. N \in Nat
  BY GoodCounts
<1> HIDE DEF q
<1>3. /\ f \in FrameType /\ FrameOK(ts, f, N)
      /\ CallsOK(ts, q.calls, N) /\ l \in Nat \ {0} /\ Len(q.calls) = l - 1
      /\ \A j \in 1 .. l - 1 : q.calls[j] = p.calls[j]
      /\ f = p.calls[l]
      /\ f.fn # "conditional" => q.calls # << >>
  BY <1>1, <1>2, CallsPop DEF Good
<1> HIDE DEF f
<1>4. ~ p.err => Forest(N, l, B)
  <2>1. HAVE ~ p.err
  <2>2. Forest(N, l + 1, A)
    BY <2>1 DEF Good
  <2>3. l \in Nat /\ l > 0 /\ l - 1 \in Nat
    BY <1>3
  <2>4. /\ \A i \in 0 .. N - 1 : A[i] = Get(p.pool, i).kids
        /\ \A j \in 1 .. l : A[- j] = p.calls[j].held
        /\ A[- (l + 1)] = now
    BY <1>2, <2>3, RowsFacts
  <2>5. /\ \A i \in 0 .. N - 1 : B[i] = Get(p.pool, i).kids
        /\ \A j \in 1 .. l - 1 : B[- j] = q.calls[j].held
        /\ B[- l] = f.held \o now
    <3> DEFINE c == q.calls
               L == Len(c)
               kept == f.held \o now
    <3>1. L = l - 1 /\ L \in Nat
      BY <1>3, <2>3
    <3> HIDE DEF L, c, l, kept
    <3>2. LET R == Rows(p.pool, c, kept)
          IN  /\ \A i \in 0 .. Count(p.pool) - 1 : R[i] = Get(p.pool, i).kids
              /\ \A j \in 1 .. Len(c) : R[- j] = c[j].held
              /\ R[- (Len(c) + 1)] = kept
      BY <1>2, <3>1, RowsFacts DEF L
    <3>3. - (L + 1) = - l
      BY <2>3, <3>1
    <3>4. QED
      BY <3>1, <3>2, <3>3 DEF c, L, kept
  <2> HIDE DEF A, B, N, l
  <2>6. \A i \in - l .. N - 1 : i # - l => B[i] = A[i]
    <3>1. TAKE i \in - l .. N - 1
    <3>2. HAVE i # - l
    <3>3. CASE i \in 0 .. N - 1
      BY <2>4, <2>5, <3>3
    <3>4. ASSUME NEW j \in 1 .. l, i = - j PROVE B[i] = A[i]
      <4>1. j \in 1 .. l - 1
        BY <2>3, <3>2, <3>4
      <4>2. QED
        BY <1>3, <2>4, <2>5, <3>4, <4>1
    <3>5. QED
      BY <1>2, <2>3, <3>3, <3>4, Indices
  <2>7. B[- l] = A[- l] \o A[- (l + 1)]
    <3>1. l \in 1 .. l
      BY <2>3
    <3>2. QED
      BY <1>3, <2>4, <2>5, <3>1
  <2>8. QED
    BY <1>2, <2>2, <2>3, <2>6, <2>7, ForestMerges
<1>5. Good(ts, q, f.held \o now)
  <2>1. f.held \o now \in Seq(Null .. N - 1)
    <3>1. f.held \in Seq(Null .. N - 1) /\ now \in Seq(Null .. N - 1)
      BY <1>3 DEF Good, FrameOK
    <3> DEFINE S == Null .. N - 1
    <3> HIDE DEF S
    <3>2. QED
      BY <3>1, ConcatProperties DEF S
  <2>2. Len(q.calls) + 1 = l
    BY <1>3
  <2>3. ~ q.err => Forest(Count(q.pool), Len(q.calls) + 1, Rows(q.pool, q.calls, f.held \o now))
    BY <1>1, <1>4, <2>2
  <2>4. QED
    BY <1>1, <1>3, <2>1, <2>3 DEF Good
<1>6. QED
  BY <1>1, <1>3, <1>5 DEF Top, q, f

(* What has been parsed becomes a node.                                    *)
LEMMA GoodMake ==
  ASSUME NEW ts, NEW p, NEW node, Good(ts, p, node.kids), Shaped(node)
  PROVE  LET q == Make(p, node)
         IN  /\ Good(ts, q, <<q.node>>)
             /\ q.pos = p.pos /\ q.err = p.err /\ q.calls = p.calls /\ q.at = p.at
<1> DEFINE q == Make(p, node)
           N == Count(p.pool)
           l == Len(p.calls)
           new == NewNode(p.pool, node)
           A == Rows(p.pool, p.calls, node.kids)
           B == Rows(new, p.calls, <<N>>)
<1>1. /\ IsRec(q) /\ q.pos = p.pos /\ q.pool = new /\ q.err = p.err /\ q.node = N
      /\ q.calls = p.calls /\ q.at = p.at
  <2>1. IsRec(p)
    BY DEF Good
  <2>2. q = [pos |-> p.pos, pool |-> new, err |-> p.err, node |-> N,
             calls |-> p.calls, at |-> p.at]
    <3> HIDE DEF new
    <3>1. q = [p EXCEPT !.pool = new, !.node = N]
      BY DEF Make, new
    <3>2. QED
      BY <2>1, <3>1 DEF IsRec
  <2> HIDE DEF q, new, N
  <2>3. QED
    BY <2>2 DEF IsRec
<1>2. N \in Nat /\ l \in Nat
  BY GoodCounts
<1>3. /\ PoolOK(new) /\ Count(new) = N + 1 /\ Get(new, N) = node
      /\ \A n \in 0 .. N - 1 : Get(new, n) = Get(p.pool, n)
  BY NewNodeFacts DEF Good
<1> HIDE DEF q, new
<1>4. ~ p.err => Forest(N + 1, l + 1, B)
  <2>1. HAVE ~ p.err
  <2>2. Forest(N, l + 1, A)
    BY <2>1 DEF Good
  <2>3. /\ \A i \in 0 .. N - 1 : A[i] = Get(p.pool, i).kids
        /\ \A j \in 1 .. l : A[- j] = p.calls[j].held
        /\ A[- (l + 1)] = node.kids
    BY <1>2, RowsFacts
  <2>4. /\ \A i \in 0 .. N : B[i] = Get(new, i).kids
        /\ \A j \in 1 .. l : B[- j] = p.calls[j].held
        /\ B[- (l + 1)] = <<N>>
    <3>1. Count(new) \in Nat /\ (N + 1) - 1 = N
      BY <1>2, <1>3
    <3> DEFINE c == p.calls
               one == <<N>>
    <3> HIDE DEF c, N, one
    <3>2. Len(c) \in Nat
      BY <1>2 DEF c
    <3>3. LET R == Rows(new, c, one)
          IN  /\ \A i \in 0 .. Count(new) - 1 : R[i] = Get(new, i).kids
              /\ \A j \in 1 .. Len(c) : R[- j] = c[j].held
              /\ R[- (Len(c) + 1)] = one
      BY <3>1, <3>2, RowsFacts
    <3>4. QED
      BY <1>3, <3>1, <3>3 DEF c, one
  <2> HIDE DEF A, B, N, l
  <2>5. l + 1 \in Nat /\ l + 1 > 0 /\ N \in 0 .. N
    BY <1>2
  <2>6. \A i \in - (l + 1) .. N - 1 : i # - (l + 1) => B[i] = A[i]
    <3>1. TAKE i \in - (l + 1) .. N - 1
    <3>2. HAVE i # - (l + 1)
    <3>3. CASE i \in 0 .. N - 1
      <4>1. i \in 0 .. N
        BY <1>2, <3>3
      <4>2. QED
        BY <1>3, <2>3, <2>4, <3>3, <4>1
    <3>4. ASSUME NEW j \in 1 .. l + 1, i = - j PROVE B[i] = A[i]
      <4>1. j \in 1 .. l
        BY <1>2, <3>2, <3>4
      <4>2. QED
        BY <2>3, <2>4, <3>4, <4>1
    <3>5. QED
      BY <1>2, <2>5, <3>3, <3>4, Indices
  <2>7. B[N] = A[- (l + 1)]
    BY <1>3, <2>3, <2>4, <2>5
  <2>8. QED
    BY <1>2, <2>2, <2>4, <2>5, <2>6, <2>7, ForestTakes
<1>5. Good(ts, q, <<N>>)
  <2>1. N \in Null .. (N + 1) - 1
    BY <1>2 DEF Null
  <2>2. <<N>> \in Seq(Null .. (N + 1) - 1)
    <3> DEFINE S == Null .. (N + 1) - 1
    <3>1. N \in S
      BY <2>1
    <3> HIDE DEF S, N
    <3>2. <<N>> \in Seq(S)
      BY <3>1
    <3>3. QED
      BY <3>2 DEF S
  <2>3. CallsOK(ts, p.calls, N + 1)
    BY <1>2, CallsStay DEF Good
  <2>4. ~ q.err => Forest(Count(q.pool), Len(q.calls) + 1, Rows(q.pool, q.calls, <<N>>))
    BY <1>1, <1>3, <1>4
  <2>5. PoolOK(q.pool) /\ Count(q.pool) = N + 1
    BY <1>1, <1>3
  <2> HIDE DEF N
  <2>6. QED
    BY <1>1, <2>1, <2>2, <2>3, <2>4, <2>5 DEF Good
<1>6. QED
  BY <1>1, <1>5 DEF q

(* What the innermost call holds changes with what has been parsed.        *)
Waits(ts, p, fn) == Good(ts, p, << >>) /\ p.calls # << >> /\ Top(p).fn = fn

LEMMA GoodHold ==
  ASSUME NEW ts, NEW p, NEW now, Good(ts, p, now), p.calls # << >>, NEW held,
         held = Top(p).held \o now,
         NEW g \in FrameType, FrameOK(ts, g, Count(p.pool)), g.held = held,
         g.fn = Top(p).fn, g.level = Top(p).level, g.tok = Top(p).tok
  PROVE  Waits(ts, Hold(p, held), Top(p).fn)
<1> DEFINE q == Hold(p, held)
           r == Return(p)
           f == Top(p)
           s == Call(r, g)
<1>1. /\ Good(ts, r, held) /\ r.pool = p.pool /\ r.pos = p.pos /\ r.err = p.err /\ r.node = p.node
      /\ f \in FrameType /\ (f.fn # "conditional" => r.calls # << >>)
  <2>1. Good(ts, r, f.held \o now)
        /\ r.pos = p.pos /\ r.pool = p.pool /\ r.err = p.err /\ r.node = p.node
        /\ (f.fn # "conditional" => r.calls # << >>) /\ f \in FrameType
    BY GoodReturn
  <2> HIDE DEF r, f
  <2>2. held = f.held \o now
    BY DEF f
  <2>3. QED
    BY <2>1, <2>2
<1>2. /\ Front(p.calls) \in Seq(FrameType) /\ p.calls \in Seq(FrameType)
      /\ Len(p.calls) \in Nat \ {0} /\ Len(Front(p.calls)) = Len(p.calls) - 1
      /\ \A i \in 1 .. Len(p.calls) - 1 : Front(p.calls)[i] = p.calls[i]
      /\ f = p.calls[Len(p.calls)]
  <2>1. p.calls \in Seq(FrameType)
    BY DEF Good, CallsOK
  <2>2. QED
    BY <2>1, FrontFacts DEF Top
<1>3. held \in Seq(Int)
  <2>1. held \in Seq(Null .. Count(r.pool) - 1)
    BY <1>1 DEF Good
  <2>2. Null .. Count(r.pool) - 1 \subseteq Int
    BY DEF Null
  <2>3. QED
    BY <2>1, <2>2, SeqMonotonic
<1>4. g \in FrameType /\ g.held = held /\ g.fn = f.fn
  BY <1>1, <1>3 DEF FrameType
<1>5. /\ Good(ts, s, << >>) /\ s.calls # << >> /\ Top(s) = g /\ s.pos = p.pos
  <2>1. Good(ts, r, g.held)
    BY <1>1, <1>4
  <2>2. FrameOK(ts, g, Count(r.pool))
    BY <1>1
  <2>3. r.calls = << >> => g.fn = "conditional"
    BY <1>1, <1>4
  <2>4. g \in FrameType /\ r.pos = p.pos
    BY <1>1
  <2> HIDE DEF r, s
  <2>5. Good(ts, Call(r, g), << >>) /\ Call(r, g).calls # << >> /\ Top(Call(r, g)) = g
        /\ Call(r, g).pos = r.pos
    BY ONLY <2>1, <2>2, <2>3, <2>4, GoodCall, ZenonT(60)
  <2>6. QED
    BY ONLY <2>4, <2>5, Zenon DEF s
<1>6. q = [s EXCEPT !.at = p.at]
  <2>1. IsRec(p)
    BY DEF Good
  <2>2. Append(Front(p.calls), g) = [p.calls EXCEPT ![Len(p.calls)].held = held]
    <3> DEFINE c == p.calls
               n == Len(c)
               b == Front(c)
               t == [c EXCEPT ![n].held = held]
               u == Append(b, g)
    <3> HIDE DEF FrameType
    <3>1. n \in Nat \ {0} /\ n \in 1 .. n /\ c \in Seq(FrameType) /\ b \in Seq(FrameType)
          /\ Len(b) = n - 1 /\ f = c[n]
      BY <1>2
    <3>2. t = [c EXCEPT ![n] = g]
      <4>1. [f EXCEPT !.held = held] = g
        BY <1>1 DEF FrameType
      <4>2. QED
        BY <3>1, <4>1
    <3> HIDE DEF t, n, b, u
    <3>3. t \in Seq(FrameType) /\ Len(t) = n /\ \A j \in 1 .. n : t[j] = IF j = n THEN g ELSE c[j]
      BY <1>4, <3>1, <3>2, ExceptSeq DEF n
    <3>4. u \in Seq(FrameType) /\ Len(u) = n /\ u[n] = g /\ \A j \in 1 .. n - 1 : u[j] = b[j]
      BY <1>4, <3>1 DEF u
    <3>5. \A j \in 1 .. n : u[j] = t[j]
      <4>1. TAKE j \in 1 .. n
      <4>2. CASE j = n
        BY <3>3, <3>4, <4>2
      <4>3. CASE j # n
        <5>1. j \in 1 .. n - 1
          BY <3>1, <4>3
        <5>2. b[j] = c[j]
          BY <1>2, <5>1 DEF n, b
        <5>3. QED
          BY <3>3, <3>4, <4>3, <5>1, <5>2
      <4>4. QED
        BY <4>2, <4>3
    <3>6. u = t
      BY <3>3, <3>4, <3>5, SeqEqual
    <3>7. QED
      BY <3>6 DEF u, t, b, n
  <2>3. q = [pos |-> p.pos, pool |-> p.pool, err |-> p.err, node |-> p.node,
             calls |-> Append(Front(p.calls), g), at |-> p.at]
    <3>1. q = [pos |-> p.pos, pool |-> p.pool, err |-> p.err, node |-> p.node,
               calls |-> [p.calls EXCEPT ![Len(p.calls)].held = held], at |-> p.at]
      <4>1. q = [p EXCEPT !.calls = [p.calls EXCEPT ![Len(p.calls)].held = held]]
        BY DEF Hold
      <4>2. QED
        BY <2>1, <4>1, Changed
    <3>2. QED
      BY <2>2, <3>1
  <2>4. r = [pos |-> p.pos, pool |-> p.pool, err |-> p.err, node |-> p.node,
             calls |-> Front(p.calls), at |-> "return"]
    <3>1. r = [p EXCEPT !.calls = Front(p.calls), !.at = "return"]
      BY DEF Return
    <3>2. QED
      BY <2>1, <3>1, Changed
  <2> HIDE DEF r, q
  <2>5. s = [pos |-> p.pos, pool |-> p.pool, err |-> p.err, node |-> p.node,
             calls |-> Append(Front(p.calls), g), at |-> "return"]
    <3>1. IsRec(r) /\ r.calls = Front(p.calls) /\ r.pos = p.pos /\ r.pool = p.pool
          /\ r.err = p.err /\ r.node = p.node /\ r.at = "return"
      BY <2>4 DEF IsRec
    <3>2. s = [r EXCEPT !.calls = Append(r.calls, g)]
      BY DEF Call
    <3> DEFINE c == Append(r.calls, g)
    <3>3. s = [pos |-> r.pos, pool |-> r.pool, err |-> r.err, node |-> r.node,
               calls |-> c, at |-> r.at]
      <4> HIDE DEF c
      <4>1. [r EXCEPT !.calls = c]
              = [pos |-> r.pos, pool |-> r.pool, err |-> r.err, node |-> r.node,
                 calls |-> c, at |-> r.at]
        BY ONLY <3>1, Changed, Zenon
      <4>2. QED
        BY ONLY <3>2, <4>1, Zenon DEF c
    <3>4. c = Append(Front(p.calls), g)
      BY ONLY <3>1, Zenon
    <3> HIDE DEF c
    <3>5. QED
      BY ONLY <3>1, <3>3, <3>4, Zenon
  <2> HIDE DEF s
  <2> DEFINE c == Append(Front(p.calls), g)
  <2> HIDE DEF c
  <2>6. IsRec(s) /\ s.pos = p.pos /\ s.pool = p.pool /\ s.err = p.err /\ s.node = p.node
        /\ s.calls = c
    BY <2>5 DEF IsRec, c
  <2>7. [s EXCEPT !.at = p.at]
          = [pos |-> s.pos, pool |-> s.pool, err |-> s.err, node |-> s.node,
             calls |-> s.calls, at |-> p.at]
    BY <2>6, Changed
  <2>8. QED
    BY <2>3, <2>6, <2>7 DEF c
<1> HIDE DEF s, q
<1>7. Good(ts, q, << >>)
  BY <1>5, <1>6, GoodAt
<1>8. q.calls = s.calls /\ q.pos = p.pos /\ q.at = p.at
  <2>1. IsRec(s)
    BY <1>5 DEF Good
  <2>2. QED
    BY <1>5, <1>6, <2>1 DEF IsRec
<1>9. QED
  BY <1>5, <1>7, <1>8 DEF Top, Waits, q

(* A token is consumed only when its type has been looked at, so that the  *)
(* one of no use behind all the others never is.                           *)
LEMMA GoodConsume ==
  ASSUME NEW ts, NEW p, NEW now, Good(ts, p, now), NEW types, At(ts, p, types),
         "INVALID" \notin types, "none" \notin types
  PROVE  LET q == Consume(p)
         IN  /\ Good(ts, q, now) /\ p.pos \in Nat /\ ts[p.pos].type \in types
             /\ q.pos = p.pos + 1 /\ q.pool = p.pool /\ q.err = p.err /\ q.node = p.node
             /\ q.calls = p.calls /\ q.at = p.at
<1> DEFINE q == Consume(p)
<1>1. /\ IsRec(q) /\ q.pos = p.pos + 1 /\ q.pool = p.pool /\ q.err = p.err /\ q.node = p.node
      /\ q.calls = p.calls /\ q.at = p.at
  <2>1. IsRec(p)
    BY DEF Good
  <2>2. q = [pos |-> p.pos + 1, pool |-> p.pool, err |-> p.err, node |-> p.node,
             calls |-> p.calls, at |-> p.at]
    BY <2>1 DEF IsRec, Consume
  <2> HIDE DEF q
  <2>3. QED
    BY <2>2 DEF IsRec
<1> HIDE DEF q
<1>2. Len(ts) \in Nat /\ p.pos \in 1 .. Len(ts) + 1
  BY GoodCounts DEF Good
<1>3. ~(p.pos > Len(ts)) /\ ts[p.pos].type \in types
  BY DEF At, Type
<1>4. q.pos \in 1 .. Len(ts) + 1
  BY <1>1, <1>2, <1>3
<1>5. Closed(ts) => q.pos <= Len(ts)
  <2>1. HAVE Closed(ts)
  <2>2. p.pos # Len(ts)
    BY <1>3, <2>1 DEF Closed
  <2>3. QED
    BY <1>1, <1>2, <1>3, <2>2
<1>6. Good(ts, q, now)
  BY <1>1, <1>4, <1>5 DEF Good
<1>7. QED
  BY <1>1, <1>2, <1>3, <1>6 DEF q

LEMMA NullFacts ==
  ASSUME NEW N \in Nat
  PROVE  Null \in Null .. N - 1 /\ <<Null>> \in Seq(Null .. N - 1) /\ << >> \in Seq(Null .. N - 1)
<1> DEFINE S == Null .. N - 1
<1>1. Null \in S
  BY DEF Null
<1> HIDE DEF S
<1>2. <<Null>> \in Seq(S) /\ << >> \in Seq(S)
  BY <1>1
<1>3. QED
  BY <1>1, <1>2 DEF S

(* What was parsed is forgotten, which is an error.                        *)
LEMMA GoodBadToken ==
  ASSUME NEW ts, NEW p, NEW now, Good(ts, p, now)
  PROVE  LET q == BadToken(p)
         IN  /\ Good(ts, q, <<Null>>) /\ q.node = Null /\ q.err
             /\ q.pos = p.pos /\ q.calls = p.calls /\ q.at = p.at
<1> DEFINE q == BadToken(p)
<1>1. /\ IsRec(q) /\ q.pos = p.pos /\ q.pool = p.pool /\ q.err = TRUE /\ q.node = Null
      /\ q.calls = p.calls /\ q.at = p.at
  <2>1. IsRec(p)
    BY DEF Good
  <2>2. q = [pos |-> p.pos, pool |-> p.pool, err |-> TRUE, node |-> Null,
             calls |-> p.calls, at |-> p.at]
    <3> DEFINE r == [p EXCEPT !.node = Null]
    <3>1. q = [r EXCEPT !.err = TRUE]
      BY DEF BadToken
    <3>2. r = [pos |-> p.pos, pool |-> p.pool, err |-> p.err, node |-> Null,
               calls |-> p.calls, at |-> p.at]
      BY <2>1 DEF IsRec
    <3> HIDE DEF r, q
    <3>3. [[pos |-> p.pos, pool |-> p.pool, err |-> p.err, node |-> Null,
            calls |-> p.calls, at |-> p.at] EXCEPT !.err = TRUE]
            = [pos |-> p.pos, pool |-> p.pool, err |-> TRUE, node |-> Null,
               calls |-> p.calls, at |-> p.at]
      <4>1. ASSUME NEW e
            PROVE  [[pos |-> p.pos, pool |-> p.pool, err |-> p.err, node |-> Null,
                     calls |-> p.calls, at |-> p.at] EXCEPT !.err = e]
                     = [pos |-> p.pos, pool |-> p.pool, err |-> e, node |-> Null,
                        calls |-> p.calls, at |-> p.at]
        OBVIOUS
      <4>2. QED
        BY <4>1, Zenon
    <3>4. QED
      BY <3>1, <3>2, <3>3, Zenon
  <2> HIDE DEF q
  <2>3. QED
    BY <2>2 DEF IsRec
<1> HIDE DEF q
<1>2. Null \in Null .. Count(p.pool) - 1 /\ <<Null>> \in Seq(Null .. Count(p.pool) - 1)
  BY GoodCounts, NullFacts
<1>3. Good(ts, q, <<Null>>)
  BY <1>1, <1>2 DEF Good
<1>4. QED
  BY <1>1, <1>3 DEF q

(* There is nothing to parse, or there was an error.                       *)
LEMMA GoodNothing ==
  ASSUME NEW ts, NEW p, NEW now, Good(ts, p, now), now = << >> \/ p.err
  PROVE  LET q == Nothing(p)
         IN  /\ Good(ts, q, <<Null>>) /\ q.node = Null /\ q.err = p.err
             /\ q.pos = p.pos /\ q.calls = p.calls /\ q.at = p.at
<1> DEFINE q == Nothing(p)
           N == Count(p.pool)
           l == Len(p.calls)
           A == Rows(p.pool, p.calls, now)
           B == Rows(p.pool, p.calls, <<Null>>)
<1>1. /\ IsRec(q) /\ q.pos = p.pos /\ q.pool = p.pool /\ q.err = p.err /\ q.node = Null
      /\ q.calls = p.calls /\ q.at = p.at
  <2>1. IsRec(p)
    BY DEF Good
  <2>2. q = [pos |-> p.pos, pool |-> p.pool, err |-> p.err, node |-> Null,
             calls |-> p.calls, at |-> p.at]
    BY <2>1 DEF IsRec, Nothing
  <2> HIDE DEF q
  <2>3. QED
    BY <2>2 DEF IsRec
<1> HIDE DEF q
<1>2. N \in Nat /\ l \in Nat
  BY GoodCounts
<1>3. Null \in Null .. N - 1 /\ <<Null>> \in Seq(Null .. N - 1)
  BY <1>2, NullFacts
<1>4. ~ p.err => Forest(N, l + 1, B)
  <2>1. HAVE ~ p.err
  <2>2. Forest(N, l + 1, A) /\ now = << >>
    BY <2>1 DEF Good
  <2>3. /\ \A i \in 0 .. N - 1 : A[i] = Get(p.pool, i).kids
        /\ \A j \in 1 .. l : A[- j] = p.calls[j].held
        /\ A[- (l + 1)] = now
    BY <1>2, RowsFacts
  <2>4. /\ \A i \in 0 .. N - 1 : B[i] = Get(p.pool, i).kids
        /\ \A j \in 1 .. l : B[- j] = p.calls[j].held
        /\ B[- (l + 1)] = <<Null>>
    BY <1>2, RowsFacts
  <2> HIDE DEF A, B, N, l
  <2>5. l + 1 \in Nat /\ l + 1 > 0
    BY <1>2
  <2>6. \A i \in - (l + 1) .. N - 1 : i # - (l + 1) => B[i] = A[i]
    <3>1. TAKE i \in - (l + 1) .. N - 1
    <3>2. HAVE i # - (l + 1)
    <3>3. CASE i \in 0 .. N - 1
      BY <2>3, <2>4, <3>3
    <3>4. ASSUME NEW j \in 1 .. l + 1, i = - j PROVE B[i] = A[i]
      <4>1. j \in 1 .. l
        BY <1>2, <3>2, <3>4
      <4>2. QED
        BY <2>3, <2>4, <3>4, <4>1
    <3>5. QED
      BY <1>2, <2>5, <3>3, <3>4, Indices
  <2>7. QED
    BY <1>2, <2>2, <2>3, <2>4, <2>5, <2>6, ForestMisses
<1>5. Good(ts, q, <<Null>>)
  BY <1>1, <1>3, <1>4 DEF Good
<1>6. QED
  BY <1>1, <1>5 DEF q

(* A whole expression, for which there is a call that waits, or none.      *)
LEMMA GoodCallExpr ==
  ASSUME NEW ts, NEW p, Good(ts, p, << >>)
  PROVE  LET q == CallExpr(p)
         IN  Good(ts, q, << >>) /\ q.calls # << >> /\ q.at = "operand"
<1> DEFINE f == Frame("conditional", 0, 0, << >>)
           r == Call(p, f)
<1>1. f \in FrameType /\ f.held = << >> /\ f.fn = "conditional"
  <2>1. f = [fn |-> "conditional", level |-> 0, tok |-> 0, held |-> << >>]
    BY DEF Frame
  <2>2. "conditional" \in Functions /\ 0 \in Nat /\ 0 \in 0 .. 9 /\ << >> \in Seq(Int)
    BY DEF Functions
  <2> HIDE DEF f
  <2>3. QED
    BY <2>1, <2>2 DEF FrameType
<1> HIDE DEF f
<1>2. FrameOK(ts, f, Count(p.pool))
  <2>1. << >> \in Seq(Null .. Count(p.pool) - 1) /\ Len(<< >>) = 0
    BY GoodCounts, NullFacts, EmptyFacts
  <2>2. QED
    BY <1>1, <2>1 DEF FrameOK
<1>3. Good(ts, r, << >>) /\ r.calls # << >>
  BY <1>1, <1>2, GoodCall
<1> HIDE DEF r
<1>4. 1 \in 1 .. 10
  OBVIOUS
<1>5. QED
  BY <1>3, <1>4, GoodCallLevels DEF CallExpr, r, f

-----------------------------------------------------------------------------
(* The states of the parser: an operand or an argument is asked for, or    *)
(* something is parsed.  A root of an expression with an error is missing. *)
State(ts, p) ==
  \/ p.at = "operand" /\ Good(ts, p, << >>) /\ p.calls # << >>
  \/ p.at = "arguments" /\ Good(ts, p, << >>) /\ p.calls # << >> /\ Top(p).fn = "call"
  \/ /\ p.at = "return" /\ Good(ts, p, <<p.node>>)
     /\ p.calls = << >> /\ p.err => p.node = Null

LEMMA FrameFacts ==
  ASSUME NEW N \in Nat, NEW fn \in Functions, NEW level \in 0 .. 9, NEW tok \in Nat,
         NEW held \in Seq(Null .. N - 1)
  PROVE  LET f == Frame(fn, level, tok, held)
         IN  f \in FrameType /\ f.fn = fn /\ f.level = level /\ f.tok = tok /\ f.held = held
<1> DEFINE f == Frame(fn, level, tok, held)
<1>1. f = [fn |-> fn, level |-> level, tok |-> tok, held |-> held]
  BY DEF Frame
<1>2. held \in Seq(Int)
  <2>1. Null .. N - 1 \subseteq Int
    BY DEF Null
  <2>2. QED
    BY <2>1, SeqMonotonic
<1> HIDE DEF f
<1>3. f \in FrameType /\ f.fn = fn /\ f.level = level /\ f.tok = tok /\ f.held = held
  BY <1>1, <1>2 DEF FrameType
<1>4. QED
  BY <1>3 DEF f

(* A call that holds nothing yet.                                          *)
LEMMA CallFacts ==
  ASSUME NEW ts, NEW p, Good(ts, p, << >>), p.calls # << >>,
         NEW fn \in Functions \ {"conditional", "binary"}, NEW tok \in Nat,
         fn = "sign" => ts[tok].type \in Sign
  PROVE  LET q == Call(p, Frame(fn, 0, tok, << >>))
         IN  /\ Good(ts, q, << >>) /\ q.calls # << >> /\ Top(q).fn = fn
             /\ q.pos = p.pos /\ q.at = p.at
<1> DEFINE f == Frame(fn, 0, tok, << >>)
<1>1. << >> \in Seq(Null .. Count(p.pool) - 1) /\ Len(<< >>) = 0 /\ Count(p.pool) \in Nat
  BY GoodCounts, NullFacts, EmptyFacts
<1>2. f \in FrameType /\ f.fn = fn /\ f.tok = tok /\ f.held = << >>
  <2>1. 0 \in 0 .. 9 /\ fn \in Functions
    OBVIOUS
  <2> DEFINE N == Count(p.pool)
             none == << >>
  <2>2. N \in Nat /\ none \in Seq(Null .. N - 1)
    BY <1>1
  <2> HIDE DEF N, none
  <2>3. LET g == Frame(fn, 0, tok, none)
        IN  g \in FrameType /\ g.fn = fn /\ g.level = 0 /\ g.tok = tok /\ g.held = none
    BY <2>1, <2>2, FrameFacts
  <2>4. QED
    BY <2>3 DEF none
<1> HIDE DEF f
<1>3. FrameOK(ts, f, Count(p.pool))
  BY <1>1, <1>2 DEF FrameOK
<1>4. QED
  BY <1>2, <1>3, GoodCall DEF f

LEMMA FunctionNames ==
  {"sign", "postfix", "bracket", "call"} \subseteq Functions \ {"conditional", "binary"}
  BY DEF Functions

LEMMA OneMore ==
  ASSUME NEW S, NEW s \in Seq(S), NEW e \in S
  PROVE  s \o <<e>> = Append(s, e) /\ Len(Append(s, e)) = Len(s) + 1
         /\ Append(s, e) \in Seq(S) /\ Append(s, e) # << >>
<1>1. Append(s, e) \in Seq(S) /\ Len(Append(s, e)) = Len(s) + 1 /\ Len(s) \in Nat
  OBVIOUS
<1>2. s \o <<e>> = Append(s, e)
  OBVIOUS
<1>3. QED
  BY <1>1, <1>2, EmptyFacts

(* A call has what it held and what has been parsed.                       *)
LEMMA HeldFacts ==
  ASSUME NEW ts, NEW p, Good(ts, p, <<p.node>>), p.calls # << >>
  PROVE  /\ Top(p) \in FrameType /\ FrameOK(ts, Top(p), Count(p.pool))
         /\ Top(p).held \o <<p.node>> = Held(p) /\ Len(Held(p)) = Len(Top(p).held) + 1
         /\ Held(p) \in Seq(Null .. Count(p.pool) - 1) /\ Held(p) # << >>
         /\ Len(Top(p).held) \in Nat
<1> DEFINE S == Null .. Count(p.pool) - 1
           s == Top(p).held
<1>1. Top(p) \in FrameType /\ FrameOK(ts, Top(p), Count(p.pool))
  BY GoodReturn
<1>2. s \in Seq(S) /\ p.node \in S
  BY <1>1 DEF Good, FrameOK
<1> HIDE DEF S, s
<1>3. /\ s \o <<p.node>> = Append(s, p.node) /\ Len(Append(s, p.node)) = Len(s) + 1
      /\ Append(s, p.node) \in Seq(S) /\ Append(s, p.node) # << >> /\ Len(s) \in Nat
  BY <1>2, OneMore
<1>4. QED
  BY <1>1, <1>3 DEF Held, S, s

-----------------------------------------------------------------------------
(* The functions of the parser.                                            *)
LEMMA StartStep ==
  ASSUME NEW ts, IsSeq(ts)
  PROVE  State(ts, Start)
<1> DEFINE p == [pos |-> 1, pool |-> EmptyPool, err |-> FALSE, node |-> Null,
                 calls |-> << >>, at |-> "operand"]
<1>1. /\ IsRec(p) /\ p.pos = 1 /\ p.pool = EmptyPool /\ p.err = FALSE /\ p.node = Null
      /\ p.calls = << >>
  BY DEF IsRec
<1> HIDE DEF p
<1>2. /\ EmptyPool.buf = << >> /\ EmptyPool.ex = << >> /\ Count(EmptyPool) = 0
      /\ PoolOK(EmptyPool)
  <2>1. EmptyPool.buf = << >> /\ EmptyPool.ex = << >>
        /\ EmptyPool = [buf |-> EmptyPool.buf, ex |-> EmptyPool.ex]
    BY DEF EmptyPool
  <2>2. Count(EmptyPool) = 0
    BY <2>1, EmptyFacts DEF Count
  <2>3. QED
    BY <2>1, <2>2, EmptyFacts, BufAssumption DEF PoolOK
<1>3. << >> \in Seq(Null .. 0 - 1) /\ Null \in Null .. 0 - 1
  BY NullFacts
<1>4. CallsOK(ts, << >>, 0)
  <2>1. << >> \in Seq(FrameType) /\ Len(<< >>) = 0
    BY EmptySeq
  <2>2. QED
    BY <2>1 DEF CallsOK
<1>5. Len(ts) \in Nat
  BY SeqFacts
<1>6. 1 \in 1 .. Len(ts) + 1 /\ (Closed(ts) => 1 <= Len(ts))
  BY <1>5 DEF Closed
<1>7. Forest(0, 0 + 1, Rows(EmptyPool, << >>, << >>))
  <2> DEFINE A == Rows(EmptyPool, << >>, << >>)
  <2>1. A[- 1] = << >>
    BY <1>2, EmptyFacts, RowsFacts
  <2> HIDE DEF A
  <2>2. \A i \in - (0 + 1) .. 0 - 1 : A[i] = << >>
    BY <2>1
  <2>3. DOMAIN << >> = {}
    OBVIOUS
  <2>4. \A i \in 0 .. 0 - 1 : FALSE
    OBVIOUS
  <2>5. QED
    BY <1>3, <2>2, <2>3, <2>4 DEF Forest, A
<1>8. Good(ts, p, << >>)
  BY <1>1, <1>2, <1>3, <1>4, <1>6, <1>7, EmptyFacts DEF Good
<1>9. QED
  BY <1>8, GoodCallExpr DEF Start, State, p

LEMMA SignStep ==
  ASSUME NEW ts, NEW p, State(ts, p), p.at = "operand", At(ts, p, Sign)
  PROVE  State(ts, CallSign(p))
<1> DEFINE q == Consume(p)
<1>1. Good(ts, p, << >>) /\ p.calls # << >>
  BY DEF State
<1>2. "INVALID" \notin Sign /\ "none" \notin Sign
  BY DEF Sign
<1>3. /\ Good(ts, q, << >>) /\ p.pos \in Nat /\ ts[p.pos].type \in Sign
      /\ q.calls # << >> /\ q.at = "operand"
  BY <1>1, <1>2, GoodConsume
<1>4. "sign" \in Functions \ {"conditional", "binary"}
  BY FunctionNames
<1> HIDE DEF q
<1>5. QED
  BY <1>3, <1>4, CallFacts DEF CallSign, State, q

LEMMA LeafFacts ==
  ASSUME NEW op, NEW kids, NEW val, NEW sym
  PROVE  /\ Leaf(op, kids, val, sym).op = op /\ Leaf(op, kids, val, sym).kids = kids
         /\ Node(op, kids).op = op /\ Node(op, kids).kids = kids
  BY DEF Leaf, Node

(* Back at a call.                                                         *)
LEMMA BackStep ==
  ASSUME NEW ts, NEW p, Good(ts, p, <<p.node>>), p.calls # << >>
  PROVE  State(ts, Back(p))
<1> DEFINE q == Back(p)
<1>1. Good(ts, q, <<p.node>>)
  BY GoodAt DEF Back
<1>2. q.at = "return" /\ q.calls = p.calls /\ q.node = p.node
  <2>1. IsRec(p)
    BY DEF Good
  <2>2. q = [pos |-> p.pos, pool |-> p.pool, err |-> p.err, node |-> p.node,
             calls |-> p.calls, at |-> "return"]
    BY <2>1, Changed DEF Back
  <2> HIDE DEF q
  <2>3. QED
    BY <2>2
<1> HIDE DEF q
<1>3. QED
  BY <1>1, <1>2 DEF State, q

LEMMA PrimStep ==
  ASSUME NEW ts, NEW p, State(ts, p), p.at = "operand"
  PROVE  State(ts, Prim(ts, p))
<1> DEFINE q == Call(p, Frame("postfix", 0, 0, << >>))
           next == Consume(q)
<1>1. Good(ts, p, << >>) /\ p.calls # << >> /\ p.pos \in Nat
  BY GoodCounts DEF State, Good
<1>2. "postfix" \in Functions \ {"conditional", "binary"} /\ 0 \in Nat
  BY FunctionNames
<1>3. Good(ts, q, << >>) /\ q.calls # << >> /\ q.pos = p.pos /\ q.at = "operand"
  BY <1>1, <1>2, CallFacts
<1> HIDE DEF q
<1>4. \A types : At(ts, p, types) <=> At(ts, q, types)
  BY <1>3 DEF At, Type
<1>5. CASE At(ts, p, {"LEFTBRACKET"})
  <2> DEFINE r == Call(next, Frame("bracket", 0, p.pos, << >>))
  <2>1. Good(ts, next, << >>) /\ next.calls # << >>
    BY <1>3, <1>4, <1>5, GoodConsume
  <2>2. "bracket" \in Functions \ {"conditional", "binary"}
    BY FunctionNames
  <2>3. Good(ts, r, << >>)
    <3> HIDE DEF next
    <3>1. QED
      BY <1>1, <2>1, <2>2, CallFacts
  <2>4. State(ts, CallExpr(r))
    <3> HIDE DEF r
    <3>1. QED
      BY <2>3, GoodCallExpr DEF State
  <2>5. Prim(ts, p) = CallExpr(r)
    <3>1. ~ At(ts, p, {"LITERAL", "BUILTINCONSTANT"}) /\ ~ At(ts, p, {"BUILTINFUNC"})
      BY <1>5 DEF At
    <3>2. QED
      BY <1>5, <3>1 DEF Prim, q
  <2>6. QED
    BY <2>4, <2>5
<1>6. CASE At(ts, p, {"LITERAL", "BUILTINCONSTANT"})
  <2> DEFINE leaf == Leaf(Type(ts, p), << >>, ts[p.pos].val, ts[p.pos].sym)
             r == Make(next, leaf)
  <2>1. Good(ts, next, << >>) /\ next.calls # << >>
    <3>1. "INVALID" \notin {"LITERAL", "BUILTINCONSTANT"} /\ "none" \notin {"LITERAL", "BUILTINCONSTANT"}
      OBVIOUS
    <3>2. At(ts, q, {"LITERAL", "BUILTINCONSTANT"})
      BY <1>4, <1>6
    <3>3. QED
      BY <1>3, <3>1, <3>2, GoodConsume
  <2>2. leaf.kids = << >> /\ leaf.op \in {"LITERAL", "BUILTINCONSTANT"}
    BY <1>6, LeafFacts DEF At
  <2> HIDE DEF leaf, next
  <2>3. Good(ts, r, <<r.node>>) /\ r.calls # << >>
    <3>1. Shaped(leaf)
      BY <2>2 DEF Shaped
    <3>2. Good(ts, next, leaf.kids)
      BY <2>1, <2>2
    <3>3. Good(ts, r, <<r.node>>) /\ r.calls = next.calls
      BY <3>1, <3>2, GoodMake
    <3>4. QED
      BY <2>1, <3>3
  <2>4. State(ts, Back(r))
    <3> HIDE DEF r
    <3>1. QED
      BY <2>3, BackStep
  <2>5. Prim(ts, p) = Back(r)
    <3>1. ~ At(ts, p, {"LEFTBRACKET"}) /\ ~ At(ts, p, {"BUILTINFUNC"})
      BY <1>6 DEF At
    <3>2. QED
      BY <1>6, <3>1 DEF Prim, q, next, leaf
  <2>6. QED
    BY <2>4, <2>5
<1>7. CASE At(ts, p, {"BUILTINFUNC"})
  <2>0. ~ At(ts, p, {"LEFTBRACKET"}) /\ ~ At(ts, p, {"LITERAL", "BUILTINCONSTANT"})
    BY <1>7 DEF At
  <2>1. Good(ts, next, << >>) /\ next.calls # << >>
    BY <1>3, <1>4, <1>7, GoodConsume
  <2>2. CASE At(ts, next, {"LEFTBRACKET"})
    <3> DEFINE c == Consume(next)
               r == Call(c, Frame("call", 0, p.pos, << >>))
               s == [r EXCEPT !.at = "arguments"]
    <3> HIDE DEF next
    <3>1. Good(ts, c, << >>) /\ c.calls # << >>
      BY <2>1, <2>2, GoodConsume
    <3>2. "call" \in Functions \ {"conditional", "binary"}
      BY FunctionNames
    <3> HIDE DEF c
    <3>3. Good(ts, r, << >>) /\ r.calls # << >> /\ Top(r).fn = "call"
      BY <1>1, <3>1, <3>2, CallFacts
    <3> HIDE DEF r
    <3>4. Good(ts, s, << >>)
      BY <3>3, GoodAt
    <3>5. s.at = "arguments" /\ s.calls = r.calls
      <4>1. IsRec(r)
        BY <3>3 DEF Good
      <4>2. s = [pos |-> r.pos, pool |-> r.pool, err |-> r.err, node |-> r.node,
                 calls |-> r.calls, at |-> "arguments"]
        BY <4>1, Changed
      <4> HIDE DEF s
      <4>3. QED
        BY <4>2
    <3> HIDE DEF s
    <3>6. State(ts, s)
      BY <3>3, <3>4, <3>5 DEF State, Top
    <3>7. Prim(ts, p) = s
      BY <1>7, <2>0, <2>2 DEF Prim, q, next, c, r, s
    <3>8. QED
      BY <3>6, <3>7
  <2>3. CASE ~ At(ts, next, {"LEFTBRACKET"})
    <3> DEFINE r == BadToken(next)
    <3> HIDE DEF next
    <3>1. Good(ts, r, <<r.node>>) /\ r.calls # << >>
      BY <2>1, GoodBadToken
    <3> HIDE DEF r
    <3>2. State(ts, Back(r))
      BY <3>1, BackStep
    <3>3. Prim(ts, p) = Back(r)
      BY <1>7, <2>0, <2>3 DEF Prim, q, next, r
    <3>4. QED
      BY <3>2, <3>3
  <2>4. QED
    BY <2>2, <2>3
<1>8. CASE ~(At(ts, p, {"LEFTBRACKET"}) \/ At(ts, p, {"LITERAL", "BUILTINCONSTANT"})
             \/ At(ts, p, {"BUILTINFUNC"}))
  <2> DEFINE r == Nothing(q)
  <2>1. Good(ts, r, <<r.node>>) /\ r.calls # << >>
    BY <1>3, GoodNothing
  <2> HIDE DEF r
  <2>2. State(ts, Back(r))
    BY <2>1, BackStep
  <2>3. Prim(ts, p) = Back(r)
    BY <1>8 DEF Prim, q, r
  <2>4. QED
    BY <2>2, <2>3
<1>9. QED
  BY <1>5, <1>6, <1>7, <1>8

(* An inner call returns with what is parsed, a node or nothing.           *)
LEMMA ReturnStep ==
  ASSUME NEW ts, NEW p, Good(ts, p, <<p.node>>), p.calls # << >>,
         Top(p).held = << >>, Top(p).fn # "conditional"
  PROVE  State(ts, Return(p)) /\ Return(p).calls # << >>
<1> DEFINE q == Return(p)
<1>1. /\ Good(ts, q, Top(p).held \o <<p.node>>) /\ q.node = p.node /\ q.at = "return"
      /\ q.calls # << >>
  BY GoodReturn
<1> HIDE DEF q
<1>2. << >> \o <<p.node>> = <<p.node>>
  <2> DEFINE n == p.node
  <2> HIDE DEF n
  <2>1. <<n>> \in Seq({n})
    OBVIOUS
  <2>2. << >> \o <<n>> = <<n>>
    BY <2>1, ConcatEmptySeq
  <2>3. QED
    BY <2>2 DEF n
<1>3. Good(ts, q, <<q.node>>)
  BY <1>1, <1>2
<1>4. QED
  BY <1>1, <1>3 DEF State, q

LEMMA BracketStep ==
  ASSUME NEW ts, NEW p, State(ts, p), p.at = "return", p.calls # << >>, Top(p).fn = "bracket"
  PROVE  State(ts, Bracket(ts, p))
<1>1. Good(ts, p, <<p.node>>)
  BY DEF State
<1>2. Top(p).held = << >>
  BY <1>1, HeldFacts DEF FrameOK
<1>3. CASE At(ts, p, {"RIGHTBRACKET"})
  <2> DEFINE q == Consume(p)
  <2>1. Good(ts, q, <<p.node>>) /\ q.node = p.node /\ q.calls = p.calls
    BY <1>1, <1>3, GoodConsume
  <2> HIDE DEF q
  <2>2. State(ts, Return(q))
    BY <1>2, <2>1, ReturnStep DEF Top
  <2>3. QED
    BY <1>3, <2>2 DEF Bracket, q
<1>4. CASE ~ At(ts, p, {"RIGHTBRACKET"})
  <2> DEFINE q == BadToken(p)
  <2>1. Good(ts, q, <<Null>>) /\ q.node = Null /\ q.calls = p.calls
    BY <1>1, GoodBadToken
  <2> HIDE DEF q
  <2>2. State(ts, Return(q))
    BY <1>2, <2>1, ReturnStep DEF Top
  <2>3. QED
    BY <1>4, <2>2 DEF Bracket, q
<1>5. QED
  BY <1>3, <1>4

LEMMA OneOperand ==
  ASSUME NEW n
  PROVE  Len(<<n>>) = 1
  OBVIOUS

LEMMA PostfixOpStep ==
  ASSUME NEW ts, NEW p, State(ts, p), p.at = "return", p.calls # << >>, Top(p).fn = "postfix"
  PROVE  State(ts, PostfixOp(ts, p))
<1>1. Good(ts, p, <<p.node>>)
  BY DEF State
<1>2. CASE At(ts, p, {"FACT"})
  <2> DEFINE q == Consume(p)
             node == Node("FACT", <<p.node>>)
             r == Make(q, node)
  <2>1. Good(ts, q, <<p.node>>) /\ q.calls = p.calls /\ q.at = "return"
    BY <1>1, <1>2, GoodConsume
  <2>2. node.op = "FACT" /\ node.kids = <<p.node>>
    BY LeafFacts
  <2> HIDE DEF q, node
  <2>3. Shaped(node)
    BY <2>2, OneOperand DEF Shaped
  <2>4. Good(ts, r, <<r.node>>) /\ r.at = "return" /\ r.calls # << >>
    BY <2>1, <2>2, <2>3, GoodMake
  <2> HIDE DEF r
  <2>5. State(ts, r)
    BY <2>4 DEF State
  <2>6. QED
    BY <1>2, <2>5 DEF PostfixOp, q, node, r
<1>3. CASE ~ At(ts, p, {"FACT"})
  <2>1. Top(p).held = << >>
    BY <1>1, HeldFacts DEF FrameOK
  <2>2. State(ts, Return(p))
    BY <1>1, <2>1, ReturnStep
  <2>3. QED
    BY <1>3, <2>2 DEF PostfixOp
<1>4. QED
  BY <1>2, <1>3

LEMMA UnaryOpStep ==
  ASSUME NEW ts, NEW p, State(ts, p), p.at = "return", p.calls # << >>, Top(p).fn = "sign"
  PROVE  State(ts, UnaryOp(ts, p))
<1> DEFINE q == Return(p)
           node == Node(ts[Top(p).tok].type, <<p.node>>)
           r == Make(q, node)
<1>1. Good(ts, p, <<p.node>>)
  BY DEF State
<1>2. Top(p).held = << >> /\ ts[Top(p).tok].type \in Sign
  BY <1>1, HeldFacts DEF FrameOK
<1>3. State(ts, q) /\ q.calls # << >>
  BY <1>1, <1>2, ReturnStep
<1>4. q.node = p.node /\ q.at = "return"
  BY <1>1, GoodReturn
<1>5. node.op \in Sign /\ node.kids = <<p.node>>
  BY <1>2, LeafFacts
<1> HIDE DEF q, node
<1>6. Shaped(node)
  BY <1>5, OneOperand DEF Shaped
<1>7. Good(ts, q, node.kids)
  BY <1>3, <1>4, <1>5 DEF State
<1>8. Good(ts, r, <<r.node>>) /\ r.at = q.at /\ r.calls = q.calls
  BY <1>6, <1>7, GoodMake
<1> HIDE DEF r
<1>9. QED
  BY <1>3, <1>4, <1>8 DEF UnaryOp, State, q, node, r

LEMMA FuncCallStep ==
  ASSUME NEW ts, NEW p, State(ts, p), p.at = "arguments"
  PROVE  State(ts, FuncCall(ts, p))
<1> DEFINE args == Top(p).held
<1>1. Good(ts, p, << >>) /\ p.calls # << >> /\ Top(p).fn = "call"
  BY DEF State
<1>2. CASE At(ts, p, {"RIGHTBRACKET"})
  <2> DEFINE q == Consume(p)
             r == Return(q)
             node == Leaf("BUILTINFUNC", args, 0, ts[Top(p).tok].sym)
             s == Make(r, node)
  <2>1. Good(ts, q, << >>) /\ q.calls = p.calls
    BY <1>1, <1>2, GoodConsume
  <2>2. Top(q) = Top(p)
    BY <2>1 DEF Top
  <2> HIDE DEF q
  <2>3. /\ Good(ts, r, args \o << >>) /\ r.at = "return" /\ r.calls # << >>
        /\ FrameOK(ts, Top(q), Count(q.pool))
    BY <1>1, <2>1, <2>2, GoodReturn
  <2>4. args \o << >> = args
    <3>1. args \in Seq(Null .. Count(q.pool) - 1)
      BY <2>2, <2>3 DEF FrameOK
    <3> HIDE DEF args
    <3>2. QED
      BY <3>1, ConcatEmptySeq
  <2>5. node.kids = args /\ node.op = "BUILTINFUNC"
    BY LeafFacts
  <2> HIDE DEF r, node, args
  <2>6. Good(ts, r, node.kids) /\ Shaped(node)
    BY <2>3, <2>4, <2>5 DEF Shaped
  <2>7. Good(ts, s, <<s.node>>) /\ s.at = r.at /\ s.calls = r.calls
    BY <2>6, GoodMake
  <2> HIDE DEF s
  <2>8. State(ts, s)
    BY <2>3, <2>7 DEF State
  <2>9. FuncCall(ts, p) = s
    BY <1>2 DEF FuncCall, q, r, node, args, s
  <2>10. QED
    BY <2>8, <2>9
<1>3. CASE ~ At(ts, p, {"RIGHTBRACKET"}) /\ args = << >>
  <2>1. State(ts, CallExpr(p))
    BY <1>1, GoodCallExpr DEF State
  <2>2. QED
    BY <1>3, <2>1 DEF FuncCall
<1>4. CASE ~ At(ts, p, {"RIGHTBRACKET"}) /\ args # << >> /\ At(ts, p, {"COMMA"})
  <2> DEFINE q == Consume(p)
  <2>1. Good(ts, q, << >>)
    BY <1>1, <1>4, GoodConsume
  <2> HIDE DEF q
  <2>2. State(ts, CallExpr(q))
    BY <2>1, GoodCallExpr DEF State
  <2>3. QED
    BY <1>4, <2>2 DEF FuncCall, q
<1>5. CASE ~ At(ts, p, {"RIGHTBRACKET"}) /\ args # << >> /\ ~ At(ts, p, {"COMMA"})
  <2> DEFINE q == BadToken(p)
             r == Return(q)
  <2>1. Good(ts, q, <<Null>>) /\ q.node = Null /\ q.err /\ q.calls = p.calls
    BY <1>1, GoodBadToken
  <2>2. Top(q) = Top(p)
    BY <2>1 DEF Top
  <2> HIDE DEF q
  <2>3. /\ Good(ts, r, Top(q).held \o <<Null>>) /\ r.at = "return" /\ r.calls # << >>
        /\ r.node = Null /\ r.err
    BY <1>1, <2>1, <2>2, GoodReturn
  <2> HIDE DEF r
  <2>4. Good(ts, r, <<r.node>>)
    <3>1. <<Null>> \in Seq(Null .. Count(r.pool) - 1)
      BY <2>3, GoodCounts, NullFacts
    <3>2. QED
      BY <2>3, <3>1 DEF Good
  <2>5. State(ts, r)
    BY <2>3, <2>4 DEF State
  <2>6. QED
    BY <1>5, <2>5 DEF FuncCall, q, r
<1>6. QED
  BY <1>2, <1>3, <1>4, <1>5

LEMMA ArgumentStep ==
  ASSUME NEW ts, NEW p, State(ts, p), p.at = "return", p.calls # << >>, Top(p).fn = "call"
  PROVE  State(ts, Argument(p))
<1> DEFINE held == Held(p)
           g == [Top(p) EXCEPT !.held = held]
           q == Hold(p, held)
           r == [q EXCEPT !.at = "arguments"]
<1>1. Good(ts, p, <<p.node>>)
  BY DEF State
<1>2. /\ Top(p) \in FrameType /\ held = Top(p).held \o <<p.node>>
      /\ held \in Seq(Null .. Count(p.pool) - 1)
  BY <1>1, HeldFacts
<1> HIDE DEF held
<1>3. /\ g \in FrameType /\ g.fn = "call" /\ g.held = held
      /\ g.level = Top(p).level /\ g.tok = Top(p).tok /\ g.fn = Top(p).fn
  <2>1. held \in Seq(Int)
    <3>1. Null .. Count(p.pool) - 1 \subseteq Int
      BY DEF Null
    <3>2. QED
      BY <1>2, <3>1, SeqMonotonic
  <2>2. QED
    BY <1>2, <2>1 DEF FrameType
<1>4. FrameOK(ts, g, Count(p.pool))
  <2> HIDE DEF g
  <2>1. QED
    BY <1>2, <1>3 DEF FrameOK
<1>5. Good(ts, q, << >>) /\ q.calls # << >> /\ Top(q).fn = Top(p).fn
  <2> DEFINE now == <<p.node>>
  <2>1. Good(ts, p, now) /\ held = Top(p).held \o now
    BY <1>1, <1>2
  <2> HIDE DEF now
  <2> DEFINE h == Hold(p, held)
  <2> HIDE DEF g, q, r
  <2>2. Waits(ts, h, Top(p).fn)
    BY <1>3, <1>4, <2>1, GoodHold
  <2>3. QED
    BY <2>2 DEF q, Waits
<1> HIDE DEF q, g
<1>6. Good(ts, r, << >>)
  BY <1>5, GoodAt
<1>7. r.at = "arguments" /\ r.calls = q.calls
  <2>1. IsRec(q)
    BY <1>5 DEF Good
  <2>2. r = [pos |-> q.pos, pool |-> q.pool, err |-> q.err, node |-> q.node,
             calls |-> q.calls, at |-> "arguments"]
    BY <2>1, Changed
  <2> HIDE DEF r
  <2>3. QED
    BY <2>2
<1> HIDE DEF r
<1>8. State(ts, r)
  BY <1>3, <1>5, <1>6, <1>7 DEF State, Top
<1>9. QED
  BY <1>8 DEF Argument, r, q, held

LEMMA LevelFacts ==
  ASSUME NEW i \in 1 .. 9
  PROVE  Level[i] \subseteq BinaryOps
<1>1. i = 1 \/ i = 2 \/ i = 3 \/ i = 4 \/ i = 5 \/ i = 6 \/ i = 7 \/ i = 8 \/ i = 9
  OBVIOUS
<1>2. QED
  BY <1>1 DEF Level, BinaryOps

LEMMA BinaryOpStep ==
  ASSUME NEW ts, NEW p, State(ts, p), p.at = "return", p.calls # << >>, Top(p).fn = "binary"
  PROVE  State(ts, BinaryOp(ts, p))
<1> DEFINE f == Top(p)
           first == f.held = << >>
           node == Node(Made(ts[f.tok].type), Held(p))
           back == Return(p)
           left == IF first THEN back ELSE Make(back, node)
<1>1. Good(ts, p, <<p.node>>)
  BY DEF State
<1>2. /\ f \in FrameType /\ f.level \in 1 .. 9 /\ f.held \o <<p.node>> = Held(p)
      /\ Len(Held(p)) = Len(f.held) + 1
      /\ first \/ (Len(f.held) = 1 /\ ts[f.tok].type \in Level[f.level])
  BY <1>1, HeldFacts DEF FrameOK
<1>3. /\ Good(ts, back, Held(p)) /\ back.pos = p.pos /\ back.node = p.node /\ back.at = "return"
      /\ back.calls # << >>
  BY <1>1, <1>2, GoodReturn
<1>4. /\ Good(ts, left, <<left.node>>) /\ left.pos = p.pos /\ left.at = "return"
      /\ left.calls # << >>
  <2>1. CASE first
    <3>1. State(ts, back)
      BY <1>1, <2>1, ReturnStep
    <3> HIDE DEF back
    <3>2. Good(ts, back, <<back.node>>)
      BY <1>3, <3>1 DEF State
    <3>3. QED
      BY <1>3, <2>1, <3>2
  <2>2. CASE ~ first
    <3>1. node.op \in BinaryOps /\ node.kids = Held(p)
      <4>1. ts[f.tok].type \in BinaryOps
        BY <1>2, <2>2, LevelFacts
      <4>2. Made(ts[f.tok].type) \in BinaryOps
        BY <4>1 DEF Made, BinaryOps
      <4>3. QED
        BY <4>2, LeafFacts
    <3> HIDE DEF node, back
    <3>2. Len(node.kids) = 2
      BY <1>2, <2>2, <3>1
    <3>3. Good(ts, back, node.kids) /\ Shaped(node)
      BY <1>3, <3>1, <3>2 DEF Shaped
    <3> DEFINE r == Make(back, node)
    <3>4. Good(ts, r, <<r.node>>) /\ r.pos = back.pos /\ r.at = back.at /\ r.calls = back.calls
      BY <3>3, GoodMake
    <3> HIDE DEF r
    <3>5. left = r
      BY <2>2 DEF r
    <3> HIDE DEF left
    <3>6. QED
      BY <1>3, <3>4, <3>5
  <2>3. QED
    BY <2>1, <2>2
<1> HIDE DEF left
<1>5. CASE At(ts, p, Level[f.level]) /\ (first \/ ~ Once(f.level))
  <2> DEFINE q == Consume(left)
             g == Frame("binary", f.level, p.pos, <<left.node>>)
             r == Call(q, g)
  <2>1. "INVALID" \notin Level[f.level] /\ "none" \notin Level[f.level]
    <3>1. "INVALID" \notin BinaryOps /\ "none" \notin BinaryOps
      BY DEF BinaryOps
    <3>2. QED
      BY <1>2, <3>1, LevelFacts
  <2>2. At(ts, left, Level[f.level])
    BY <1>4, <1>5 DEF At, Type
  <2>3. /\ Good(ts, q, <<left.node>>) /\ ts[p.pos].type \in Level[f.level] /\ p.pos \in Nat
        /\ q.calls # << >>
    BY <1>4, <2>1, <2>2, GoodConsume
  <2> DEFINE N == Count(q.pool)
             one == <<left.node>>
  <2>4. N \in Nat /\ one \in Seq(Null .. N - 1) /\ Len(one) = 1
    BY <2>3, GoodCounts, OneOperand DEF Good
  <2>5. "binary" \in Functions /\ f.level \in 0 .. 9 /\ f.level \in 1 .. 9
    BY <1>2 DEF Functions
  <2> HIDE DEF q, N, one
  <2>6. /\ g \in FrameType /\ g.fn = "binary" /\ g.level = f.level /\ g.tok = p.pos /\ g.held = one
    <3> DEFINE level == f.level
               tok == p.pos
    <3>1. level \in 0 .. 9 /\ tok \in Nat
      BY <2>3, <2>5
    <3> HIDE DEF level, tok
    <3>2. LET h == Frame("binary", level, tok, one)
          IN  h \in FrameType /\ h.fn = "binary" /\ h.level = level /\ h.tok = tok /\ h.held = one
      BY <2>4, <2>5, <3>1, FrameFacts
    <3>3. QED
      BY <3>2 DEF level, tok, one
  <2> HIDE DEF g
  <2>7. FrameOK(ts, g, N)
    <3>1. ts[g.tok].type \in Level[g.level]
      BY <2>3, <2>6
    <3> HIDE DEF f
    <3>2. QED
      BY <2>4, <2>5, <2>6, <3>1 DEF FrameOK
  <2>8. Good(ts, r, << >>) /\ r.calls # << >>
    <3>1. Good(ts, q, g.held)
      BY <2>3, <2>6 DEF one
    <3>2. QED
      BY <2>3, <2>6, <2>7, <3>1, GoodCall DEF N
  <2> HIDE DEF r
  <2>9. State(ts, CallLevels(r, f.level + 1))
    <3>1. f.level + 1 \in 1 .. 10
      BY <2>5
    <3> HIDE DEF f
    <3>2. QED
      BY <2>8, <3>1, GoodCallLevels DEF State
  <2>10. BinaryOp(ts, p) = CallLevels(r, f.level + 1)
    BY <1>5 DEF BinaryOp, r, q, g, left
  <2>11. QED
    BY <2>9, <2>10
<1>6. CASE ~(At(ts, p, Level[f.level]) /\ (first \/ ~ Once(f.level)))
  <2>1. State(ts, left)
    BY <1>4 DEF State
  <2>2. QED
    BY <1>6, <2>1 DEF BinaryOp, left
<1>7. QED
  BY <1>5, <1>6

LEMMA ConditionalStep ==
  ASSUME NEW ts, NEW p, State(ts, p), p.at = "return", p.calls # << >>,
         Top(p).fn = "conditional"
  PROVE  State(ts, Conditional(ts, p))
<1> DEFINE f == Top(p)
           back == Return(p)
<1>1. Good(ts, p, <<p.node>>)
  BY DEF State
<1>2. /\ f \in FrameType /\ f.held \o <<p.node>> = Held(p) /\ Len(f.held) \in 0 .. 2
      /\ Len(Held(p)) = Len(f.held) + 1 /\ Held(p) # << >>
      /\ Held(p) \in Seq(Null .. Count(p.pool) - 1) /\ f.held \in Seq(Null .. Count(p.pool) - 1)
  <2>1. /\ f \in FrameType /\ FrameOK(ts, f, Count(p.pool)) /\ f.held \o <<p.node>> = Held(p)
        /\ Len(Held(p)) = Len(f.held) + 1 /\ Held(p) # << >>
        /\ Held(p) \in Seq(Null .. Count(p.pool) - 1) /\ Len(f.held) \in Nat
    BY <1>1, HeldFacts
  <2> HIDE DEF f
  <2>2. f.held \in Seq(Null .. Count(p.pool) - 1) /\ Len(f.held) <= 2
    BY <2>1 DEF FrameOK, f
  <2>3. Len(f.held) \in 0 .. 2
    <3> DEFINE n == Len(f.held)
    <3>1. n \in Nat
      BY <2>1
    <3>2. n <= 2
      BY <2>2
    <3> HIDE DEF n
    <3>3. n \in 0 .. 2
      BY <3>1, <3>2
    <3>4. QED
      BY <3>3 DEF n
  <2> DEFINE S == Seq(Null .. Count(p.pool) - 1)
  <2> HIDE DEF S
  <2>4. QED
    BY <2>1, <2>2, <2>3, Zenon
<1>3. /\ Good(ts, back, Held(p)) /\ back.err = p.err /\ back.node = p.node /\ back.at = "return"
  BY <1>1, <1>2, GoodReturn
<1>4. ASSUME NEW q, Good(ts, q, <<Null>>), q.node = Null, q.calls = p.calls, q.err
      PROVE  State(ts, Return(q))
  <2> DEFINE r == Return(q)
  <2>1. Good(ts, r, Top(q).held \o <<Null>>) /\ r.at = "return" /\ r.node = Null /\ r.err
    <3>1. q.calls # << >>
      BY <1>4
    <3>2. /\ Good(ts, r, Top(q).held \o <<Null>>) /\ r.at = "return" /\ r.node = q.node
          /\ r.err = q.err
      BY <1>4, <3>1, GoodReturn
    <3>3. QED
      BY <1>4, <3>2
  <2> HIDE DEF r
  <2>2. <<Null>> \in Seq(Null .. Count(r.pool) - 1)
    BY <2>1, GoodCounts, NullFacts
  <2>3. Good(ts, r, <<r.node>>)
    BY <2>1, <2>2 DEF Good
  <2>4. QED
    BY <2>1, <2>3 DEF State, r
<1>5. CASE p.err
  <2> DEFINE q == Nothing(p)
  <2>1. Good(ts, q, <<Null>>) /\ q.node = Null /\ q.calls = p.calls /\ q.err
    BY <1>1, <1>5, GoodNothing
  <2> HIDE DEF q
  <2>2. State(ts, Return(q))
    BY <1>4, <2>1
  <2>3. QED
    BY <1>5, <2>2 DEF Conditional, q
(* Another alternative follows.                                            *)
<1>6. ASSUME NEW mark, At(ts, p, {mark}), mark \in {"QMARK", "COLON"}, Len(f.held) <= 1
      PROVE  State(ts, CallExpr(Hold(Consume(p), Held(p))))
  <2> DEFINE q == Consume(p)
             held == Held(p)
             r == Hold(q, held)
             now == <<p.node>>
  <2>1. Good(ts, q, now) /\ q.calls = p.calls /\ q.pool = p.pool
    <3>1. "INVALID" \notin {mark} /\ "none" \notin {mark}
      BY <1>6
    <3>2. QED
      BY <1>1, <1>6, <3>1, GoodConsume
  <2> HIDE DEF q, now
  <2>2. Top(q) = f /\ q.calls # << >>
    BY <2>1 DEF Top
  <2>3. held = Top(q).held \o now
    BY <1>2, <2>2 DEF now
  <2> DEFINE g == [Top(q) EXCEPT !.held = held]
  <2>4. /\ g \in FrameType /\ g.fn = "conditional" /\ g.held = held
        /\ g.level = Top(q).level /\ g.tok = Top(q).tok /\ g.fn = Top(q).fn
    <3>1. held \in Seq(Int)
      <4>1. Null .. Count(p.pool) - 1 \subseteq Int
        BY DEF Null
      <4>2. QED
        BY <1>2, <4>1, SeqMonotonic
    <3> HIDE DEF held, f
    <3>2. QED
      BY <1>2, <2>2, <3>1 DEF FrameType, f
  <2>5. FrameOK(ts, g, Count(q.pool))
    <3>1. Len(held) <= 2
      BY <1>2, <1>6
    <3> HIDE DEF g, held
    <3>2. QED
      BY <1>2, <2>1, <2>4, <3>1 DEF FrameOK, held
  <2> HIDE DEF held, g
  <2>6. Waits(ts, r, Top(q).fn)
    BY <2>1, <2>2, <2>3, <2>4, <2>5, GoodHold
  <2> HIDE DEF r
  <2>7. State(ts, CallExpr(r))
    BY <2>6, GoodCallExpr DEF State, Waits
  <2>8. QED
    BY <2>7 DEF r, q, held
<1>7. CASE ~ p.err /\ Len(f.held) = 0
  <2>1. AfterOperand(ts, p) = NextAlternative(ts, p, "QMARK", p)
    BY <1>7 DEF AfterOperand
  <2>2. CASE At(ts, p, {"QMARK"})
    <3>1. State(ts, CallExpr(Hold(Consume(p), Held(p))))
      <4>1. Len(f.held) <= 1 /\ "QMARK" \in {"QMARK", "COLON"}
        BY <1>7
      <4> HIDE DEF f
      <4>2. QED
        BY <1>6, <2>2, <4>1
    <3>2. QED
      BY <1>7, <2>1, <2>2, <3>1 DEF Conditional, NextAlternative
  <2>3. CASE ~ At(ts, p, {"QMARK"})
    <3>1. Held(p) = <<p.node>>
      <4> DEFINE n == p.node
                 held == f.held
      <4>1. held = << >>
        BY <1>2, <1>7, EmptySeq
      <4> HIDE DEF n, held
      <4>2. <<n>> \in Seq({n})
        OBVIOUS
      <4>3. << >> \o <<n>> = <<n>>
        BY <4>2, ConcatEmptySeq
      <4>4. QED
        BY <1>2, <4>1, <4>3 DEF n, held
    <3>2. State(ts, back)
      <4>1. Good(ts, back, <<back.node>>)
        BY <1>3, <3>1
      <4> HIDE DEF back
      <4>2. QED
        BY <1>3, <1>7, <4>1 DEF State
    <3>3. QED
      BY <1>7, <2>1, <2>3, <3>2 DEF Conditional, NextAlternative
  <2>4. QED
    BY <2>2, <2>3
<1>8. CASE ~ p.err /\ Len(f.held) = 1
  <2>1. AfterOperand(ts, p) = NextAlternative(ts, p, "COLON", BadToken(p))
    BY <1>8 DEF AfterOperand
  <2>2. CASE At(ts, p, {"COLON"})
    <3>1. State(ts, CallExpr(Hold(Consume(p), Held(p))))
      <4>1. Len(f.held) <= 1 /\ "COLON" \in {"QMARK", "COLON"}
        BY <1>8
      <4> HIDE DEF f
      <4>2. QED
        BY <1>6, <2>2, <4>1
    <3>2. QED
      BY <1>8, <2>1, <2>2, <3>1 DEF Conditional, NextAlternative
  <2>3. CASE ~ At(ts, p, {"COLON"})
    <3> DEFINE q == BadToken(p)
    <3>1. Good(ts, q, <<Null>>) /\ q.node = Null /\ q.calls = p.calls /\ q.err
      BY <1>1, GoodBadToken
    <3> HIDE DEF q
    <3>2. State(ts, Return(q))
      BY <1>4, <3>1
    <3>3. QED
      BY <1>8, <2>1, <2>3, <3>2 DEF Conditional, NextAlternative, q
  <2>4. QED
    BY <2>2, <2>3
<1>9. CASE ~ p.err /\ Len(f.held) = 2
  <2> DEFINE node == Node("QMARK", Held(p))
             r == Make(back, node)
  <2>1. Conditional(ts, p) = r
    BY <1>9 DEF Conditional, AfterOperand
  <2>2. node.op = "QMARK" /\ node.kids = Held(p)
    BY LeafFacts
  <2> HIDE DEF node, back
  <2>3. Shaped(node)
    BY <1>2, <1>9, <2>2 DEF Shaped
  <2>4. Good(ts, back, node.kids)
    BY <1>3, <2>2
  <2>5. Good(ts, r, <<r.node>>) /\ r.at = back.at /\ r.err = back.err
    BY <2>3, <2>4, GoodMake
  <2> HIDE DEF r
  <2>6. State(ts, r)
    BY <1>3, <1>9, <2>5 DEF State
  <2>7. QED
    BY <2>1, <2>6
<1>10. QED
  BY <1>2, <1>5, <1>7, <1>8, <1>9

-----------------------------------------------------------------------------
(* Induction up to a bound.                                                *)
LEMMA UpTo ==
  ASSUME NEW n \in Nat, NEW T, 0 \in T, \A i \in 0 .. n - 1 : i \in T => i + 1 \in T
  PROVE  \A i \in 0 .. n : i \in T
<1> DEFINE U == (0 .. n) \ T
           R == OpToRel(<, Nat)
<1>1. SUFFICES ASSUME U # {} PROVE FALSE
  OBVIOUS
<1>2. IsWellFoundedOn(R, Nat)
  BY NatLessThanWellFounded
<1>3. U \subseteq Nat
  OBVIOUS
<1>4. PICK m \in U : \A y \in U : <<y, m>> \notin R
  <2> HIDE DEF U, R
  <2>1. QED
    BY <1>1, <1>2, <1>3, WFMin
<1>5. m \in 0 .. n /\ m \notin T
  BY <1>4
<1>6. m # 0
  BY <1>5
<1>7. m - 1 \in 0 .. n - 1
  BY <1>5, <1>6
<1>8. <<m - 1, m>> \in R
  BY <1>5, <1>7 DEF OpToRel
<1>9. m - 1 \in T
  <2>1. m - 1 \notin U
    <3> HIDE DEF U, R
    <3>1. QED
      BY <1>4, <1>8
  <2>2. m - 1 \in 0 .. n
    BY <1>5, <1>7
  <2>3. QED
    BY <2>1, <2>2
<1>10. (m - 1) + 1 \in T
  BY <1>7, <1>9
<1>11. (m - 1) + 1 = m
  BY <1>5
<1>12. QED
  BY <1>5, <1>10, <1>11

(* The least element is the minimum.                                       *)
LEMMA MinIs ==
  ASSUME NEW S, S \subseteq Int, NEW m \in S, \A y \in S : m <= y
  PROVE  Min(S) = m
<1> DEFINE P(x) == x \in S /\ \A y \in S : x <= y
<1>1. Min(S) = CHOOSE x : P(x)
  BY DEF Min
<1>2. P(m)
  OBVIOUS
<1>3. \A x : P(x) => x = m
  <2>1. ASSUME NEW x, P(x) PROVE x = m
    <3>1. x <= m /\ m <= x /\ x \in Int /\ m \in Int
      BY <2>1
    <3>2. QED
      BY <3>1
  <2>2. QED
    BY <2>1
<1> HIDE DEF P
<1>4. QED
  BY <1>1, <1>2, <1>3

(* A set of naturals has a least element, and Min is it.                   *)
LEMMA MinProperties ==
  ASSUME NEW n \in Nat, NEW S, S \subseteq 0 .. n, S # {}
  PROVE  Min(S) \in S /\ \A y \in S : Min(S) <= y
<1> DEFINE T == {i \in 0 .. n : (\E x \in S : x <= i) => \E x \in S : \A y \in S : x <= y}
<1>1. 0 \in T
  <2>1. ASSUME NEW x \in S, x <= 0 PROVE \A y \in S : x <= y
    <3>1. x = 0
      BY <2>1
    <3>2. QED
      BY <3>1
  <2>2. QED
    BY <2>1
<1>2. ASSUME NEW i \in 0 .. n - 1, i \in T PROVE i + 1 \in T
  <2>1. CASE \E x \in S : x <= i
    BY <1>2, <2>1
  <2>2. CASE ~(\E x \in S : x <= i)
    <3>1. ASSUME NEW x \in S, x <= i + 1 PROVE \A y \in S : x <= y
      <4>1. x = i + 1
        BY <2>2, <3>1
      <4>2. \A y \in S : y >= i + 1
        BY <2>2
      <4>3. QED
        BY <4>1, <4>2
    <3>2. QED
      BY <3>1
  <2>3. QED
    BY <2>1, <2>2
<1>3. n \in T
  <2> HIDE DEF T
  <2>1. \A i \in 0 .. n : i \in T
    BY <1>1, <1>2, UpTo
  <2>2. QED
    BY <2>1
<1>4. PICK x \in S : TRUE
  OBVIOUS
<1>5. x <= n
  OBVIOUS
<1>6. PICK m \in S : \A y \in S : m <= y
  BY <1>3, <1>5
<1>7. Min(S) = m
  <2>1. S \subseteq Int
    OBVIOUS
  <2>2. QED
    BY <1>6, <2>1, MinIs
<1>8. QED
  BY <1>6, <1>7

-----------------------------------------------------------------------------
(* The tokenizer stays in the text.                                        *)
LEMMA BehindFacts ==
  ASSUME NEW str, Len(str) \in Nat, NEW i \in Nat \ {0}, NEW chars
  PROVE  /\ Behind(str, i, chars) \in 1 .. Len(str) + 1
         /\ i <= Len(str) + 1 => Behind(str, i, chars) >= i
<1> DEFINE L == Len(str)
           S == {L + 1} \cup {k \in i .. L : str[k] \notin chars}
<1>1. S \subseteq 0 .. L + 1 /\ S # {} /\ S \subseteq 1 .. L + 1
  OBVIOUS
<1>2. i <= L + 1 => \A k \in S : k >= i
  OBVIOUS
<1> HIDE DEF S
<1>3. Min(S) \in S
  <2>1. L + 1 \in Nat
    OBVIOUS
  <2> HIDE DEF L
  <2>2. QED
    BY <1>1, <2>1, MinProperties
<1>4. Behind(str, i, chars) = Min(S)
  BY DEF Behind, S
<1>5. QED
  BY <1>1, <1>2, <1>3, <1>4

LEMMA LesserFacts ==
  ASSUME NEW i \in Int, NEW k \in Int
  PROVE  Min({i, k}) = IF i <= k THEN i ELSE k
<1> DEFINE S == {i, k}
           m == IF i <= k THEN i ELSE k
<1>1. S \subseteq Int /\ m \in S /\ \A x \in S : m <= x
  OBVIOUS
<1> HIDE DEF S, m
<1>2. Min(S) = m
  BY <1>1, MinIs
<1>3. QED
  BY <1>2 DEF S, m

LEMMA PastFacts ==
  ASSUME NEW str, Len(str) \in Nat, NEW i \in Nat \ {0}
  PROVE  Past(str, i) \in 1 .. Len(str) + 1
  BY LesserFacts DEF Past

LEMMA RestEndFacts ==
  ASSUME NEW str, Len(str) \in Nat, NEW i \in 1 .. Len(str) + 1
  PROVE  RestEnd(str, i) \in 1 .. Len(str) + 1
<1>1. i + 1 \in Nat \ {0}
  OBVIOUS
<1>2. Behind(str, i + 1, NumeralChar) \in 1 .. Len(str) + 1
  BY <1>1, BehindFacts
<1>3. QED
  BY <1>2 DEF RestEnd

(* There is no character behind the last.                                  *)
LEMMA PeekFacts ==
  ASSUME NEW str, NEW i, Peek(str, i) # End
  PROVE  ~(i > Len(str)) /\ Peek(str, i) = str[i]
  BY DEF Peek

LEMMA DecimalsEndFacts ==
  ASSUME NEW str, Len(str) \in Nat, NEW dot \in 1 .. Len(str) + 1
  PROVE  DecimalsEnd(str, dot) \in 1 .. Len(str) + 1
<1>1. Past(str, dot + 3) \in 1 .. Len(str) + 1 /\ Past(str, dot + 2) \in 1 .. Len(str) + 1
  BY PastFacts
<1>2. Behind(str, Past(str, dot + 3), NumeralChar) \in 1 .. Len(str) + 1
  <2>1. Past(str, dot + 3) \in Nat \ {0}
    BY <1>1
  <2>2. QED
    BY <2>1, BehindFacts
<1>3. QED
  BY <1>1, <1>2 DEF DecimalsEnd

LEMMA PrefixFacts ==
  ASSUME NEW str, Len(str) \in Nat, NEW i \in 1 .. Len(str)
  PROVE  Prefix(str, i).end \in 1 .. Len(str) + 1
<1> DEFINE L == Len(str)
           zero == str[i] = "0"
           b == Behind(str, i + 1, Digit)
           count == IF zero THEN Min({2, b - i - 1}) ELSE 0
           ds == SubSeq(str, i + 1, i + count)
           next == i + count + 1
           radix == IF count = 0 THEN 16
                    ELSE Txt!NumberOf([k \in DOMAIN ds |-> DigitValue(ds[k])], 10)
<1>1. count \in Nat /\ next \in 1 .. L + 1
  <2>1. b \in i + 1 .. L + 1
    <3>1. i + 1 \in Nat \ {0} /\ i + 1 <= Len(str) + 1
      OBVIOUS
    <3>2. b \in 1 .. Len(str) + 1 /\ b >= i + 1
      BY <3>1, BehindFacts
    <3> HIDE DEF b
    <3>3. QED
      BY <3>2
  <2> HIDE DEF b
  <2>2. Min({2, b - i - 1}) = IF 2 <= b - i - 1 THEN 2 ELSE b - i - 1
    BY <2>1, LesserFacts
  <2> DEFINE m == Min({2, b - i - 1})
  <2>3. m \in 0 .. b - i - 1
    BY <2>1, <2>2
  <2> HIDE DEF m
  <2>4. count = IF zero THEN m ELSE 0
    BY DEF m
  <2>5. QED
    BY <2>1, <2>3, <2>4
<1>2. Prefix(str, i) =
        IF zero /\ Peek(str, next) = "x"
        THEN [radix |-> radix, lead |-> << >>, rest |-> Rest(str, next + 1),
              end |-> RestEnd(str, next + 1)]
        ELSE IF zero /\ count = 0
        THEN [radix |-> 10, lead |-> <<"0">>, rest |-> << >>, end |-> next]
        ELSE [radix |-> IF zero THEN 8 ELSE 10,
              lead |-> IF zero THEN ds ELSE <<str[i]>>,
              rest |-> Rest(str, next), end |-> RestEnd(str, next)]
  BY DEF Prefix
<1> HIDE DEF count, ds, next, radix, zero
<1>3. Prefix(str, i).end = IF zero /\ Peek(str, next) = "x" THEN RestEnd(str, next + 1)
                           ELSE IF zero /\ count = 0 THEN next ELSE RestEnd(str, next)
  BY <1>2
<1>4. zero /\ Peek(str, next) = "x" => RestEnd(str, next + 1) \in 1 .. L + 1
  <2>1. HAVE Peek(str, next) = "x"
  <2>2. ~(next > Len(str))
    BY <2>1, PeekFacts DEF End
  <2>3. next + 1 \in 1 .. Len(str) + 1
    BY <1>1, <2>2
  <2>4. QED
    BY <2>3, RestEndFacts
<1>5. RestEnd(str, next) \in 1 .. L + 1
  BY <1>1, RestEndFacts
<1>6. QED
  BY <1>1, <1>3, <1>4, <1>5

(* A token ends in the text; one that has no number keeps its type, and    *)
(* every other error makes the token invalid.                              *)
Read(str, t) ==
  /\ t.pos \in 1 .. Len(str) + 1
  /\ t.status \in {"none", "LITERAL2NUM_ERROR"} \/ t.token.type = "INVALID"

LEMMA LexedFacts ==
  ASSUME NEW str, NEW token, NEW i \in 1 .. Len(str) + 1, NEW status,
         status \in {"none", "LITERAL2NUM_ERROR"} \/ token.type = "INVALID"
  PROVE  Read(str, Lexed(token, i, status))
  BY DEF Read, Lexed

LEMMA InvalidFacts == Invalid.type = "INVALID"
  BY DEF Invalid, Token

LEMMA LexNumeralFacts ==
  ASSUME NEW str, Len(str) \in Nat, NEW i \in 1 .. Len(str)
  PROVE  Read(str, LexNumeral(str, i))
<1> DEFINE p == Prefix(str, i)
           dotted == Peek(str, p.end) = "."
           v == Literal2Value(p.lead \o p.rest, p.radix)
           behind == IF dotted /\ str[i] # "0" THEN DecimalsEnd(str, p.end) ELSE p.end
           A == Lexed(Invalid, p.end, "NOTDEC_BUTREAL")
           B == Lexed(Invalid, p.end, "RADIX_INVALID")
           C == Lexed(Token("LITERAL", 0, << >>), p.end, "LITERAL2NUM_ERROR")
           D == Lexed(Token("LITERAL", v.value, << >>), behind, "none")
<1>1. p.end \in 1 .. Len(str) + 1
  BY PrefixFacts
<1>2. behind \in 1 .. Len(str) + 1
  BY <1>1, DecimalsEndFacts
<1>3. LexNumeral(str, i) = IF dotted /\ str[i] = "0" /\ p.end > i + 1 THEN A
                           ELSE IF p.radix \notin 2 .. 36 THEN B ELSE IF ~ v.ok THEN C ELSE D
  BY DEF LexNumeral
<1>4. Read(str, A) /\ Read(str, B)
  BY <1>1, InvalidFacts, LexedFacts
<1>5. Read(str, C) /\ Read(str, D)
  <2> HIDE DEF behind, p, v
  <2>1. Read(str, C)
    BY <1>1, LexedFacts
  <2>2. Read(str, D)
    BY <1>2, LexedFacts
  <2>3. QED
    BY <2>1, <2>2
<1> HIDE DEF A, B, C, D, dotted, v
<1>6. QED
  BY <1>3, <1>4, <1>5

LEMMA LexNameFacts ==
  ASSUME NEW str, Len(str) \in Nat, NEW i \in 1 .. Len(str)
  PROVE  Read(str, LexName(str, i))
<1> DEFINE end == Behind(str, i, NameStart \cup Digit)
           name == SubSeq(str, i, end - 1)
           A == Lexed(Invalid, end, "SYMBOL_UNDEFINED")
           B == Lexed(Invalid, end, "BUILTIN_SYMBOL_INVALID")
           C == Lexed(Token(Symbols[name].type, 0, name), end, "none")
<1>1. end \in 1 .. Len(str) + 1
  BY BehindFacts
<1>2. LexName(str, i) = IF name \notin DOMAIN Symbols THEN A
                        ELSE IF Symbols[name].type = "INVALID" THEN B ELSE C
  BY DEF LexName
<1> HIDE DEF end, name
<1>3. Read(str, A) /\ Read(str, B) /\ Read(str, C)
  BY <1>1, InvalidFacts, LexedFacts
<1> HIDE DEF A, B, C
<1>4. QED
  BY <1>2, <1>3

LEMMA LexOperatorFacts ==
  ASSUME NEW str, Len(str) \in Nat, NEW i \in 1 .. Len(str)
  PROVE  Read(str, LexOperator(str, i))
<1> DEFINE pair == <<str[i], Peek(str, i + 1)>>
           A == Lexed(Token(TwoChars[pair], 0, << >>), i + 2, "none")
           B == Lexed(Token(OneChar[str[i]], 0, << >>), i + 1, "none")
           error1 == IF str[i] = "=" THEN "EQU_INVALID" ELSE "CHAR_INVALID"
           C == Lexed(Invalid, i + 1, error1)
<1>1. pair \in DOMAIN TwoChars => Peek(str, i + 1) # End
  <2>1. DOMAIN TwoChars = {<<"*", "*">>, <<"!", "=">>, <<">", ">">>, <<">", "=">>,
                           <<"<", "<">>, <<"<", "=">>, <<"=", "=">>}
    BY DEF TwoChars
  <2>2. QED
    BY <2>1 DEF End
<1>2. pair \in DOMAIN TwoChars => i + 2 \in 1 .. Len(str) + 1
  <2>1. HAVE pair \in DOMAIN TwoChars
  <2>2. ~(i + 1 > Len(str))
    BY <1>1, <2>1, PeekFacts
  <2>3. QED
    BY <2>2
<1>3. i + 1 \in 1 .. Len(str) + 1
  OBVIOUS
<1>4. LexOperator(str, i) = IF pair \in DOMAIN TwoChars THEN A
                            ELSE IF str[i] \in DOMAIN OneChar THEN B ELSE C
  BY DEF LexOperator
<1> HIDE DEF pair, error1
<1>5. pair \in DOMAIN TwoChars => Read(str, A)
  BY <1>2, LexedFacts
<1>6. Read(str, B) /\ Read(str, C)
  BY <1>3, InvalidFacts, LexedFacts
<1> HIDE DEF A, B, C
<1>7. QED
  BY <1>4, <1>5, <1>6

LEMMA NextTokenFacts ==
  ASSUME NEW str, Len(str) \in Nat, NEW i \in 1 .. Len(str)
  PROVE  Read(str, NextToken(str, i))
  BY LexNumeralFacts, LexNameFacts, LexOperatorFacts DEF NextToken

-----------------------------------------------------------------------------
(* Evaluation.  The value of a node depends on those of its operands.      *)
LEMMA KidsFacts ==
  ASSUME NEW N \in Nat, NEW kids \in Seq(Null .. N - 1)
  PROVE  /\ Len(kids) \in Nat /\ DOMAIN kids = 1 .. Len(kids)
         /\ \A i \in DOMAIN kids : kids[i] = Null \/ kids[i] \in 0 .. N - 1
<1>1. Len(kids) \in Nat /\ DOMAIN kids = 1 .. Len(kids)
  OBVIOUS
<1>2. ASSUME NEW i \in DOMAIN kids PROVE kids[i] = Null \/ kids[i] \in 0 .. N - 1
  <2>1. kids[i] \in Null .. N - 1
    BY <1>1, ElementOfSeq
  <2>2. QED
    BY <2>1 DEF Null
<1>3. QED
  BY <1>1, <1>2

LEMMA ThreeKids ==
  ASSUME NEW N \in Nat, NEW kids \in Seq(Null .. N - 1), Len(kids) = 3
  PROVE  1 \in DOMAIN kids /\ 2 \in DOMAIN kids /\ 3 \in DOMAIN kids
  BY KidsFacts

LEMMA OfNodeLocal ==
  ASSUME NEW N \in Nat, NEW node, Shaped(node), node.kids \in Seq(Null .. N - 1),
         NEW g, NEW h, \A k \in 0 .. N - 1 : g[k] = h[k]
  PROVE  OfNode(g, node) = OfNode(h, node)
<1> DEFINE kids == node.kids
<1>1. /\ Len(kids) \in Nat /\ DOMAIN kids = 1 .. Len(kids)
      /\ \A i \in DOMAIN kids : kids[i] = Null \/ kids[i] \in 0 .. N - 1
  BY KidsFacts
<1>2. \A i \in DOMAIN kids : Evaluated(g, kids[i]) = Evaluated(h, kids[i])
  BY <1>1 DEF Evaluated
<1>3. CASE node.op = "QMARK"
  <2>1. 1 \in DOMAIN kids /\ 2 \in DOMAIN kids /\ 3 \in DOMAIN kids
    <3>1. Len(kids) = 3
      BY <1>3 DEF Shaped, Sign, BinaryOps
    <3>2. QED
      BY <3>1, ThreeKids
  <2> DEFINE c == Evaluated(g, kids[1])
  <2>2. c = Evaluated(h, kids[1])
    BY <1>2, <2>1
  <2> HIDE DEF c
  <2>3. Selected(g, node, c) = Selected(h, node, c)
    <3>1. /\ Evaluated(g, kids[2]) = Evaluated(h, kids[2])
          /\ Evaluated(g, kids[3]) = Evaluated(h, kids[3])
      BY <1>2, <2>1
    <3>2. \A v : Selected(v, node, c) = IF IsFault(c) THEN c
                                        ELSE IF c.num # 0 THEN Evaluated(v, kids[2])
                                        ELSE Evaluated(v, kids[3])
      BY DEF Selected
    <3> HIDE DEF kids
    <3>3. QED
      BY <3>1, <3>2
  <2>4. /\ OfNode(g, node) = Selected(g, node, c)
        /\ OfNode(h, node) = Selected(h, node, c)
    <3>1. \A v : OfNode(v, node) = Selected(v, node, Evaluated(v, kids[1]))
      BY <1>3 DEF OfNode, Mismatch
    <3> HIDE DEF kids
    <3>2. QED
      BY <2>2, <3>1 DEF c
  <2>5. QED
    BY <2>3, <2>4
<1>4. CASE node.op # "QMARK"
  <2> DEFINE a(v) == [i \in DOMAIN kids |-> Evaluated(v, kids[i])]
  <2>1. a(g) = a(h)
    BY <1>2
  <2>2. \A v : OfNode(v, node) = CASE node.op = "LITERAL" -> Number(node.val)
                                   [] node.op = "BUILTINCONSTANT" -> Number(Symbols[node.sym].val)
                                   [] Mismatch(node) -> Fault("unregistered")
                                   [] OTHER -> Strict(node, a(v))
    BY <1>4 DEF OfNode
  <2> HIDE DEF a
  <2>3. QED
    BY <2>1, <2>2
<1>5. QED
  BY <1>3, <1>4

(* There are values such that each is that of its node.                    *)
Valued(pool, m, g) == g = [n \in 0 .. m - 1 |-> OfNode(g, Get(pool, n))]

LEMMA ValuesExist ==
  ASSUME NEW pool, PoolOK(pool)
  PROVE  \E g : Valued(pool, Count(pool), g)
<1> DEFINE N == Count(pool)
           T == {m \in 0 .. N : \E g : Valued(pool, m, g)}
<1>1. N \in Nat
  BY CountNat
<1>2. 0 \in T
  <2> DEFINE g == [n \in 0 .. 0 - 1 |-> 0]
  <2>1. \A f : [n \in 0 .. 0 - 1 |-> OfNode(f, Get(pool, n))] = g
    OBVIOUS
  <2>2. Valued(pool, 0, g)
    <3> HIDE DEF g
    <3>1. QED
      BY <2>1 DEF Valued
  <2>3. QED
    BY <1>1, <2>2
<1>3. ASSUME NEW m \in 0 .. N - 1, m \in T PROVE m + 1 \in T
  <2>1. PICK g : Valued(pool, m, g)
    BY <1>3
  <2> DEFINE h == [n \in 0 .. (m + 1) - 1 |-> OfNode(g, Get(pool, n))]
  <2>2. \A k \in 0 .. m - 1 : g[k] = OfNode(g, Get(pool, k))
    BY <2>1 DEF Valued
  <2>3. \A k \in 0 .. m - 1 : k \in 0 .. (m + 1) - 1
    BY <1>1
  <2>4. \A k \in 0 .. m - 1 : h[k] = g[k]
    BY <2>2, <2>3
  <2>5. ASSUME NEW n \in 0 .. (m + 1) - 1
        PROVE  OfNode(g, Get(pool, n)) = OfNode(h, Get(pool, n))
    <3> HIDE DEF h, N
    <3>1. n \in Nat /\ n \in 0 .. N - 1 /\ \A k \in 0 .. n - 1 : k \in 0 .. m - 1
      BY <1>1
    <3>2. Shaped(Get(pool, n)) /\ Get(pool, n).kids \in Seq(Null .. n - 1)
      BY <3>1 DEF PoolOK, N
    <3>3. QED
      BY <2>4, <3>1, <3>2, OfNodeLocal
  <2>6. Valued(pool, m + 1, h)
    <3>1. h = [n \in 0 .. (m + 1) - 1 |-> OfNode(h, Get(pool, n))]
      BY <2>5
    <3> HIDE DEF h
    <3>2. QED
      BY <3>1 DEF Valued
  <2>7. m + 1 \in 0 .. N
    BY <1>1
  <2> HIDE DEF h
  <2>8. QED
    BY <2>6, <2>7
<1> HIDE DEF T
<1>4. \A m \in 0 .. N : m \in T
  BY <1>1, <1>2, <1>3, UpTo
<1>5. N \in T
  BY <1>1, <1>4
<1>6. QED
  BY <1>5 DEF T

LEMMA OutcomesFacts ==
  ASSUME NEW pool, PoolOK(pool)
  PROVE  /\ DOMAIN Outcomes(pool) = 0 .. Count(pool) - 1
         /\ \A n \in 0 .. Count(pool) - 1 :
              Outcomes(pool)[n] = OfNode(Outcomes(pool), Get(pool, n))
<1> DEFINE v == Outcomes(pool)
<1>1. v = CHOOSE g : g = [n \in 0 .. Count(pool) - 1 |-> OfNode(g, Get(pool, n))]
  BY DEF Outcomes
<1>2. v = CHOOSE g : Valued(pool, Count(pool), g)
  BY <1>1 DEF Valued
<1> HIDE DEF v
<1>3. Valued(pool, Count(pool), v)
  BY <1>2, ValuesExist
<1>4. QED
  BY <1>3 DEF Valued, v

(* A number, or a fault.                                                   *)
IsOutcome(v) == v.kind \in Faults \cup {"number"}

LEMMA KindFacts ==
  /\ \A n : Number(n).kind = "number" /\ IsOutcome(Number(n)) /\ Number(n).num = n
  /\ \A k : Fault(k).kind = k
  /\ \A k \in Faults : IsOutcome(Fault(k)) /\ IsFault(Fault(k))
<1>1. \A n : Number(n).kind = "number" /\ Number(n).num = n
  BY DEF Number
<1>2. \A k : Fault(k).kind = k
  BY DEF Fault
<1>3. "number" \notin Faults
  BY DEF Faults
<1>4. QED
  BY <1>1, <1>2, <1>3 DEF IsOutcome, IsFault

LEMMA UnaryKinds ==
  ASSUME NEW op \in Sign \cup {"FACT"}, NEW x
  PROVE  IsOutcome(Unary(op, x))
<1>1. op = "ADD" \/ op = "SUB" \/ op = "NOT" \/ op = "FACT"
  BY DEF Sign
<1>2. QED
  BY <1>1, KindFacts DEF Unary

LEMMA BinaryKinds ==
  ASSUME NEW op \in BinaryOps, NEW x, NEW y
  PROVE  IsOutcome(Binary(op, x, y))
<1>1. /\ \A n : IsOutcome(Number(n))
      /\ IsOutcome(Fault("exit")) /\ IsOutcome(Fault("throw"))
  BY KindFacts DEF Faults
<1>2. IsOutcome(HugeShiftLeft(x)) /\ IsOutcome(HugeShiftRight(x))
  BY <1>1 DEF HugeShiftLeft, HugeShiftRight
<1>3. \A b : IsOutcome(Truth(b))
  BY <1>1 DEF Truth
<1>4. op \in {"OR", "XOR", "AND"} => IsOutcome(Binary(op, x, y))
  BY <1>1 DEF Binary
<1>5. op \in {"EQU", "NEQU", "LT", "LE", "GT", "GE"} => IsOutcome(Binary(op, x, y))
  BY <1>3 DEF Binary
<1>6. op \in {"ADD", "SUB", "MUL", "POW", "MOD"} => IsOutcome(Binary(op, x, y))
  BY <1>1 DEF Binary
<1>7. op \in {"DIV", "SHIFTLEFT", "SHIFTRIGHT"} => IsOutcome(Binary(op, x, y))
  BY <1>1, <1>2 DEF Binary
<1>8. QED
  BY <1>4, <1>5, <1>6, <1>7 DEF BinaryOps

LEMMA ApplyKinds ==
  ASSUME NEW node, Shaped(node), node.op \notin {"LITERAL", "BUILTINCONSTANT", "QMARK"},
         NEW args, Len(args) = Len(node.kids)
  PROVE  IsOutcome(Apply(node, args))
<1>1. CASE node.op = "BUILTINFUNC"
  <2>1. Apply(node, args) = NativeCall(args)
    BY <1>1 DEF Apply
  <2>2. QED
    BY <2>1, KindFacts DEF NativeCall
<1>2. CASE node.op \in Sign \cup {"FACT"} /\ Len(node.kids) = 1
  <2>1. Len(args) = 1 /\ node.op # "BUILTINFUNC"
    BY <1>2 DEF Sign
  <2>2. Apply(node, args) = Unary(node.op, args[1])
    BY <2>1 DEF Apply
  <2>3. QED
    BY <1>2, <2>2, UnaryKinds
<1>3. CASE node.op \in BinaryOps /\ Len(node.kids) = 2
  <2>1. Len(args) = 2 /\ node.op # "BUILTINFUNC"
    BY <1>3 DEF BinaryOps
  <2>2. Apply(node, args) = Binary(node.op, args[1], args[2])
    BY <2>1 DEF Apply
  <2>3. QED
    BY <1>3, <2>2, BinaryKinds
<1>4. QED
  BY <1>1, <1>2, <1>3 DEF Shaped

(* The first fault among the operands, if there is one.                    *)
LEMMA StrictFacts ==
  ASSUME NEW node, NEW n \in Nat, NEW outcomes, DOMAIN outcomes = 1 .. n
  PROVE  LET v == Strict(node, outcomes)
             args == [i \in 1 .. n |-> outcomes[i].num]
         IN  \/ \E i \in 1 .. n : IsFault(outcomes[i]) /\ v = outcomes[i]
             \/ (\A i \in 1 .. n : ~ IsFault(outcomes[i])) /\ v = Apply(node, args)
<1> DEFINE faulty == {i \in 1 .. n : IsFault(outcomes[i])}
           args == [i \in 1 .. n |-> outcomes[i].num]
<1>1. Strict(node, outcomes) = IF faulty # {} THEN outcomes[Min(faulty)] ELSE Apply(node, args)
  BY DEF Strict
<1>2. CASE faulty # {}
  <2>1. faulty \subseteq 0 .. n
    OBVIOUS
  <2>2. Min(faulty) \in faulty
    <3> HIDE DEF faulty
    <3>1. QED
      BY <1>2, <2>1, MinProperties
  <2>3. QED
    BY <1>1, <1>2, <2>2
<1>3. CASE faulty = {}
  BY <1>1, <1>3
<1>4. QED
  BY <1>2, <1>3

LEMMA OfNodeKinds ==
  ASSUME NEW N \in Nat, NEW node, Shaped(node), node.kids \in Seq(Null .. N - 1),
         NEW g, \A k \in 0 .. N - 1 : IsOutcome(g[k])
  PROVE  IsOutcome(OfNode(g, node))
<1> DEFINE kids == node.kids
           n == Len(kids)
           outcomes == [i \in 1 .. n |-> Evaluated(g, kids[i])]
<1>1. /\ n \in Nat /\ DOMAIN kids = 1 .. n
      /\ \A i \in 1 .. n : kids[i] = Null \/ kids[i] \in 0 .. N - 1
  BY KidsFacts
<1>2. \A i \in 1 .. n : IsOutcome(Evaluated(g, kids[i]))
  <2>1. IsOutcome(Fault("null"))
    BY KindFacts DEF Faults
  <2>2. QED
    BY <1>1, <2>1 DEF Evaluated
<1>3. CASE node.op \in {"LITERAL", "BUILTINCONSTANT"}
  <2>1. CASE node.op = "LITERAL"
    <3>1. OfNode(g, node) = Number(node.val)
      BY <2>1 DEF OfNode, Mismatch
    <3>2. QED
      BY <3>1, KindFacts
  <2>2. CASE node.op = "BUILTINCONSTANT"
    <3>1. OfNode(g, node) = Number(Symbols[node.sym].val)
      BY <2>2 DEF OfNode, Mismatch
    <3>2. QED
      BY <3>1, KindFacts
  <2>3. QED
    BY <1>3, <2>1, <2>2
<1>4. CASE node.op = "QMARK"
  <2>1. 1 \in 1 .. n /\ 2 \in 1 .. n /\ 3 \in 1 .. n
    <3>1. Len(kids) = 3
      BY <1>4 DEF Shaped, Sign, BinaryOps
    <3>2. QED
      BY <3>1, <1>1
  <2> DEFINE c == Evaluated(g, kids[1])
  <2>2. OfNode(g, node) = Selected(g, node, c)
    BY <1>4 DEF OfNode, Mismatch
  <2>3. Selected(g, node, c) = IF IsFault(c) THEN c
                               ELSE IF c.num # 0 THEN Evaluated(g, kids[2])
                               ELSE Evaluated(g, kids[3])
    BY DEF Selected
  <2>4. IsOutcome(c) /\ IsOutcome(Evaluated(g, kids[2])) /\ IsOutcome(Evaluated(g, kids[3]))
    BY <1>2, <2>1
  <2> HIDE DEF c, kids
  <2>5. QED
    BY <2>2, <2>3, <2>4
<1>5. CASE node.op \notin {"LITERAL", "BUILTINCONSTANT", "QMARK"}
  <2>1. OfNode(g, node) = IF Mismatch(node) THEN Fault("unregistered")
                          ELSE Strict(node, outcomes)
    BY <1>1, <1>5 DEF OfNode
  <2>2. IsOutcome(Fault("unregistered"))
    BY KindFacts DEF Faults
  <2>3. IsOutcome(Strict(node, outcomes))
    <3> DEFINE args == [i \in 1 .. n |-> outcomes[i].num]
               v == Strict(node, outcomes)
    <3>1. DOMAIN outcomes = 1 .. n /\ \A i \in 1 .. n : IsOutcome(outcomes[i])
      BY <1>2
    <3>2. Len(args) = n
      BY <1>1
    <3> HIDE DEF outcomes, n
    <3>3. \/ \E i \in 1 .. n : IsFault(outcomes[i]) /\ v = outcomes[i]
          \/ (\A i \in 1 .. n : ~ IsFault(outcomes[i])) /\ v = Apply(node, args)
      BY <1>1, <3>1, StrictFacts
    <3>4. IsOutcome(Apply(node, args))
      BY <1>5, <3>2, ApplyKinds DEF n
    <3> HIDE DEF args
    <3>5. QED
      BY <3>1, <3>3, <3>4
  <2>4. QED
    BY <2>1, <2>2, <2>3
<1>6. QED
  BY <1>3, <1>4, <1>5

(* Only a conditional has a value when one of its operands has none.       *)
LEMMA FaultsRise ==
  ASSUME NEW N \in Nat, NEW node, Shaped(node), node.kids \in Seq(Null .. N - 1),
         node.op # "QMARK", NEW g, NEW j \in DOMAIN node.kids,
         IsFault(Evaluated(g, node.kids[j]))
  PROVE  IsFault(OfNode(g, node))
<1> DEFINE kids == node.kids
           n == Len(kids)
           outcomes == [i \in 1 .. n |-> Evaluated(g, kids[i])]
<1>1. n \in Nat /\ DOMAIN kids = 1 .. n
  BY KidsFacts
<1>2. node.op \notin {"LITERAL", "BUILTINCONSTANT"}
  <2>1. SUFFICES ASSUME node.op \in {"LITERAL", "BUILTINCONSTANT"} PROVE FALSE
    OBVIOUS
  <2>2. kids = << >>
    BY <2>1 DEF Shaped, Sign, BinaryOps
  <2>3. QED
    BY <1>1, <2>2, EmptyFacts
<1>3. OfNode(g, node) = IF Mismatch(node) THEN Fault("unregistered")
                        ELSE Strict(node, outcomes)
  BY <1>1, <1>2 DEF OfNode
<1>4. IsFault(Fault("unregistered"))
  BY KindFacts DEF Faults
<1>5. IsFault(Strict(node, outcomes))
  <2> DEFINE args == [i \in 1 .. n |-> outcomes[i].num]
             v == Strict(node, outcomes)
  <2>1. DOMAIN outcomes = 1 .. n /\ j \in 1 .. n /\ IsFault(outcomes[j])
    BY <1>1
  <2> HIDE DEF outcomes, n
  <2>2. \/ \E i \in 1 .. n : IsFault(outcomes[i]) /\ v = outcomes[i]
        \/ (\A i \in 1 .. n : ~ IsFault(outcomes[i])) /\ v = Apply(node, args)
    BY <1>1, <2>1, StrictFacts
  <2>3. QED
    BY <2>1, <2>2
<1>6. QED
  BY <1>3, <1>4, <1>5

LEMMA OutcomesKinds ==
  ASSUME NEW pool, PoolOK(pool)
  PROVE  \A n \in 0 .. Count(pool) - 1 : IsOutcome(Outcomes(pool)[n])
<1> DEFINE N == Count(pool)
           v == Outcomes(pool)
           T == {m \in 0 .. N : \A n \in 0 .. m - 1 : IsOutcome(v[n])}
<1>1. N \in Nat
  BY CountNat
<1>2. \A n \in 0 .. N - 1 : v[n] = OfNode(v, Get(pool, n))
  BY OutcomesFacts
<1> HIDE DEF v, N
<1>3. 0 \in T
  BY <1>1
<1>4. ASSUME NEW m \in 0 .. N - 1, m \in T PROVE m + 1 \in T
  <2>1. \A n \in 0 .. m - 1 : IsOutcome(v[n])
    BY <1>4
  <2>2. Shaped(Get(pool, m)) /\ Get(pool, m).kids \in Seq(Null .. m - 1)
    BY <1>1 DEF PoolOK, N
  <2>3. IsOutcome(v[m])
    <3>1. m \in Nat
      OBVIOUS
    <3>2. IsOutcome(OfNode(v, Get(pool, m)))
      BY <2>1, <2>2, <3>1, OfNodeKinds
    <3>3. QED
      BY <1>2, <3>2
  <2>4. m + 1 \in 0 .. N /\ \A n \in 0 .. (m + 1) - 1 : n = m \/ n \in 0 .. m - 1
    BY <1>1
  <2>5. QED
    BY <2>1, <2>3, <2>4
<1> HIDE DEF T
<1>5. \A m \in 0 .. N : m \in T
  BY <1>1, <1>3, <1>4, UpTo
<1>6. N \in T
  BY <1>1, <1>5
<1>7. QED
  BY <1>6 DEF T, v, N

(* eval and peval end in a number or a fault.                              *)
LEMMA OutcomeFacts ==
  ASSUME NEW ts, NEW p, PoolOK(p.pool), p.node \in Null .. Count(p.pool) - 1
  PROVE  IsOutcome(EvalOutcome(ts, p)) /\ IsOutcome(PevalOutcome(ts, p))
<1> DEFINE v == Outcomes(p.pool)
           n == p.node
<1>1. IsOutcome(Rejected(ts, p)) /\ IsFault(Rejected(ts, p))
  BY KindFacts DEF Rejected, Faults
<1>2. n # Null => n \in 0 .. Count(p.pool) - 1
  BY CountNat DEF Null
<1>3. n # Null => IsOutcome(v[n])
  BY <1>2, OutcomesKinds
<1>4. n # Null => Evaluated(v, n) = v[n]
  BY DEF Evaluated
<1>5. /\ EvalOutcome(ts, p) = IF Overrun(ts, p) \/ n = Null THEN Rejected(ts, p)
                              ELSE Evaluated(v, n)
      /\ PevalOutcome(ts, p) = IF Overrun(ts, p) \/ n = Null THEN Rejected(ts, p)
                               ELSE IF HasNull(p.pool) THEN Fault("null")
                               ELSE OfAllNodes(v, n)
  BY DEF EvalOutcome, PevalOutcome
<1>6. n # Null => IsOutcome(OfAllNodes(v, n))
  <2>1. HAVE n # Null
  <2>2. /\ IsOutcome(Fault("unregistered")) /\ IsOutcome(Fault("exit")) /\ IsOutcome(Fault("hang"))
    BY KindFacts DEF Faults
  <2> HIDE DEF v, n
  <2>3. QED
    BY <1>3, <2>1, <2>2 DEF OfAllNodes
<1>7. IsOutcome(Fault("null"))
  BY KindFacts DEF Faults
<1> HIDE DEF v, n
<1>8. QED
  BY <1>1, <1>3, <1>4, <1>5, <1>6, <1>7

(* When the parser has ended with a root, every node is below it.          *)
Ended(ts, p) == State(ts, p) /\ p.at = "return" /\ p.calls = << >>

LEMMA EndedFacts ==
  ASSUME NEW ts, NEW p, Ended(ts, p)
  PROVE  /\ Good(ts, p, <<p.node>>) /\ PoolOK(p.pool) /\ Count(p.pool) \in Nat
         /\ p.node \in Null .. Count(p.pool) - 1
         /\ p.err => p.node = Null
         /\ p.err \in BOOLEAN
<1>1. Good(ts, p, <<p.node>>) /\ (p.err => p.node = Null)
  BY DEF Ended, State
<1>2. QED
  BY <1>1, GoodCounts DEF Good

Rooted(pool, root) ==
  LET N == Count(pool)
      kids(n) == Get(pool, n).kids
  IN  /\ root = N - 1 /\ N \in Nat \ {0}
      /\ \A n, m \in 0 .. N - 1 : \A i \in DOMAIN kids(n), j \in DOMAIN kids(m) :
           kids(n)[i] = kids(m)[j] => kids(n)[i] = Null \/ (n = m /\ i = j)
      /\ \A c \in 0 .. N - 1 : c # root =>
           \E n \in 0 .. N - 1 : \E i \in DOMAIN kids(n) : kids(n)[i] = c

LEMMA RootFacts ==
  ASSUME NEW ts, NEW p, Ended(ts, p), p.node # Null
  PROVE  Rooted(p.pool, p.node)
<1> DEFINE N == Count(p.pool)
           root == <<p.node>>
           A == Rows(p.pool, << >>, root)
           kids(n) == Get(p.pool, n).kids
<1>1. Good(ts, p, root) /\ PoolOK(p.pool) /\ N \in Nat /\ p.node \in Null .. N - 1 /\ ~ p.err
  BY EndedFacts
<1>2. p.node \in 0 .. N - 1 /\ N \in Nat \ {0}
  BY <1>1 DEF Null
<1>3. Forest(N, 0 + 1, A)
  <2>1. p.calls = << >>
    BY DEF Ended
  <2> HIDE DEF root
  <2>2. QED
    BY <1>1, <2>1, EmptyFacts DEF Good
<1>4. /\ \A i \in 0 .. N - 1 : A[i] = kids(i)
      /\ A[- (0 + 1)] = root
  <2> HIDE DEF root
  <2>1. QED
    BY <1>1, EmptyFacts, RowsFacts
<1>5. DOMAIN root = {1} /\ root[1] = p.node
  OBVIOUS
<1>6. \A c \in 0 .. N - 1 : c # p.node =>
        \E n \in 0 .. N - 1 : \E i \in DOMAIN kids(n) : kids(n)[i] = c
  <2>1. TAKE c \in 0 .. N - 1
  <2>2. HAVE c # p.node
  <2> HIDE DEF A, N
  <2>3. PICK i \in - (0 + 1) .. N - 1 : \E a \in DOMAIN A[i] : A[i][a] = c
    BY <1>3 DEF Forest
  <2>4. i # - (0 + 1)
    <3> HIDE DEF root
    <3>1. QED
      BY <1>4, <1>5, <2>2, <2>3
  <2>5. i \in 0 .. N - 1
    BY <1>1, <2>4
  <2>6. QED
    BY <1>4, <2>3, <2>5
<1>7. \A n, m \in 0 .. N - 1 : \A i \in DOMAIN kids(n), j \in DOMAIN kids(m) :
        kids(n)[i] = kids(m)[j] => kids(n)[i] = Null \/ (n = m /\ i = j)
  <2>1. TAKE n, m \in 0 .. N - 1
  <2>2. n \in - (0 + 1) .. N - 1 /\ m \in - (0 + 1) .. N - 1
    BY <1>1
  <2>3. A[n] = kids(n) /\ A[m] = kids(m)
    BY <1>4
  <2> HIDE DEF A, N, kids
  <2>4. QED
    BY <1>3, <2>2, <2>3 DEF Forest
<1>8. p.node = N - 1
  <2>1. SUFFICES ASSUME p.node # N - 1 PROVE FALSE
    OBVIOUS
  <2>2. N - 1 \in 0 .. N - 1
    BY <1>2
  <2>3. PICK n \in 0 .. N - 1 : \E i \in DOMAIN kids(n) : kids(n)[i] = N - 1
    BY <1>6, <2>1, <2>2
  <2>4. n \in Nat /\ kids(n) \in Seq(Null .. n - 1)
    BY <1>1 DEF PoolOK
  <2>5. PICK i \in DOMAIN kids(n) : kids(n)[i] = N - 1
    BY <2>3
  <2> DEFINE k == kids(n)
  <2> HIDE DEF kids, N
  <2>6. k[i] = Null \/ k[i] \in 0 .. n - 1
    BY <2>4, <2>5, KidsFacts
  <2> HIDE DEF k
  <2>7. k[i] = N - 1
    BY <2>5 DEF k
  <2>8. QED
    BY <1>2, <2>4, <2>6, <2>7 DEF Null
<1>9. QED
  BY <1>2, <1>6, <1>7, <1>8 DEF Rooted

LEMMA CardinalityUpTo ==
  ASSUME NEW N \in Nat \ {0}
  PROVE  Cardinality(0 .. N - 1) = N
<1>1. 0 \in Int /\ N - 1 \in Int /\ ~(0 > N - 1) /\ (N - 1) - 0 + 1 = N
  OBVIOUS
<1>2. QED
  BY <1>1, FS_Interval

LEMMA EndsInTree ==
  ASSUME NEW ts, NEW p, Ended(ts, p), p.node # Null, ~ HasNull(p.pool)
  PROVE  IsTree(Children(p.pool))
<1> DEFINE N == Count(p.pool)
           kids(n) == Get(p.pool, n).kids
           children == Children(p.pool)
<1>1. /\ p.node = N - 1 /\ N \in Nat \ {0}
      /\ \A n, m \in 0 .. N - 1 : \A i \in DOMAIN kids(n), j \in DOMAIN kids(m) :
           kids(n)[i] = kids(m)[j] => kids(n)[i] = Null \/ (n = m /\ i = j)
      /\ \A c \in 0 .. N - 1 : c # p.node =>
           \E n \in 0 .. N - 1 : \E i \in DOMAIN kids(n) : kids(n)[i] = c
  <2>1. Rooted(p.pool, p.node)
    BY RootFacts
  <2>2. QED
    BY <2>1 DEF Rooted
<1>2. \A n \in 0 .. N - 1 : \A i \in DOMAIN kids(n) : kids(n)[i] # Null
  BY DEF HasNull
<1>3. DOMAIN children = 0 .. N - 1 /\ \A n \in 0 .. N - 1 : children[n] = kids(n)
  BY DEF Children
<1>4. \A n \in 0 .. N - 1 : kids(n) \in Seq(0 .. n - 1)
  <2>1. TAKE n \in 0 .. N - 1
  <2>2. PoolOK(p.pool)
    BY EndedFacts
  <2>3. n \in Nat /\ kids(n) \in Seq(Null .. n - 1)
    BY <1>1, <2>2 DEF PoolOK
  <2> DEFINE k == kids(n)
  <2>4. /\ Len(k) \in Nat /\ DOMAIN k = 1 .. Len(k)
        /\ \A i \in DOMAIN k : k[i] = Null \/ k[i] \in 0 .. n - 1
    BY <2>3, KidsFacts
  <2>5. \A i \in 1 .. Len(k) : k[i] \in 0 .. n - 1
    BY <1>2, <2>4
  <2>6. k = [i \in 1 .. Len(k) |-> k[i]]
    BY <2>3
  <2> DEFINE S == 0 .. n - 1
  <2> HIDE DEF k, S
  <2>7. k \in Seq(S)
    BY <2>4, <2>5, <2>6 DEF S
  <2>8. QED
    BY <2>7 DEF k, S
<1>5. Cardinality(DOMAIN children) - 1 = N - 1
  BY <1>1, <1>3, CardinalityUpTo
<1>6. DOMAIN children # {}
  BY <1>1, <1>3
<1>7. \A n, m \in DOMAIN children : \A i \in DOMAIN children[n], j \in DOMAIN children[m] :
        children[n][i] = children[m][j] => n = m /\ i = j
  <2> HIDE DEF N, kids, children
  <2>1. QED
    BY <1>1, <1>2, <1>3
<1>8. \A c \in DOMAIN children \ {N - 1} :
        \E n \in DOMAIN children : \E i \in DOMAIN children[n] : children[n][i] = c
  <2> HIDE DEF N, kids, children
  <2>1. QED
    BY <1>1, <1>3
<1>9. \A n \in DOMAIN children : children[n] \in Seq(0 .. n - 1)
  <2> HIDE DEF N, kids, children
  <2>1. QED
    BY <1>3, <1>4
<1> HIDE DEF children, N, kids
<1>10. QED
  BY <1>3, <1>5, <1>6, <1>7, <1>8, <1>9 DEF IsTree, children

-----------------------------------------------------------------------------
(* What has no value keeps the root from having one, unless a conditional  *)
(* passes it by.                                                           *)
LEMMA FaultsReachTheRoot ==
  ASSUME NEW ts, NEW p, Ended(ts, p), p.node # Null, ~ HasChoice(p.pool),
         NEW m \in 0 .. Count(p.pool) - 1,
         \/ IsFault(Outcomes(p.pool)[m])
         \/ \E i \in DOMAIN Get(p.pool, m).kids : Get(p.pool, m).kids[i] = Null
  PROVE  IsFault(Outcomes(p.pool)[p.node])
<1> DEFINE N == Count(p.pool)
           v == Outcomes(p.pool)
           kids(n) == Get(p.pool, n).kids
           T == {d \in 0 .. N - 1 : IsFault(v[(N - 1) - d])}
<1>1. /\ p.node = N - 1 /\ N \in Nat \ {0}
      /\ \A c \in 0 .. N - 1 : c # p.node =>
           \E n \in 0 .. N - 1 : \E i \in DOMAIN kids(n) : kids(n)[i] = c
  BY RootFacts DEF Rooted
<1>2. \A n \in 0 .. N - 1 : v[n] = OfNode(v, Get(p.pool, n))
  BY EndedFacts, OutcomesFacts
<1>3. ASSUME NEW n \in 0 .. N - 1
      PROVE  /\ n \in Nat /\ Shaped(Get(p.pool, n)) /\ kids(n) \in Seq(Null .. n - 1)
             /\ Get(p.pool, n).op # "QMARK"
  <2>1. PoolOK(p.pool)
    BY EndedFacts
  <2>2. n \in Nat
    BY <1>1
  <2>3. Shaped(Get(p.pool, n)) /\ kids(n) \in Seq(Null .. n - 1)
    BY <2>1 DEF PoolOK
  <2>4. Get(p.pool, n).op # "QMARK"
    BY DEF HasChoice
  <2>5. QED
    BY <2>2, <2>3, <2>4
<1>4. ASSUME NEW n \in 0 .. N - 1, NEW i \in DOMAIN kids(n), IsFault(Evaluated(v, kids(n)[i]))
      PROVE  IsFault(v[n])
  <2>1. IsFault(OfNode(v, Get(p.pool, n)))
    <3> HIDE DEF v, N
    <3>1. QED
      BY <1>3, <1>4, FaultsRise
  <2> HIDE DEF v, N
  <2>2. QED
    BY <1>2, <2>1
<1>5. \E n \in 0 .. N - 1 : IsFault(v[n])
  <2>1. CASE IsFault(v[m])
    BY <2>1
  <2>2. CASE \E i \in DOMAIN kids(m) : kids(m)[i] = Null
    <3>1. PICK i \in DOMAIN kids(m) : kids(m)[i] = Null
      BY <2>2
    <3>2. IsFault(Evaluated(v, kids(m)[i]))
      <4>1. IsFault(Fault("null"))
        BY KindFacts DEF Faults
      <4>2. QED
        BY <3>1, <4>1 DEF Evaluated
    <3>3. QED
      BY <1>4, <3>2
  <2>3. QED
    BY <2>1, <2>2
<1> HIDE DEF v, kids, N
<1>6. T # {} /\ T \subseteq 0 .. N - 1
  <2>1. PICK n \in 0 .. N - 1 : IsFault(v[n])
    BY <1>5
  <2>2. (N - 1) - n \in 0 .. N - 1 /\ (N - 1) - ((N - 1) - n) = n
    BY <1>1
  <2>3. (N - 1) - n \in T
    BY <2>1, <2>2
  <2>4. QED
    BY <2>3
<1>7. Min(T) \in T /\ \A d \in T : Min(T) <= d
  <2>1. N - 1 \in Nat
    BY <1>1
  <2> HIDE DEF T
  <2>2. QED
    BY <1>6, <2>1, MinProperties
<1> DEFINE last == (N - 1) - Min(T)
<1>8. last \in 0 .. N - 1 /\ IsFault(v[last]) /\ \A n \in 0 .. N - 1 : IsFault(v[n]) => n <= last
  <2> DEFINE d == Min(T)
  <2>1. d \in 0 .. N - 1 /\ IsFault(v[(N - 1) - d])
    BY <1>7
  <2>2. ASSUME NEW n \in 0 .. N - 1, IsFault(v[n]) PROVE d <= (N - 1) - n
    <3>1. (N - 1) - n \in 0 .. N - 1 /\ (N - 1) - ((N - 1) - n) = n
      BY <1>1
    <3>2. (N - 1) - n \in T
      BY <2>2, <3>1
    <3> HIDE DEF T
    <3>3. QED
      BY <1>7, <3>2
  <2> HIDE DEF d
  <2>3. (N - 1) - d \in 0 .. N - 1 /\ \A n \in 0 .. N - 1 : IsFault(v[n]) => n <= (N - 1) - d
    BY <1>1, <2>1, <2>2
  <2>4. QED
    BY <2>1, <2>3 DEF d
<1> HIDE DEF last, T
<1>9. last = p.node
  <2>1. SUFFICES ASSUME last # p.node PROVE FALSE
    OBVIOUS
  <2>2. PICK n \in 0 .. N - 1 : \E i \in DOMAIN kids(n) : kids(n)[i] = last
    BY <1>1, <1>8, <2>1
  <2>3. PICK i \in DOMAIN kids(n) : kids(n)[i] = last
    BY <2>2
  <2>4. IsFault(v[n])
    <3>1. last # Null
      BY <1>8 DEF Null
    <3>2. Evaluated(v, last) = v[last]
      BY <3>1 DEF Evaluated
    <3>3. QED
      BY <1>4, <1>8, <2>3, <3>2
  <2>5. last \in 0 .. n - 1
    <3> DEFINE k == kids(n)
    <3>1. n \in Nat /\ k \in Seq(Null .. n - 1)
      BY <1>3
    <3>2. i \in DOMAIN k /\ k[i] = last
      BY <2>3
    <3> HIDE DEF k
    <3>3. k[i] = Null \/ k[i] \in 0 .. n - 1
      BY <3>1, <3>2, KidsFacts
    <3>4. QED
      BY <1>8, <3>2, <3>3 DEF Null
  <2>6. QED
    BY <1>8, <2>4, <2>5
<1>10. QED
  BY <1>8, <1>9 DEF v

(* peval gives eval's number or a fault, and a fault only if eval does, or *)
(* there is a conditional.                                                 *)
LEMMA OutcomesAgree ==
  ASSUME NEW ts, NEW p, Ended(ts, p)
  PROVE  LET e == EvalOutcome(ts, p)
             r == PevalOutcome(ts, p)
         IN  /\ r.kind = "number" => e = r
             /\ e.kind = "number" /\ ~ HasChoice(p.pool) => r = e
<1> DEFINE e == EvalOutcome(ts, p)
           r == PevalOutcome(ts, p)
           v == Outcomes(p.pool)
           root == p.node
           N == Count(p.pool)
<1>1. CASE Overrun(ts, p) \/ p.node = Null
  BY <1>1 DEF EvalOutcome, PevalOutcome
<1>2. CASE ~(Overrun(ts, p) \/ p.node = Null)
  <2>1. e = v[root] /\ r = IF HasNull(p.pool) THEN Fault("null") ELSE OfAllNodes(v, root)
    BY <1>2 DEF EvalOutcome, PevalOutcome, Evaluated
  <2>2. PoolOK(p.pool) /\ N \in Nat /\ root \in 0 .. N - 1
    <3>1. PoolOK(p.pool) /\ N \in Nat /\ root \in Null .. N - 1
      BY EndedFacts
    <3> HIDE DEF N
    <3>2. QED
      BY <1>2, <3>1 DEF Null
  <2>3. DOMAIN v = 0 .. N - 1
    BY <2>2, OutcomesFacts
  <2>4. IsFault(Fault("null")) /\ IsFault(Fault("unregistered")) /\ IsFault(Fault("exit"))
        /\ IsFault(Fault("hang"))
    BY KindFacts DEF Faults
  <2>5. ~ HasChoice(p.pool) /\ e.kind = "number" =>
          ~ HasNull(p.pool) /\ \A n \in 0 .. N - 1 : v[n].kind = "number"
    <3>1. SUFFICES ASSUME ~ HasChoice(p.pool), ~ IsFault(v[root])
                   PROVE  ~ HasNull(p.pool) /\ \A n \in 0 .. N - 1 : ~ IsFault(v[n])
      BY <2>1 DEF IsFault
    <3>2. ~ HasNull(p.pool)
      BY <1>2, <3>1, FaultsReachTheRoot DEF HasNull
    <3>3. \A n \in 0 .. N - 1 : ~ IsFault(v[n])
      BY <1>2, <3>1, FaultsReachTheRoot
    <3>4. QED
      BY <3>2, <3>3
  <2> HIDE DEF e, r, v, root, N
  <2>6. r.kind = "number" => e = r
    <3>1. HAVE r.kind = "number"
    <3>2. ~ IsFault(r)
      BY <3>1 DEF IsFault
    <3>3. r = OfAllNodes(v, root)
      BY <2>1, <2>4, <3>2
    <3>4. r = v[root]
      BY <2>4, <3>2, <3>3 DEF OfAllNodes
    <3>5. QED
      BY <2>1, <3>4
  <2>7. e.kind = "number" /\ ~ HasChoice(p.pool) => r = e
    <3>1. HAVE e.kind = "number" /\ ~ HasChoice(p.pool)
    <3>2. ~ HasNull(p.pool) /\ \A n \in DOMAIN v : v[n].kind = "number"
      BY <2>3, <2>5, <3>1
    <3>3. OfAllNodes(v, root) = v[root]
      <4>1. v[root].kind = "number"
        BY <2>1, <3>1
      <4>2. "unregistered" \notin {v[n].kind : n \in DOMAIN v}
            /\ "exit" \notin {v[n].kind : n \in DOMAIN v}
        BY <3>2
      <4>3. QED
        BY <4>1, <4>2 DEF OfAllNodes
    <3>4. QED
      BY <2>1, <3>2, <3>3
  <2>8. QED
    BY <2>6, <2>7 DEF e, r
<1>3. QED
  BY <1>1, <1>2

-----------------------------------------------------------------------------
(* The invariant.                                                          *)
Scans == pc \in {"scan", "close"} => parsed = Start /\ error = "none"
Parses == pc \in {"parse", "parsed", "eval", "peval"} =>
            State(tokens, parsed) /\ (Closed(tokens) \/ error = "LITERAL2NUM_ERROR")
Ends == Scanned => Ended(tokens, parsed)

Inv == /\ IsSeq(text) /\ IsSeq(tokens)
       /\ pos \in 1 .. Len(text) + 1
       /\ pc \in {"scan", "close", "parse", "parsed", "eval", "peval"}
       /\ Scans /\ Parses /\ Ends
       /\ IsOutcome(result)
       /\ pc = "peval" => result = PevalOutcome(tokens, parsed)

LEMMA InitInv == Init => Inv
<1>1. SUFFICES ASSUME NEW str \in Seq(STRING), Begin(str) PROVE Inv
  BY DEF Init
<1>2. IsSeq(text) /\ Len(text) \in Nat
  BY <1>1 DEF Begin, IsSeq
<1>3. tokens = << >> /\ IsSeq(<< >>)
  BY <1>1, EmptyFacts DEF Begin
<1>4. pc \in {"scan", "close"} /\ pos = 1 /\ parsed = Start /\ error = "none"
  BY <1>1 DEF Begin, Scanning
<1>5. IsOutcome(result)
  BY <1>1, KindFacts DEF Begin
<1>6. 1 \in 1 .. Len(text) + 1
  BY <1>2
<1>7. Scans /\ Parses /\ Ends
  BY <1>4 DEF Scans, Parses, Ends, Scanned
<1>8. QED
  BY <1>2, <1>3, <1>4, <1>5, <1>6, <1>7 DEF Inv

(* What follows a call of a function of the parser.                        *)
LEMMA ParsingInv ==
  ASSUME NEW p, Inv, Parsing(p), State(tokens, p)
  PROVE  Inv'
<1>1. pc = "parse" /\ parsed' = p
  BY DEF Parsing
<1>2. UNCHANGED <<text, pos, tokens, error, pc, result>>
  BY DEF Parsing
<1>3. Scans' /\ Ends'
  BY <1>1, <1>2 DEF Scans, Ends, Scanned
<1>4. Closed(tokens) \/ error = "LITERAL2NUM_ERROR"
  BY <1>1 DEF Inv, Parses
<1>5. Parses'
  BY <1>1, <1>2, <1>4 DEF Parses
<1>6. QED
  BY <1>1, <1>2, <1>3, <1>5 DEF Inv

LEMMA NextInv == Inv /\ [Next]_vars => Inv'
<1>1. SUFFICES ASSUME Inv, [Next]_vars PROVE Inv'
  OBVIOUS
<1>2. /\ IsSeq(text) /\ IsSeq(tokens) /\ pos \in 1 .. Len(text) + 1 /\ IsOutcome(result)
      /\ Len(text) \in Nat
  BY <1>1, SeqFacts DEF Inv
<1>3. pc = "parse" => State(tokens, parsed) /\ (Closed(tokens) \/ error = "LITERAL2NUM_ERROR")
  BY <1>1 DEF Inv, Parses
<1>4. pc \in {"scan", "close"} => parsed = Start /\ error = "none"
  BY <1>1 DEF Inv, Scans
<1>5. pc = "parsed" => /\ Ended(tokens, parsed) /\ State(tokens, parsed)
                       /\ Closed(tokens) \/ error = "LITERAL2NUM_ERROR"
  BY <1>1 DEF Inv, Parses, Ends, Scanned
<1>6. CASE SkipWhiteChar
  <2>1. /\ pc = "scan" /\ pos' = Past(text, pos + 1)
        /\ UNCHANGED <<text, tokens, error, pc, parsed, result>>
    BY <1>6 DEF SkipWhiteChar
  <2>2. pos + 1 \in Nat \ {0}
    BY <1>2
  <2>3. pos' \in 1 .. Len(text) + 1
    BY <1>2, <2>1, <2>2, PastFacts
  <2>4. Scans' /\ Parses' /\ Ends'
    BY <1>4, <2>1 DEF Scans, Parses, Ends, Scanned
  <2>5. QED
    BY <1>2, <2>1, <2>3, <2>4 DEF Inv
<1>7. CASE ReadToken
  <2> DEFINE t == NextToken(text, pos)
  <2>1. /\ pc = "scan" /\ Peek(text, pos) \notin Blank
        /\ tokens' = Append(tokens, t.token) /\ pos' = t.pos /\ error' = t.status
        /\ pc' = IF t.status # "none" THEN "parse"
                 ELSE IF t.pos > Len(text) THEN "close" ELSE "scan"
        /\ UNCHANGED <<text, parsed, result>>
    BY <1>7 DEF ReadToken
  <2>2. pos \in 1 .. Len(text)
    <3>1. ~(pos > Len(text))
      BY <2>1 DEF Peek, Blank
    <3>2. QED
      BY <1>2, <3>1
  <2>3. Read(text, t)
    BY <1>2, <2>2, NextTokenFacts
  <2> HIDE DEF t
  <2>4. /\ t.pos \in 1 .. Len(text) + 1
        /\ t.status \in {"none", "LITERAL2NUM_ERROR"} \/ t.token.type = "INVALID"
    BY <2>3 DEF Read
  <2>5. /\ IsSeq(tokens') /\ Len(tokens') = Len(tokens) + 1 /\ Len(tokens) \in Nat
        /\ tokens'[Len(tokens) + 1] = t.token
    BY <1>2, <2>1, SeqFacts, AppendFacts
  <2>6. parsed' = Start /\ State(tokens', Start)
    BY <1>4, <2>1, <2>5, StartStep
  <2>7. \/ pc' \in {"scan", "close"} /\ t.status = "none"
        \/ pc' = "parse" /\ t.status # "none"
    <3>1. CASE t.status = "none"
      <4>1. pc' = IF t.pos > Len(text) THEN "close" ELSE "scan"
        BY <2>1, <3>1
      <4>2. QED
        BY <3>1, <4>1
    <3>2. CASE t.status # "none"
      BY <2>1, <3>2
    <3>3. QED
      BY <3>1, <3>2
  <2>8. pc' = "parse" => Closed(tokens') \/ error' = "LITERAL2NUM_ERROR"
    <3>1. HAVE pc' = "parse"
    <3>2. t.token.type = "INVALID" \/ t.status = "LITERAL2NUM_ERROR"
      BY <2>4, <2>7, <3>1
    <3>3. t.token.type = "INVALID" => Closed(tokens')
      <4> DEFINE ts == tokens'
      <4>1. ts[Len(ts)] = t.token /\ Len(ts) > 0
        BY <2>5
      <4> HIDE DEF ts
      <4>2. t.token.type = "INVALID" => Closed(ts)
        BY <4>1 DEF Closed
      <4>3. QED
        BY <4>2 DEF ts
    <3>4. QED
      BY <2>1, <3>2, <3>3
  <2>9. Scans' /\ Parses' /\ Ends'
    BY <2>1, <2>6, <2>7, <2>8 DEF Scans, Parses, Ends, Scanned
  <2>10. QED
    BY <1>2, <2>1, <2>4, <2>5, <2>7, <2>9 DEF Inv
<1>8. CASE Close
  <2>1. /\ pc = "close" /\ tokens' = Append(tokens, Invalid) /\ pc' = "parse"
        /\ UNCHANGED <<text, pos, error, parsed, result>>
    BY <1>8 DEF Close
  <2>2. /\ IsSeq(tokens') /\ Len(tokens') = Len(tokens) + 1 /\ Len(tokens) \in Nat
        /\ tokens'[Len(tokens) + 1] = Invalid
    BY <1>2, <2>1, SeqFacts, AppendFacts
  <2>3. State(tokens', parsed')
    BY <1>4, <2>1, <2>2, StartStep
  <2>4. Closed(tokens')
    <3> DEFINE ts == tokens'
    <3>1. ts[Len(ts)] = Invalid /\ Len(ts) > 0
      BY <2>2
    <3> HIDE DEF ts
    <3>2. Closed(ts)
      BY <3>1, InvalidFacts DEF Closed
    <3>3. QED
      BY <3>2 DEF ts
  <2>5. Scans' /\ Parses' /\ Ends'
    BY <2>1, <2>3, <2>4 DEF Scans, Parses, Ends, Scanned
  <2>6. QED
    BY <1>2, <2>1, <2>2, <2>5 DEF Inv
<1>9. CASE ParseSign
  BY <1>1, <1>3, <1>9, SignStep, ParsingInv DEF ParseSign, Parsing
<1>10. CASE ParsePrim
  BY <1>1, <1>3, <1>10, PrimStep, ParsingInv DEF ParsePrim, Parsing
<1>11. CASE ParseFuncCall
  BY <1>1, <1>3, <1>11, FuncCallStep, ParsingInv DEF ParseFuncCall, Parsing
<1>12. CASE ParseArgument
  BY <1>1, <1>3, <1>12, ArgumentStep, ParsingInv DEF ParseArgument, Parsing, Returned
<1>13. CASE ParseBracket
  BY <1>1, <1>3, <1>13, BracketStep, ParsingInv DEF ParseBracket, Parsing, Returned
<1>14. CASE ParsePostfixOp
  BY <1>1, <1>3, <1>14, PostfixOpStep, ParsingInv DEF ParsePostfixOp, Parsing, Returned
<1>15. CASE ParseUnaryOp
  BY <1>1, <1>3, <1>15, UnaryOpStep, ParsingInv DEF ParseUnaryOp, Parsing, Returned
<1>16. CASE ParseBinaryOp
  BY <1>1, <1>3, <1>16, BinaryOpStep, ParsingInv DEF ParseBinaryOp, Parsing, Returned
<1>17. CASE ParseConditional
  BY <1>1, <1>3, <1>17, ConditionalStep, ParsingInv DEF ParseConditional, Parsing, Returned
<1>18. CASE Parsed
  <2>1. /\ pc = "parse" /\ pc' = "parsed" /\ parsed.at = "return" /\ parsed.calls = << >>
        /\ UNCHANGED <<text, pos, tokens, error, parsed, result>>
    BY <1>18 DEF Parsed
  <2>2. State(tokens, parsed) /\ (Closed(tokens) \/ error = "LITERAL2NUM_ERROR")
    BY <1>3, <2>1
  <2>3. Ended(tokens, parsed)
    BY <2>1, <2>2 DEF Ended
  <2>4. Scans' /\ Parses' /\ Ends'
    BY <2>1, <2>2, <2>3 DEF Scans, Parses, Ends, Scanned
  <2>5. QED
    BY <1>2, <2>1, <2>4 DEF Inv
<1>19. CASE Evaluate \/ EvaluateInParallel
  <2>1. /\ pc = "parsed"
        /\ \/ pc' = "eval" /\ result' = EvalOutcome(tokens, parsed)
           \/ pc' = "peval" /\ result' = PevalOutcome(tokens, parsed)
        /\ UNCHANGED <<text, pos, tokens, error, parsed>>
    BY <1>19 DEF Evaluate, EvaluateInParallel
  <2>2. IsOutcome(EvalOutcome(tokens, parsed)) /\ IsOutcome(PevalOutcome(tokens, parsed))
    <3>1. PoolOK(parsed.pool) /\ parsed.node \in Null .. Count(parsed.pool) - 1
      BY <1>5, <2>1, EndedFacts
    <3>2. QED
      BY <3>1, OutcomeFacts
  <2>3. IsOutcome(result') /\ (pc' = "peval" => result' = PevalOutcome(tokens, parsed))
    BY <2>1, <2>2
  <2>4. Scans' /\ Parses' /\ Ends'
    BY <1>5, <2>1 DEF Scans, Parses, Ends, Scanned
  <2>5. IsSeq(text') /\ IsSeq(tokens') /\ pos' \in 1 .. Len(text') + 1
    BY <1>2, <2>1
  <2>6. QED
    BY <2>1, <2>3, <2>4, <2>5 DEF Inv
<1>20. CASE UNCHANGED vars
  BY <1>1, <1>20 DEF vars, Inv, Scans, Parses, Ends, Scanned
<1>21. QED
  BY <1>1, <1>6, <1>7, <1>8, <1>9, <1>10, <1>11, <1>12, <1>13, <1>14, <1>15, <1>16, <1>17,
     <1>18, <1>19, <1>20 DEF Next, Parse

LEMMA AlwaysInv == Spec => []Inv
  BY InitInv, NextInv, PTL DEF Spec

-----------------------------------------------------------------------------
LEMMA StateFacts ==
  ASSUME NEW ts, NEW p, State(ts, p)
  PROVE  /\ p.node \in Null .. Count(p.pool) - 1
         /\ Len(p.pool.buf) <= InitBufSize
         /\ p.at \in {"operand", "arguments", "return"}
<1>1. \E now : Good(ts, p, now)
  BY DEF State
<1>2. p.at \in {"operand", "arguments", "return"}
  BY DEF State
<1>3. QED
  BY <1>1, <1>2 DEF Good, PoolOK

(* For every text, every table of symbols and every size of the array: the *)
(* stream's position stays in the text, the pool's array never overflows   *)
(* (NodePool::newNode), and an evaluation ends in a number or in one of    *)
(* the failures that are listed.                                           *)
THEOREM EvalTyped == Spec => []TypeOK
<1>1. Inv => TypeOK
  <2>1. SUFFICES ASSUME Inv PROVE TypeOK
    OBVIOUS
  <2>2. State(tokens, parsed)
    <3>1. CASE pc \in {"scan", "close"}
      BY <2>1, <3>1, StartStep DEF Inv, Scans
    <3>2. CASE pc \in {"parse", "parsed", "eval", "peval"}
      BY <2>1, <3>2 DEF Inv, Parses
    <3>3. QED
      BY <2>1, <3>1, <3>2 DEF Inv
  <2>3. /\ parsed.node \in Null .. Count(parsed.pool) - 1
        /\ Len(parsed.pool.buf) <= InitBufSize
        /\ parsed.at \in {"operand", "arguments", "return"}
    BY <2>2, StateFacts
  <2>4. QED
    BY <2>1, <2>3 DEF Inv, TypeOK, IsOutcome
<1>2. QED
  BY <1>1, AlwaysInv, PTL

(* The parser, which never tests the index it reads tokens at, stops on a  *)
(* token for every text, unless the tokenizer gave up at a numeral.        *)
THEOREM ParserStopsInTime == Spec => []StopsInTime
<1>1. Inv => StopsInTime
  <2>1. SUFFICES ASSUME Inv, Scanned, Closed(tokens) PROVE ~ Overrun(tokens, parsed)
    BY DEF StopsInTime, Inv, Parses, Scanned
  <2>2. Ended(tokens, parsed)
    BY <2>1 DEF Inv, Ends
  <2>3. Good(tokens, parsed, <<parsed.node>>)
    BY <2>2, EndedFacts
  <2>4. /\ parsed.pos \in 1 .. Len(tokens) + 1 /\ parsed.pos <= Len(tokens)
        /\ Len(tokens) \in Nat
    BY <2>1, <2>3, SeqFacts DEF Good, Inv
  <2>5. QED
    BY <2>4 DEF Overrun
<1>2. QED
  BY <1>1, AlwaysInv, PTL

(* An error the parser reports anywhere in any text leaves it without a    *)
(* root, so that nothing is evaluated.                                     *)
THEOREM ErrorsAreNotLost == Spec => []ErrorsReachTheRoot
<1>1. Inv => ErrorsReachTheRoot
  <2>1. SUFFICES ASSUME Inv, Scanned PROVE parsed.err => parsed.node = Null
    BY DEF ErrorsReachTheRoot
  <2>2. Ended(tokens, parsed)
    BY <2>1 DEF Inv, Ends
  <2>3. QED
    BY <2>2, EndedFacts
<1>2. QED
  BY <1>1, AlwaysInv, PTL

(* For every text, the nodes of the pool are one tree under the last node, *)
(* which is the root, if there is one and no operand is missing: what the  *)
(* graph of peval's tasks assumes, whatever part of it is in the deque.    *)
THEOREM PoolIsTree == Spec => []FillsPoolWithTree
<1>1. Inv => FillsPoolWithTree
  <2>1. SUFFICES ASSUME Inv, Scanned, parsed.node # Null, ~ HasNull(parsed.pool)
                 PROVE  parsed.node = Count(parsed.pool) - 1 /\ IsTree(Children(parsed.pool))
    BY DEF FillsPoolWithTree
  <2>2. Ended(tokens, parsed)
    BY <2>1 DEF Inv, Ends
  <2>3. Rooted(parsed.pool, parsed.node)
    BY <2>1, <2>2, RootFacts
  <2>4. IsTree(Children(parsed.pool))
    BY <2>1, <2>2, EndsInTree
  <2>5. QED
    BY <2>3, <2>4 DEF Rooted
<1>2. QED
  BY <1>1, AlwaysInv, PTL

(* For every text: a number peval returns is the one eval returns, and a   *)
(* number eval returns peval returns too, unless there is a conditional.   *)
THEOREM PevalAgreesWithEval == Spec => []EvalAgrees
<1>1. Inv => EvalAgrees
  <2>1. SUFFICES ASSUME Inv, pc = "peval"
                 PROVE  LET e == EvalOutcome(tokens, parsed)
                        IN  /\ result.kind = "number" => e = result
                            /\ e.kind = "number" /\ ~ HasChoice(parsed.pool) => result = e
    BY DEF EvalAgrees
  <2>2. Ended(tokens, parsed) /\ result = PevalOutcome(tokens, parsed)
    BY <2>1 DEF Inv, Ends, Scanned
  <2>3. QED
    BY <2>2, OutcomesAgree
<1>2. QED
  BY <1>1, AlwaysInv, PTL
=============================================================================
