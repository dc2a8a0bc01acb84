---------------------------- MODULE PEval_proofs ----------------------------
(* Safety of peval for every tree of nodes and any number of workers.      *)
EXTENDS PEval, SequenceTheorems, FiniteSetTheorems, TLAPS

(* The nodes added so far, each once.                                      *)
Added == /\ level = Pool!Elems(accepted)
         /\ Len(accepted) = cnt /\ Cardinality(level) = cnt

(* The nodes that may be added next, each once: their operands were added. *)
Queued == /\ \A i, j \in DOMAIN q : q[i] = q[j] => i = j
          /\ \A i \in DOMAIN q : q[i] \notin level /\ Operands(q[i]) \subseteq level

(* Those of this level, and the nodes added, have operands that have ended.*)
Barrier == /\ main = "submit" => /\ left \in 1 .. Len(q)
                                /\ \A i \in 1 .. left : Operands(q[i]) \subseteq finished
           /\ \A n \in level : Operands(n) \subseteq finished
           /\ main \in {"get", "return"} => finished = Task

(* A counter holds the number of operands not added yet; that of node 0    *)
(* wraps below zero with the root, and not before.                         *)
Counters == /\ \A n \in Task \ {0} : childCnt[n] = Cardinality(Operands(n) \ level)
            /\ Root \notin level => childCnt[0] = 0

(* What the pool holds are added nodes, and it is in use until the root's  *)
(* value is known.                                                         *)
Held == /\ \A i \in DOMAIN queue : queue[i] \in level
        /\ \A w \in Worker : pc[w] = "run" => hand[w] \in level
        /\ finished \subseteq level
        /\ rejected = {}
        /\ main # "return" => owner = "using" /\ running

(* The inductive invariant.                                                *)
LevelInv == TypeOK /\ Added /\ Queued /\ Barrier /\ Counters /\ Held

-----------------------------------------------------------------------------
(* The tree.  Nodes are numbers below N, operands lie below their operator *)
(* and are as many as children has entries.                                *)
LEMMA Nodes ==
  /\ IsFiniteSet(Task) /\ N \in Nat \ {0} /\ Task = 0 .. N - 1 /\ Root \in Task
  /\ CounterMod \in Nat /\ CounterMod > N
<1>1. IsFiniteSet(Task) /\ CounterMod \in Nat /\ CounterMod > N
  BY TreeAssumption
<1>2. Task = 0 .. N - 1 /\ Task # {}
  BY TreeAssumption DEF IsTree, N
<1>3. N \in Nat \ {0}
  BY <1>1, <1>2, FS_CardinalityType, FS_EmptySet DEF N
<1>4. QED
  BY <1>1, <1>2, <1>3 DEF Root

(* children[n] as a sequence.                                              *)
LEMMA Sequences ==
  ASSUME NEW n \in Task
  PROVE  /\ Children[n] \in Seq(0 .. n - 1)
         /\ DOMAIN Children[n] = 1 .. Len(Children[n]) /\ Len(Children[n]) \in Nat
         /\ \A i \in DOMAIN Children[n] : Children[n][i] \in 0 .. n - 1
<1>1. Children[n] \in Seq(0 .. n - 1)
  BY TreeAssumption DEF IsTree
<1>2. QED
  BY <1>1, LenProperties, ElementOfSeq

(* The operands of a node, without repetition.                             *)
LEMMA OperandsOf ==
  ASSUME NEW n \in Task
  PROVE  /\ Operands(n) \subseteq 0 .. n - 1 /\ Operands(n) \subseteq Task
         /\ IsFiniteSet(Operands(n))
         /\ Cardinality(Operands(n)) = Len(Children[n])
<1>1. Operands(n) \subseteq 0 .. n - 1
  BY Sequences DEF Operands
<1>2. Operands(n) \subseteq Task
  BY <1>1, Nodes
<1>3. Children[n] \in Bijection(1 .. Len(Children[n]), Operands(n))
  <2>1. Children[n] \in [1 .. Len(Children[n]) -> Operands(n)]
    BY Sequences, LenProperties DEF Operands
  <2>2. \A i, j \in DOMAIN Children[n] : Children[n][i] = Children[n][j] => i = j
    BY TreeAssumption DEF IsTree
  <2>3. \A c \in Operands(n) : \E i \in 1 .. Len(Children[n]) : Children[n][i] = c
    BY Sequences DEF Operands
  <2>4. QED
    BY <2>1, <2>2, <2>3 DEF Bijection, Injection, IsInjective, Surjection
<1>4. IsFiniteSet(1 .. Len(Children[n])) /\ Cardinality(1 .. Len(Children[n])) = Len(Children[n])
  BY Sequences, FS_Interval
<1>5. QED
  BY <1>1, <1>2, <1>3, <1>4, FS_Bijection DEF ExistsBijection

(* A node is an operand of at most one node.                               *)
LEMMA OneOperator ==
  ASSUME NEW n \in Task, NEW m \in Task, NEW c \in Operands(n), c \in Operands(m)
  PROVE  n = m
BY TreeAssumption DEF IsTree, Operands

(* The root has entry 0 of parents, every other node its operator, which   *)
(* is not node 0.                                                          *)
LEMMA Parents ==
  ASSUME NEW n \in Task
  PROVE  /\ n = Root => Parent(n) = 0 /\ \A m \in Task : n \notin Operands(m)
         /\ n # Root => /\ Parent(n) \in Task \ {0, n}
                        /\ n \in Operands(Parent(n))
                        /\ \A m \in Task : n \in Operands(m) => m = Parent(n)
<1>1. \A m \in Task : n \in Operands(m) => n < m
  BY OperandsOf, Nodes
<1>2. CASE n = Root
  <2>1. \A m \in Task : n \notin Operands(m)
    BY <1>1, <1>2, Nodes DEF Root
  <2>2. QED
    BY <1>2, <2>1 DEF Parent
<1>3. CASE n # Root
  <2>1. \E m \in Task : n \in Operands(m)
    BY <1>3, TreeAssumption DEF IsTree, Operands, Root, N
  <2>2. Parent(n) \in Task /\ n \in Operands(Parent(n))
    BY <2>1 DEF Parent
  <2>3. Parent(n) \notin {0, n}
    BY <2>2, <1>1, Nodes
  <2>4. QED
    BY <1>3, <2>2, <2>3, OneOperator
<1>4. QED
  BY <1>2, <1>3

(* Node 0 is a leaf.                                                       *)
LEMMA FirstLeaf == Operands(0) = {} /\ 0 \in Leaves /\ Len(Children[0]) = 0
<1>1. 0 \in Task /\ 0 .. 0 - 1 = {}
  BY Nodes
<1>2. Operands(0) = {}
  BY <1>1, OperandsOf
<1>3. Len(Children[0]) = 0
  BY <1>1, <1>2, OperandsOf, FS_EmptySet
<1>4. Children[0] = << >>
  BY <1>1, <1>3, Sequences, EmptySeq
<1>5. QED
  BY <1>1, <1>2, <1>3, <1>4 DEF Leaves

-----------------------------------------------------------------------------
(* The main thread starts with the leaves, each once, as the first level.  *)
THEOREM Init_LevelInv == Init => LevelInv
<1> SUFFICES ASSUME Init PROVE LevelInv
  OBVIOUS
<1> USE DEF Init, Pool!PoolInit
<1>1. /\ q \in Seq(Task) /\ Len(q) \in Nat \ {0}
      /\ \A i, j \in DOMAIN q : q[i] = q[j] => i = j
      /\ \A i \in DOMAIN q : q[i] \in Leaves
  <2>1. IsFiniteSet(Leaves) /\ Leaves \subseteq Task
    BY Nodes, FS_Subset DEF Leaves
  <2>2. Cardinality(Leaves) \in Nat \ {0}
    BY <2>1, FirstLeaf, FS_CardinalityType, FS_EmptySet
  <2>3. q \in [1 .. Cardinality(Leaves) -> Leaves]
    BY DEF Ascending
  <2>4. q \in Seq(Leaves) /\ Len(q) = Cardinality(Leaves)
    BY <2>2, <2>3, SeqDef, LenProperties
  <2>5. \A i, j \in DOMAIN q : i # j => q[i] # q[j]
    <3>1. SUFFICES ASSUME NEW i \in DOMAIN q, NEW j \in DOMAIN q, i # j
                   PROVE  q[i] # q[j]
      OBVIOUS
    <3>2. /\ i \in 1 .. Cardinality(Leaves) /\ q[i] \in Leaves
          /\ j \in 1 .. Cardinality(Leaves) /\ q[j] \in Leaves
      BY <2>3
    <3>5. i \in Int /\ j \in Int
      BY <3>2, <2>2
    <3>6. q[i] \in Int /\ q[j] \in Int
      <4>1. Task \subseteq Int
        BY Nodes
      <4>2. Leaves \subseteq Int
        BY <2>1, <4>1
      <4> HIDE DEF Init
      <4>3. QED
        BY <3>2, <4>2
    <3>3. (i < j => q[i] < q[j]) /\ (j < i => q[j] < q[i])
      BY DEF Ascending
    <3>4. QED
      BY <3>1, <3>5, <3>6, <3>3
  <2>6. QED
    BY <2>1, <2>2, <2>3, <2>4, <2>5, SeqMonotonic
<1>2. \A n \in Leaves : Operands(n) = {}
  BY DEF Leaves, Operands
<1>3. \A n \in Task : /\ Len(Children[n]) \in 0 .. N
                      /\ Len(Children[n]) = Cardinality(Operands(n) \ {})
  <2>1. ASSUME NEW n \in Task PROVE Len(Children[n]) \in 0 .. N
    BY <2>1, OperandsOf, Nodes, FS_Subset, FS_CardinalityType DEF N
  <2>2. ASSUME NEW n \in Task PROVE Operands(n) \ {} = Operands(n)
    OBVIOUS
  <2>3. QED
    BY <2>1, <2>2, OperandsOf
<1>4. level = {} /\ Pool!Elems(accepted) = {} /\ Len(accepted) = 0 /\ Cardinality(level) = 0
  BY FS_EmptySet DEF Pool!Elems
<1>5. Pool!TypeOK
  BY EmptySeq, PoolAssumption DEF Pool!TypeOK, Pool!Labels, Pool!Stages
<1>6. TypeOK
  BY <1>1, <1>3, <1>5, Nodes DEF TypeOK
<1>7. Added
  BY <1>4 DEF Added
<1>8. Queued
  BY <1>1, <1>2, <1>4 DEF Queued
<1>9. Barrier
  BY <1>1, <1>2, LenProperties DEF Barrier
<1>10. Counters
  BY <1>3, FirstLeaf, Nodes DEF Counters
<1>11. Held
  BY DEF Held
<1>12. QED
  BY <1>6, <1>7, <1>8, <1>9, <1>10, <1>11 DEF LevelInv
-----------------------------------------------------------------------------
(* Appending a task adds it to the elements.                               *)
LEMMA ElemsAppend ==
  ASSUME NEW s \in Seq(Task), NEW n \in Task
  PROVE  /\ Append(s, n) \in Seq(Task) /\ Len(Append(s, n)) = Len(s) + 1
         /\ Pool!Elems(Append(s, n)) = Pool!Elems(s) \cup {n}
BY AppendProperties DEF Pool!Elems

(* Adding a task to a pool in use appends it, and wakes at most a worker.  *)
LEMMA Pushed ==
  ASSUME LevelInv, NEW n \in Task, main # "return", Pool!Push(n)
  PROVE  /\ queue' = Append(queue, n) /\ accepted' = Append(accepted, n)
         /\ UNCHANGED <<running, alwaysPop, mutex, hand, owner, started, finished, rejected>>
         /\ \A w \in Worker : pc'[w] = "run" <=> pc[w] = "run"
         /\ Pool!TypeOK'
<1> USE DEF LevelInv, Held, Pool!Push
<1>1. Pool!Accept(n)
  BY DEF Pool!Reject
<1>2. /\ pc' \in [Worker -> Pool!Labels]
      /\ \A w \in Worker : pc'[w] = pc[w] \/ (pc[w] = "waiting" /\ pc'[w] = "pop")
  BY <1>1 DEF Pool!Accept, Pool!NotifyOne, Pool!Goto, Pool!Waiting, TypeOK, Pool!TypeOK, Pool!Labels
<1>3. Append(queue, n) \in Seq(Task) /\ Append(accepted, n) \in Seq(Task)
  BY ElemsAppend DEF TypeOK, Pool!TypeOK
<1>4. QED
  BY <1>1, <1>2, <1>3 DEF Pool!Accept, TypeOK, Pool!TypeOK

(* The node at the front of the queue is added.                            *)
LEMMA SubmitStep == ASSUME LevelInv, Submit PROVE LevelInv'
<1> DEFINE n == Head(q)
           p == Parent(n)
           c == Decremented(childCnt[p])
           k == Len(q) - 1
<1>1. /\ main = "submit" /\ q \in Seq(Task) /\ q # << >> /\ Len(q) \in Nat \ {0}
      /\ n = q[1] /\ n \in Task /\ n \notin level
      /\ Operands(n) \subseteq finished
      /\ left \in 1 .. Len(q)
  <2>1. main = "submit" /\ q \in Seq(Task) /\ left \in 1 .. Len(q)
    BY DEF LevelInv, TypeOK, Barrier, Submit
  <2>2. q # << >> /\ Len(q) \in Nat \ {0}
    BY <2>1, EmptySeq, LenProperties
  <2>3. n = q[1] /\ 1 \in DOMAIN q /\ n \in Task
    BY <2>1, <2>2, LenProperties, HeadTailProperties
  <2>4. n \notin level
    BY <2>3 DEF LevelInv, Queued
  <2>5. Operands(n) \subseteq finished
    BY <2>1, <2>2, <2>3 DEF LevelInv, Barrier
  <2>6. QED
    BY <2>1, <2>2, <2>3, <2>4, <2>5
<1>2. /\ level' = level \cup {n} /\ level \subseteq Task /\ IsFiniteSet(level)
      /\ childCnt' = [childCnt EXCEPT ![p] = c]
      /\ childCnt \in [Task -> 0 .. CounterMod - 1]
      /\ q' = Tail(q) \o (IF c = 0 THEN <<p>> ELSE << >>)
      /\ cnt' = cnt + 1 /\ cnt \in Nat /\ left' = left - 1
      /\ main' = IF left = 1 THEN "wait" ELSE "submit"
      /\ UNCHANGED promised
  <2>1. /\ level' = level \cup {n}
        /\ childCnt' = [childCnt EXCEPT ![p] = c]
        /\ q' = Tail(q) \o (IF c = 0 THEN <<p>> ELSE << >>)
        /\ cnt' = cnt + 1 /\ left' = left - 1
        /\ main' = IF left = 1 THEN "wait" ELSE "submit"
        /\ UNCHANGED promised
    BY DEF Submit
  <2> HIDE DEF n, p, c
  <2>2. level \subseteq Task /\ childCnt \in [Task -> 0 .. CounterMod - 1] /\ cnt \in 0 .. N
    BY DEF LevelInv, TypeOK
  <2>3. IsFiniteSet(level)
    BY <2>2, Nodes, FS_Subset
  <2>4. cnt \in Nat
    BY <2>2, Nodes
  <2>5. QED
    BY <2>1, <2>2, <2>3, <2>4
<1>3. /\ queue' = Append(queue, n) /\ accepted' = Append(accepted, n)
      /\ UNCHANGED <<running, alwaysPop, mutex, hand, owner, started, finished, rejected>>
      /\ \A w \in Worker : pc'[w] = "run" <=> pc[w] = "run"
      /\ Pool!TypeOK'
  BY <1>1, Pushed DEF Submit
<1>4. Added'
  <2>1. Pool!Elems(accepted') = level'
    BY <1>1, <1>2, <1>3, ElemsAppend DEF LevelInv, Added, TypeOK, Pool!TypeOK
  <2>2. Len(accepted') = cnt'
    BY <1>1, <1>2, <1>3, ElemsAppend DEF LevelInv, Added, TypeOK, Pool!TypeOK
  <2>3. Cardinality(level') = cnt'
    BY <1>1, <1>2, FS_AddElement DEF LevelInv, Added
  <2>4. QED
    BY <2>1, <2>2, <2>3 DEF Added, Pool!Elems
<1>5. p \in Task /\ c \in 0 .. CounterMod - 1
  BY <1>1, <1>2, Parents, Nodes, SMTT(40) DEF Decremented
(* The counter of the parent, and only that, is adjusted.                  *)
<1>6. ASSUME NEW m \in Task \ {0}
      PROVE  childCnt'[m] = Cardinality(Operands(m) \ level')
  <2>1. childCnt[m] = Cardinality(Operands(m) \ level)
    BY DEF LevelInv, Counters
  <2>2. CASE m = p
    <3>1. n \in Operands(m) \ level
      BY <1>1, <2>2, Parents
    <3>2. Operands(m) \ level' = (Operands(m) \ level) \ {n}
      BY <1>2
    <3>3. IsFiniteSet(Operands(m) \ level)
      BY OperandsOf, FS_Subset
    <3>4. /\ Cardinality(Operands(m) \ level') = Cardinality(Operands(m) \ level) - 1
          /\ Cardinality(Operands(m) \ level) \in Nat \ {0}
      <4> DEFINE R == Operands(m) \ level
      <4> HIDE DEF R, n, p, c
      <4>1. n \in R /\ IsFiniteSet(R) /\ Operands(m) \ level' = R \ {n}
        BY <3>1, <3>2, <3>3 DEF R
      <4>2. Cardinality(R \ {n}) = Cardinality(R) - 1
        BY <4>1, FS_RemoveElement
      <4>3. Cardinality(R) \in Nat /\ Cardinality(R) # 0
        BY <4>1, FS_CardinalityType, FS_EmptySet
      <4>4. QED
        BY <4>1, <4>2, <4>3 DEF R
    <3>5. childCnt'[m] = c
      BY <1>2, <1>5, <2>2
    <3>6. QED
      BY <2>1, <2>2, <3>4, <3>5 DEF Decremented
  <2>3. CASE m # p
    <3>1. n \notin Operands(m)
      BY <1>1, <2>3, Parents
    <3>2. Operands(m) \ level' = Operands(m) \ level
      BY <1>2, <3>1
    <3>3. childCnt'[m] = childCnt[m]
      BY <1>2, <2>3
    <3>4. QED
      BY <2>1, <3>2, <3>3
  <2>4. QED
    BY <2>2, <2>3
<1>7. Counters'
  <2>1. ASSUME Root \notin level' PROVE childCnt'[0] = 0
    <3>1. n # Root /\ Root \notin level
      BY <1>2, <2>1
    <3>2. p # 0
      BY <1>1, <3>1, Parents
    <3>3. childCnt[0] = 0 /\ 0 \in Task
      BY <3>1, Nodes DEF LevelInv, Counters
    <3>4. QED
      BY <1>2, <3>2, <3>3
  <2>2. QED
    BY <1>6, <2>1 DEF Counters, Operands
(* A parent is queued with its last operand, and so only once.             *)
<1>8. ASSUME c = 0
      PROVE  /\ Operands(p) \subseteq level' /\ p \notin level'
             /\ \A i \in DOMAIN q : q[i] # p
  <2>1. n # Root
    <3>1. SUFFICES ASSUME n = Root PROVE FALSE
      OBVIOUS
    <3>2. p = 0 /\ Root \notin level
      BY <1>1, <3>1, Parents
    <3>3. childCnt[p] = 0
      BY <3>2 DEF LevelInv, Counters
    <3>4. c = CounterMod - 1
      BY <3>3 DEF Decremented
    <3>5. QED
      BY <1>8, <3>4, Nodes
  <2>2. p \in Task \ {0, n} /\ n \in Operands(p)
    BY <1>1, <2>1, Parents
  <2>3. Operands(p) \ level' = {}
    <3>1. childCnt'[p] = 0
      BY <1>2, <1>8, <2>2
    <3>2. Cardinality(Operands(p) \ level') = 0
      BY <1>6, <2>2, <3>1
    <3>3. IsFiniteSet(Operands(p) \ level')
      BY <2>2, OperandsOf, FS_Subset
    <3>4. QED
      BY <3>2, <3>3, FS_EmptySet
  <2>4. p \notin level
    BY <1>1, <2>2 DEF LevelInv, Barrier, Held
  <2>5. \A i \in DOMAIN q : q[i] # p
    BY <1>1, <2>2 DEF LevelInv, Queued
  <2>6. QED
    BY <1>2, <2>2, <2>3, <2>4, <2>5
<1>9. /\ q' \in Seq(Task) /\ k \in Nat /\ Len(q') \in Nat
      /\ Len(q') >= k
      /\ \A i \in 1 .. k : q'[i] = q[i + 1] /\ i + 1 \in DOMAIN q
      /\ \A i \in DOMAIN q' : i \in 1 .. k \/ (i = k + 1 /\ c = 0 /\ q'[i] = p)
  <2>1. Tail(q) \in Seq(Task) /\ Len(Tail(q)) = k /\ \A i \in 1 .. k : Tail(q)[i] = q[i + 1]
    BY <1>1, HeadTailProperties
  <2>2. k \in Nat /\ DOMAIN q = 1 .. k + 1
    BY <1>1, LenProperties
  <2>3. CASE c = 0
    <3>1. <<p>> \in Seq(Task) /\ Len(<<p>>) = 1 /\ <<p>>[1] = p
      BY <1>5
    <3>2. /\ q' \in Seq(Task) /\ Len(q') = k + 1
          /\ \A i \in 1 .. k + 1 : q'[i] = IF i <= k THEN Tail(q)[i] ELSE <<p>>[i - k]
      <4> HIDE DEF n, p, c, k
      <4>1. q' = Tail(q) \o <<p>>
        BY <1>2, <2>3
      <4> DEFINE s == Tail(q)
                 t == <<p>>
      <4>2. s \in Seq(Task) /\ t \in Seq(Task) /\ Len(s) = k /\ Len(t) = 1
        BY <2>1, <3>1
      <4> HIDE DEF s, t
      <4>3. /\ s \o t \in Seq(Task)
            /\ Len(s \o t) = Len(s) + Len(t)
            /\ \A i \in 1 .. Len(s) + Len(t) : (s \o t)[i] = IF i <= Len(s) THEN s[i] ELSE t[i - Len(s)]
        BY <4>2, ConcatProperties, Zenon
      <4>4. q' = s \o t
        BY <4>1 DEF s, t
      <4>5. /\ q' \in Seq(Task) /\ Len(q') = k + 1
            /\ \A i \in 1 .. k + 1 : q'[i] = IF i <= k THEN s[i] ELSE t[i - k]
        BY <4>2, <4>3, <4>4, Zenon
      <4>6. QED
        BY <4>5 DEF s, t
    <3>3. DOMAIN q' = 1 .. k + 1
      BY <3>2, LenProperties
    <3>4. QED
      BY <2>1, <2>2, <2>3, <3>1, <3>2, <3>3
  <2>4. CASE c # 0
    <3>1. q' = Tail(q)
      BY <1>2, <2>1, <2>4, ConcatEmptySeq
    <3>2. DOMAIN q' = 1 .. k
      BY <2>1, <3>1, LenProperties
    <3>3. QED
      BY <2>1, <2>2, <3>1, <3>2
  <2>5. QED
    BY <2>3, <2>4
<1>10. Queued'
  <2>1. \A i \in DOMAIN q : q[i] = q[1] => i = 1
    BY <1>1, LenProperties DEF LevelInv, Queued
  <2>2. ASSUME NEW i \in DOMAIN q' PROVE q'[i] \notin level' /\ Operands(q'[i]) \subseteq level'
    <3>1. CASE i \in 1 .. k
      BY <1>1, <1>2, <1>9, <2>1, <3>1 DEF LevelInv, Queued
    <3>2. CASE c = 0 /\ q'[i] = p
      BY <1>8, <3>2
    <3>3. QED
      BY <1>9, <3>1, <3>2
  <2>3. ASSUME NEW i \in DOMAIN q', NEW j \in DOMAIN q', q'[i] = q'[j] PROVE i = j
    <3>1. CASE i \in 1 .. k /\ j \in 1 .. k
      BY <1>9, <2>3, <3>1 DEF LevelInv, Queued
    <3>2. CASE ~ (i \in 1 .. k /\ j \in 1 .. k)
      BY <1>8, <1>9, <2>3, <3>2
    <3>3. QED
      BY <3>1, <3>2
  <2>4. QED
    BY <2>2, <2>3 DEF Queued, Operands
<1>11. Barrier'
  <2>1. \A m \in level' : Operands(m) \subseteq finished'
    BY <1>1, <1>2, <1>3 DEF LevelInv, Barrier
  <2>2. ASSUME main' = "submit"
        PROVE  left' \in 1 .. Len(q') /\ \A i \in 1 .. left' : Operands(q'[i]) \subseteq finished'
    <3>1. left # 1 /\ left' = left - 1 /\ left' \in 1 .. k
      BY <1>1, <1>2, <2>2
    <3>2. \A i \in 1 .. left' : q'[i] = q[i + 1] /\ i + 1 \in 1 .. left
      BY <1>1, <1>9, <3>1
    <3>3. QED
      BY <1>1, <1>3, <1>9, <3>1, <3>2 DEF LevelInv, Barrier
  <2>3. main' \notin {"get", "return"}
    BY <1>2
  <2>4. QED
    BY <2>1, <2>2, <2>3 DEF Barrier, Operands
<1>12. Held'
  <2>1. \A i \in DOMAIN queue' : queue'[i] \in level'
    <3>1. queue \in Seq(Task) /\ \A i \in DOMAIN queue : queue[i] \in level
      BY DEF LevelInv, TypeOK, Pool!TypeOK, Held
    <3>2. Pool!Elems(queue) \subseteq level
      BY <3>1 DEF Pool!Elems
    <3>3. Pool!Elems(queue') = Pool!Elems(queue) \cup {n}
      BY <1>1, <1>3, <3>1, ElemsAppend
    <3> HIDE DEF n, p, c, k
    <3>4. Pool!Elems(queue') \subseteq level'
      BY <1>2, <3>2, <3>3
    <3>5. QED
      BY <3>4 DEF Pool!Elems
  <2>2. QED
    BY <1>1, <1>2, <1>3, <2>1 DEF LevelInv, Held
<1>13. TypeOK'
  <2>1. level' \subseteq Task /\ cnt' \in 0 .. N
    <3> HIDE DEF n, p, c, k
    <3>1. level' \subseteq Task
      BY <1>1, <1>2
    <3>2. Cardinality(level') <= N /\ Cardinality(level') \in Nat
      BY <3>1, Nodes, FS_Subset, FS_CardinalityType DEF N
    <3>3. Cardinality(level') = cnt'
      BY <1>4 DEF Added
    <3>4. QED
      BY <3>1, <3>2, <3>3, Nodes
  <2>2. left' \in 0 .. Len(q')
    BY <1>1, <1>2, <1>9
  <2>3. childCnt' \in [Task -> 0 .. CounterMod - 1]
    BY <1>2, <1>5
  <2>4. main' \in {"submit", "wait", "get", "return"} /\ promised' \subseteq Task
    BY <1>2 DEF LevelInv, TypeOK
  <2>5. QED
    BY <1>3, <1>9, <2>1, <2>2, <2>3, <2>4 DEF TypeOK
<1>14. QED
  BY <1>4, <1>7, <1>10, <1>11, <1>12, <1>13 DEF LevelInv
(* While the main thread stands still and nodes are done, only what the    *)
(* pool holds can change.                                                  *)
LEMMA MainKept ==
  ASSUME LevelInv, UNCHANGED mainVars, UNCHANGED accepted,
         finished \subseteq finished', finished' \subseteq Task
  PROVE  Added' /\ Queued' /\ Barrier' /\ Counters'
<1> USE DEF mainVars
<1>1. Added'
  BY DEF LevelInv, Added, Pool!Elems
<1>2. Queued'
  BY DEF LevelInv, Queued, Operands
<1>3. Counters'
  BY DEF LevelInv, Counters, Operands
<1>4. Barrier'
  BY DEF LevelInv, Barrier, Operands
<1>5. QED
  BY <1>1, <1>2, <1>3, <1>4

(* The level is done; after the last one, so is everything.                *)
LEMMA AwaitStep == ASSUME LevelInv, AwaitLevel PROVE LevelInv'
<1>1. /\ UNCHANGED <<poolVars, q, cnt, childCnt, level, promised>>
      /\ main = "wait" /\ level \subseteq finished /\ left' = Len(q)
      /\ main' = IF cnt = N THEN "get" ELSE IF q = << >> THEN "wait" ELSE "submit"
  BY DEF AwaitLevel
<1>2. q \in Seq(Task) /\ Len(q) \in Nat /\ (q # << >> => Len(q) # 0)
  BY LenProperties, EmptySeq DEF LevelInv, TypeOK
<1>3. TypeOK'
  BY <1>1, <1>2 DEF LevelInv, TypeOK, poolVars, Pool!TypeOK
<1>4. Added' /\ Queued' /\ Counters' /\ Held'
  <2> USE DEF LevelInv, poolVars
  <2>1. Added'
    BY <1>1 DEF Added, Pool!Elems
  <2>2. Queued'
    BY <1>1 DEF Queued, Operands
  <2>3. Counters'
    BY <1>1 DEF Counters, Operands
  <2>4. Held'
    BY <1>1 DEF Held
  <2>5. QED
    BY <2>1, <2>2, <2>3, <2>4
<1>5. Barrier'
  <2>1. \A m \in level : Operands(m) \subseteq finished
    BY DEF LevelInv, Barrier
  <2>2. ASSUME main' = "submit"
        PROVE  left' \in 1 .. Len(q) /\ \A i \in 1 .. left' : Operands(q[i]) \subseteq finished
    <3>1. q # << >> /\ DOMAIN q = 1 .. Len(q)
      BY <1>1, <1>2, <2>2, LenProperties
    <3>2. QED
      BY <1>1, <1>2, <3>1 DEF LevelInv, Queued
  <2>3. ASSUME main' \in {"get", "return"} PROVE finished = Task
    <3>1. cnt = N
      BY <1>1, <2>3
    <3>2. level \subseteq Task /\ Cardinality(level) = Cardinality(Task)
      BY <3>1 DEF LevelInv, TypeOK, Added, N
    <3>3. level = Task
      BY <3>2, Nodes, FS_Subset
    <3>4. finished \subseteq Task
      BY DEF LevelInv, TypeOK, Pool!TypeOK
    <3>5. QED
      BY <1>1, <3>3, <3>4
  <2>4. QED
    BY <1>1, <2>1, <2>2, <2>3 DEF Barrier, Operands, poolVars
<1>6. QED
  BY <1>3, <1>4, <1>5 DEF LevelInv

(* The root's value ends the use of the pool.                              *)
LEMMA GetRootStep == ASSUME LevelInv, GetRoot PROVE LevelInv'
<1>1. /\ main = "get" /\ main' = "return"
      /\ UNCHANGED <<q, left, cnt, childCnt, level, promised>>
      /\ UNCHANGED <<alwaysPop, queue, mutex, pc, hand, accepted, started, finished, rejected>>
      /\ owner' = "stopping" /\ running' = FALSE
  BY DEF GetRoot, Pool!Stop, Pool!workers, Pool!history
<1> USE DEF LevelInv
<1>2. TypeOK'
  BY <1>1 DEF TypeOK, Pool!TypeOK, Pool!Stages
<1>3. Added'
  BY <1>1 DEF Added, Pool!Elems
<1>4. Queued'
  BY <1>1 DEF Queued, Operands
<1>5. Counters'
  BY <1>1 DEF Counters, Operands
<1>6. Barrier'
  BY <1>1 DEF Barrier, Operands
<1>7. Held'
  BY <1>1 DEF Held
<1>8. QED
  BY <1>2, <1>3, <1>4, <1>5, <1>6, <1>7

(* A task sets its promise.                                                *)
LEMMA SetValueStep == ASSUME LevelInv, NEW w \in Worker, SetValue(w) PROVE LevelInv'
<1>1. /\ UNCHANGED <<poolVars, mainVars>>
      /\ pc[w] = "run" /\ promised' = promised \cup {hand[w]}
  BY DEF SetValue
<1>2. hand[w] \in Task /\ finished \subseteq Task
  BY <1>1 DEF LevelInv, Held, TypeOK, Pool!TypeOK
<1>3. Added' /\ Queued' /\ Barrier' /\ Counters'
  BY <1>1, <1>2, MainKept DEF poolVars
<1>4. TypeOK' /\ Held'
  BY <1>1, <1>2 DEF LevelInv, TypeOK, Pool!TypeOK, Held, poolVars, mainVars
<1>5. QED
  BY <1>3, <1>4 DEF LevelInv

(* A task ends, with its promise set or by an exception.                   *)
LEMMA EndTaskStep == ASSUME LevelInv, NEW w \in Worker, EndTask(w) PROVE LevelInv'
<1>1. /\ UNCHANGED <<mainVars, promised>> /\ pc[w] = "run"
      /\ finished' = finished \cup {hand[w]}
      /\ hand' = [hand EXCEPT ![w] = None]
      /\ pc' = [pc EXCEPT ![w] = "check"]
      /\ UNCHANGED <<running, alwaysPop, queue, mutex, owner, accepted, started, rejected>>
  BY DEF EndTask, Pool!Finish, Pool!Goto
<1>2. hand[w] \in level /\ hand[w] \in Task
  BY <1>1 DEF LevelInv, Held, TypeOK
<1>3. finished \subseteq finished' /\ finished' \subseteq Task
  BY <1>1, <1>2 DEF LevelInv, TypeOK, Pool!TypeOK
<1>4. Added' /\ Queued' /\ Barrier' /\ Counters'
  BY <1>1, <1>3, MainKept
<1>5. Pool!TypeOK'
  BY <1>1, <1>3 DEF LevelInv, TypeOK, Pool!TypeOK, Pool!Labels
<1>6. TypeOK'
  BY <1>1, <1>5 DEF LevelInv, TypeOK, mainVars
<1>7. Held'
  BY <1>1, <1>2 DEF LevelInv, Held, TypeOK, Pool!TypeOK, mainVars
<1>8. QED
  BY <1>4, <1>6, <1>7 DEF LevelInv
-----------------------------------------------------------------------------
(* The workers' steps give out what is queued and change nothing else of   *)
(* what the pool holds.                                                    *)
LEMMA TakeHeld ==
  ASSUME LevelInv, NEW w \in Worker, Pool!Take(w), UNCHANGED mainVars
  PROVE  Pool!TypeOK' /\ Held'
<1>1. /\ queue # << >> /\ queue \in Seq(Task) /\ started \in Seq(Task)
      /\ hand' = [hand EXCEPT ![w] = Head(queue)] /\ queue' = Tail(queue)
      /\ started' = Append(started, Head(queue))
      /\ pc[w] = "pop" /\ pc' = [pc EXCEPT ![w] = "run"]
      /\ UNCHANGED <<running, alwaysPop, mutex, owner, accepted, finished, rejected>>
  BY DEF Pool!Take, Pool!Goto, LevelInv, TypeOK, Pool!TypeOK
<1>2. /\ Head(queue) = queue[1] /\ 1 \in DOMAIN queue /\ Head(queue) \in Task
      /\ Tail(queue) \in Seq(Task)
      /\ \A i \in DOMAIN Tail(queue) : Tail(queue)[i] = queue[i + 1] /\ i + 1 \in DOMAIN queue
  <2>1. Len(queue) \in Nat \ {0} /\ DOMAIN queue = 1 .. Len(queue)
    BY <1>1, LenProperties, EmptySeq
  <2>2. /\ Head(queue) = queue[1] /\ Head(queue) \in Task /\ Tail(queue) \in Seq(Task)
        /\ Len(Tail(queue)) = Len(queue) - 1
        /\ \A i \in 1 .. Len(queue) - 1 : Tail(queue)[i] = queue[i + 1]
    BY <1>1, <2>1, HeadTailProperties
  <2>3. DOMAIN Tail(queue) = 1 .. Len(queue) - 1
    BY <2>2, LenProperties
  <2>4. QED
    BY <2>1, <2>2, <2>3
<1>3. Append(started, Head(queue)) \in Seq(Task)
  BY <1>1, <1>2, AppendProperties
<1>4. Pool!TypeOK'
  BY <1>1, <1>2, <1>3 DEF LevelInv, TypeOK, Pool!TypeOK, Pool!Labels
<1>5. Head(queue) \in level /\ \A i \in DOMAIN queue' : queue'[i] \in level'
  BY <1>1, <1>2 DEF LevelInv, Held, mainVars
<1>6. Held'
  BY <1>1, <1>5 DEF LevelInv, Held, TypeOK, Pool!TypeOK, mainVars
<1>7. QED
  BY <1>4, <1>6

(* So do the destructor's.                                                 *)
LEMMA PoolStepHeld == ASSUME LevelInv, PoolStep PROVE Pool!TypeOK' /\ Held'
<1> SUFFICES ASSUME UNCHANGED mainVars,
                    \/ Pool!SetAlwaysPop \/ Pool!NotifyAll \/ Pool!Join
                    \/ \E w \in Worker :
                         \/ Pool!Take(w) \/ Pool!PopNothing(w) \/ Pool!FindNothing(w)
                         \/ Pool!Block(w) \/ Pool!CheckRunning(w) \/ Pool!CheckEmpty(w)
                         \/ Pool!WakeSpuriously(w)
             PROVE  Pool!TypeOK' /\ Held'
  BY DEF PoolStep, Pool!Destroy, Pool!Fetch
<1> USE DEF LevelInv, TypeOK, Pool!TypeOK, Pool!Labels, Pool!Stages, Held, mainVars,
            Pool!Goto, Pool!workers, Pool!history, Pool!Waiting
<1>1. CASE Pool!SetAlwaysPop
  BY <1>1 DEF Pool!SetAlwaysPop
<1>2. CASE Pool!NotifyAll
  BY <1>2 DEF Pool!NotifyAll
<1>3. CASE Pool!Join
  BY <1>3 DEF Pool!Join
<1>4. ASSUME NEW w \in Worker, Pool!Take(w) PROVE Pool!TypeOK' /\ Held'
  BY <1>4, TakeHeld
<1>5. ASSUME NEW w \in Worker, Pool!PopNothing(w) PROVE Pool!TypeOK' /\ Held'
  BY <1>5 DEF Pool!PopNothing
<1>6. ASSUME NEW w \in Worker, Pool!FindNothing(w) PROVE Pool!TypeOK' /\ Held'
  BY <1>6, PoolAssumption DEF Pool!FindNothing
<1>7. ASSUME NEW w \in Worker, Pool!Block(w) PROVE Pool!TypeOK' /\ Held'
  BY <1>7, PoolAssumption DEF Pool!Block
<1>8. ASSUME NEW w \in Worker, Pool!CheckRunning(w) PROVE Pool!TypeOK' /\ Held'
  BY <1>8 DEF Pool!CheckRunning
<1>9. ASSUME NEW w \in Worker, Pool!CheckEmpty(w) PROVE Pool!TypeOK' /\ Held'
  BY <1>9 DEF Pool!CheckEmpty
<1>10. ASSUME NEW w \in Worker, Pool!WakeSpuriously(w) PROVE Pool!TypeOK' /\ Held'
  BY <1>10 DEF Pool!WakeSpuriously
<1>11. QED
  BY <1>1, <1>2, <1>3, <1>4, <1>5, <1>6, <1>7, <1>8, <1>9, <1>10

(* Neither disturbs what the main thread relies on.                        *)
LEMMA PoolStepStep == ASSUME LevelInv, PoolStep PROVE LevelInv'
<1>1. UNCHANGED <<mainVars, promised, accepted, finished>>
  BY DEF PoolStep, Pool!Destroy, Pool!Fetch, Pool!SetAlwaysPop, Pool!NotifyAll, Pool!Join,
         Pool!Take, Pool!PopNothing, Pool!FindNothing, Pool!Block, Pool!CheckRunning,
         Pool!CheckEmpty, Pool!WakeSpuriously, Pool!history
<1>2. Added' /\ Queued' /\ Barrier' /\ Counters'
  BY <1>1, MainKept DEF LevelInv, TypeOK, Pool!TypeOK
<1>3. TypeOK' /\ Held'
  BY <1>1, PoolStepHeld DEF LevelInv, TypeOK, mainVars
<1>4. QED
  BY <1>2, <1>3 DEF LevelInv

(* Every step of peval, of a task and of the pool keeps the levels apart.  *)
THEOREM Next_LevelInv == LevelInv /\ [Next]_vars => LevelInv'
<1> SUFFICES ASSUME LevelInv, [Next]_vars PROVE LevelInv'
  OBVIOUS
<1>1. CASE Submit
  BY <1>1, SubmitStep
<1>2. CASE AwaitLevel
  BY <1>2, AwaitStep
<1>3. CASE GetRoot
  BY <1>3, GetRootStep
<1>4. ASSUME NEW w \in Worker, SetValue(w) PROVE LevelInv'
  BY <1>4, SetValueStep
<1>5. ASSUME NEW w \in Worker, EndTask(w) PROVE LevelInv'
  BY <1>5, EndTaskStep
<1>6. CASE PoolStep
  BY <1>6, PoolStepStep
<1>7. CASE UNCHANGED vars
  <2>1. UNCHANGED mainVars /\ UNCHANGED poolVars /\ UNCHANGED promised
    BY <1>7 DEF vars
  <2>2. Added' /\ Queued' /\ Barrier' /\ Counters'
    BY <2>1, MainKept DEF poolVars, LevelInv, TypeOK, Pool!TypeOK
  <2>3. TypeOK' /\ Held'
    BY <2>1 DEF LevelInv, TypeOK, Pool!TypeOK, Held, poolVars, mainVars
  <2>4. QED
    BY <2>2, <2>3 DEF LevelInv
<1>8. QED
  BY <1>1, <1>2, <1>3, <1>4, <1>5, <1>6, <1>7 DEF Next

(* The barrier between levels and the counters hold throughout.            *)
THEOREM Spec_LevelInv == Spec => []LevelInv
BY Init_LevelInv, Next_LevelInv, PTL DEF Spec
-----------------------------------------------------------------------------
(* The variables of peval and its pool keep their types: no counter leaves *)
(* the range of unsigned, whatever the tree.                               *)
THEOREM TypeCorrect == Spec => []TypeOK
<1>1. LevelInv => TypeOK
  BY DEF LevelInv
<1>2. QED
  BY <1>1, Spec_LevelInv, PTL

(* However few the workers and whatever the tree, a worker that executes a *)
(* task finds its operands evaluated: pevalTask never blocks in get().     *)
THEOREM WorkersNeverBlock == Spec => []NeverBlocks
<1>1. LevelInv => NeverBlocks
  BY DEF LevelInv, Held, Barrier, NeverBlocks, Thrown
<1>2. QED
  BY <1>1, Spec_LevelInv, PTL

(* peval adds every node exactly once and never reads an empty queue,      *)
(* although the counter of node 0 is decremented for the root.             *)
THEOREM EveryNodeOnce == Spec => []CountsNodes
<1>1. LevelInv => CountsNodes
  BY DEF LevelInv, Barrier, Added, CountsNodes
<1>2. QED
  BY <1>1, Spec_LevelInv, PTL
-----------------------------------------------------------------------------
(* peval uses its ThreadPool as ThreadPool.tla says a pool is used: a node *)
(* is added once, by the owner, while the pool is in use.                  *)
THEOREM UsesThreadPool == Spec => UsesPool
<1>1. Init => Pool!PoolInit
  BY DEF Init
<1>2. LevelInv /\ [Next]_vars => [Pool!Next]_(Pool!poolVars)
  <2> SUFFICES ASSUME LevelInv, [Next]_vars PROVE [Pool!Next]_(Pool!poolVars)
    OBVIOUS
  <2> USE DEF Pool!Next
  <2>1. CASE Submit
    <3> DEFINE n == Head(q)
    <3>1. main = "submit" /\ Pool!Push(n)
      BY <2>1 DEF Submit
    <3>2. q \in Seq(Task) /\ left \in 1 .. Len(q)
      BY <3>1 DEF LevelInv, TypeOK, Barrier
    <3>3. q # << >> /\ 1 \in DOMAIN q /\ n = q[1] /\ n \in Task
      BY <3>2, EmptySeq, LenProperties, HeadTailProperties
    <3>4. n \notin Pool!Elems(accepted) /\ rejected = {} /\ owner = "using"
      BY <3>1, <3>3 DEF LevelInv, Added, Queued, Held
    <3> HIDE DEF n
    <3>5. Pool!AddTask(n)
      BY <3>1, <3>4 DEF Pool!AddTask, Pool!Fresh
    <3>6. QED
      BY <3>3, <3>5
  <2>2. CASE AwaitLevel
    BY <2>2 DEF AwaitLevel, poolVars, Pool!poolVars, Pool!workers, Pool!history
  <2>3. CASE GetRoot
    BY <2>3 DEF GetRoot
  <2>4. ASSUME NEW w \in Worker, SetValue(w) PROVE UNCHANGED Pool!poolVars
    BY <2>4 DEF SetValue, poolVars, Pool!poolVars, Pool!workers, Pool!history
  <2>5. ASSUME NEW w \in Worker, EndTask(w) PROVE Pool!Finish(w)
    BY <2>5 DEF EndTask
  <2>6. CASE PoolStep
    BY <2>6 DEF PoolStep
  <2>7. CASE UNCHANGED vars
    BY <2>7 DEF vars, poolVars, Pool!poolVars, Pool!workers, Pool!history
  <2>8. QED
    BY <2>1, <2>2, <2>3, <2>4, <2>5, <2>6, <2>7 DEF Next
<1>3. QED
  BY <1>1, <1>2, Spec_LevelInv, PTL DEF Spec, UsesPool, Pool!Spec

(* peval implements the dataflow evaluation of the tree: operands before   *)
(* their operator, and the answer when every node is done.                 *)
THEOREM EvaluatesAsDataflow == Spec => ImplementsDataflow
<1>1. Init => Flow!Init
  BY DEF Init, Pool!PoolInit, Flow!Init
<1>2. LevelInv /\ [Next]_vars => [Flow!Next]_<<finished, main = "return">>
  <2> SUFFICES ASSUME LevelInv, [Next]_vars
               PROVE  [Flow!Next]_<<finished, main = "return">>
    OBVIOUS
  <2>1. CASE Submit
    <3>1. main = "submit" /\ main' \in {"wait", "submit"} /\ finished' = finished
      BY <2>1 DEF Submit, Pool!Push
    <3>2. QED
      BY <3>1
  <2>2. CASE AwaitLevel
    BY <2>2 DEF AwaitLevel, poolVars
  <2>3. CASE GetRoot
    <3>1. main = "get" /\ main' = "return" /\ finished = Task /\ finished' = finished
      BY <2>3 DEF GetRoot, Pool!Stop, Pool!history, LevelInv, Barrier
    <3>2. Flow!Answer
      BY <3>1 DEF Flow!Answer
    <3>3. QED
      BY <3>2 DEF Flow!Next
  <2>4. ASSUME NEW w \in Worker, SetValue(w)
        PROVE  UNCHANGED <<finished, main = "return">>
    BY <2>4 DEF SetValue, poolVars, mainVars
  <2>5. ASSUME NEW w \in Worker, EndTask(w)
        PROVE  [Flow!Next]_<<finished, main = "return">>
    <3>1. /\ finished' = finished \cup {hand[w]} /\ pc[w] = "run"
          /\ UNCHANGED main
      BY <2>5 DEF EndTask, Pool!Finish, mainVars
    <3>2. hand[w] \in level /\ hand[w] \in Task
      BY <3>1 DEF LevelInv, Held, TypeOK
    <3>3. \A i \in DOMAIN Children[hand[w]] : Children[hand[w]][i] \in finished
      BY <3>2 DEF LevelInv, Barrier, Operands
    <3>4. CASE hand[w] \in finished
      BY <3>1, <3>4
    <3>5. CASE hand[w] \notin finished
      <4>1. Flow!Evaluate(hand[w])
        BY <3>1, <3>3, <3>5 DEF Flow!Evaluate
      <4>2. QED
        BY <3>2, <4>1 DEF Flow!Next
    <3>6. QED
      BY <3>4, <3>5
  <2>6. CASE PoolStep
    BY <2>6 DEF PoolStep, mainVars, Pool!Destroy, Pool!Fetch, Pool!SetAlwaysPop, Pool!NotifyAll,
                Pool!Join, Pool!Take, Pool!PopNothing, Pool!FindNothing, Pool!Block,
                Pool!CheckRunning, Pool!CheckEmpty, Pool!WakeSpuriously, Pool!history
  <2>7. CASE UNCHANGED vars
    BY <2>7 DEF vars, poolVars, mainVars
  <2>8. QED
    BY <2>1, <2>2, <2>3, <2>4, <2>5, <2>6, <2>7 DEF Next
<1>3. QED
  BY <1>1, <1>2, Spec_LevelInv, PTL DEF Spec, ImplementsDataflow, Flow!Spec
=============================================================================
