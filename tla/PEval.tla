------------------------------- MODULE PEval -------------------------------
(***************************************************************************)
(* peval (src/eval.cpp) and pevalTask (src/infixExpr/ExprTree.cpp): the    *)
(* main thread adds one task per node of the expression tree to a          *)
(* ThreadPool, level by level in topological order, and waits for a level  *)
(* before it adds the next.  A task reads its operands through their       *)
(* promises, blocking if it has to, and sets its own.                      *)
(*                                                                         *)
(* Nodes are their indices in the NodePool: the parser makes operands      *)
(* before operators, so that leaves come first and the root last.          *)
(***************************************************************************)
EXTENDS NodeTree

CONSTANTS
  Worker, None,
  Task,         \* the nodes, one task each
  Children,     \* the operands of each node, in order
  Conditional,  \* the ?: nodes
  Throwing,     \* the nodes whose evalCallback may throw
  CounterMod    \* childCnt is unsigned: 2^32 in the code

N == Cardinality(Task)
Root == N - 1

ASSUME TreeAssumption ==
  /\ IsFiniteSet(Task) /\ DOMAIN Children = Task
  /\ IsTree(Children)
  /\ Conditional \subseteq {n \in Task : Len(Children[n]) = 3}
  /\ Throwing \subseteq Task
  /\ CounterMod \in Nat /\ CounterMod > N

ASSUME PoolAssumption == Worker # {} /\ None \notin Worker \cup Task

VARIABLES
  running, alwaysPop, queue, mutex, pc, hand, owner,
  accepted, started, finished, rejected,               \* of the pool
  main,      \* where the main thread is in peval
  q, left,   \* nodes ready to be added; how many of them are of this level
  cnt,       \* nodes added
  childCnt,  \* operands of a node not added yet
  level,     \* currLevelFu: nodes whose futures are waited for
  promised   \* nodes whose valPromise is set

Pool == INSTANCE ThreadPool

poolVars == <<running, alwaysPop, queue, mutex, pc, hand, owner,
              accepted, started, finished, rejected>>
mainVars == <<main, q, left, cnt, childCnt, level>>
vars == <<poolVars, mainVars, promised>>

Operands(n) == {Children[n][i] : i \in DOMAIN Children[n]}

(* parents is filled with zeros before the links are stored: the root's    *)
(* entry is node 0.                                                        *)
Parent(c) == IF \E n \in Task : c \in Operands(n)
             THEN CHOOSE n \in Task : c \in Operands(n) ELSE 0

Leaves == {n \in Task : Children[n] = << >>}
Ascending(S) == {s \in [1 .. Cardinality(S) -> S] : \A i, j \in DOMAIN s : i < j => s[i] < s[j]}

(* --childCnt, unsigned.                                                   *)
Decremented(c) == IF c = 0 THEN CounterMod - 1 ELSE c - 1

Init ==
  /\ Pool!PoolInit
  /\ main = "submit"
  /\ q \in Ascending(Leaves)
  /\ left = Len(q)
  /\ cnt = 0
  /\ childCnt = [n \in Task |-> Len(Children[n])]
  /\ level = {}
  /\ promised = {}
-----------------------------------------------------------------------------
(* Mutant: a parent is queued at each of its operands.                     *)
SubmitEagerly ==
  LET n == Head(q)
      p == Parent(n)
  IN  /\ main = "submit"
      /\ Pool!Push(n)
      /\ level' = level \cup {n}
      /\ childCnt' = [childCnt EXCEPT ![p] = Decremented(@)]
      /\ q' = Tail(q) \o (IF n = Root THEN << >> ELSE <<p>>)
      /\ cnt' = cnt + 1
      /\ left' = left - 1
      /\ main' = IF left = 1 THEN "wait" ELSE "submit"
      /\ UNCHANGED promised

(* Mutant: a parent's counter is tested before it is decremented.          *)
SubmitLate ==
  LET n == Head(q)
      p == Parent(n)
  IN  /\ main = "submit"
      /\ Pool!Push(n)
      /\ level' = level \cup {n}
      /\ childCnt' = [childCnt EXCEPT ![p] = Decremented(@)]
      /\ q' = Tail(q) \o (IF n # Root /\ childCnt[p] = 0 THEN <<p>> ELSE << >>)
      /\ cnt' = cnt + 1
      /\ left' = left - 1
      /\ main' = IF left = 1 THEN "wait" ELSE "submit"
      /\ UNCHANGED promised

(* The main thread.  One turn of the inner loop: the front node's task is  *)
(* added and its parent, if this was its last operand, is queued.          *)
Submit ==
  LET n == Head(q)
      p == Parent(n)
      c == Decremented(childCnt[p])
  IN  /\ main = "submit"
      /\ Pool!Push(n)
      /\ level' = level \cup {n}
      /\ childCnt' = [childCnt EXCEPT ![p] = c]
      /\ q' = Tail(q) \o (IF c = 0 THEN <<p>> ELSE << >>)
      /\ cnt' = cnt + 1
      /\ left' = left - 1
      /\ main' = IF left = 1 THEN "wait" ELSE "submit"
      /\ UNCHANGED promised

(* Mutant: the next level is one node too long.                            *)
AwaitLevelPlusOne ==
  /\ main = "wait"
  /\ level \subseteq finished
  /\ main' = IF cnt = N THEN "get" ELSE IF q = << >> THEN "wait" ELSE "submit"
  /\ left' = Len(q) + 1
  /\ UNCHANGED <<poolVars, q, cnt, childCnt, level, promised>>

(* Mutant: the level's futures are not waited for.                         *)
AwaitNothing ==
  /\ main = "wait"
  /\ main' = IF cnt = N THEN "get" ELSE IF q = << >> THEN "wait" ELSE "submit"
  /\ left' = Len(q)
  /\ UNCHANGED <<poolVars, q, cnt, childCnt, level, promised>>

(* The futures are never dropped from currLevelFu: those of all the levels *)
(* so far are waited for.                                                  *)
AwaitLevel ==
  /\ main = "wait"
  /\ level \subseteq finished
  /\ main' = IF cnt = N THEN "get" ELSE IF q = << >> THEN "wait" ELSE "submit"
  /\ left' = Len(q)
  /\ UNCHANGED <<poolVars, q, cnt, childCnt, level, promised>>

(* The root's value; then the pool, a local variable, is destroyed.        *)
GetRoot ==
  /\ main = "get"
  /\ Root \in promised
  /\ main' = "return"
  /\ Pool!Stop
  /\ UNCHANGED <<q, left, cnt, childCnt, level, promised>>

-----------------------------------------------------------------------------
(* The tasks.  evalCallback reads all the operands, ?: the condition and   *)
(* the operand it selects.                                                 *)
Readable(n) ==
  IF n \in Conditional
  THEN /\ Children[n][1] \in promised
       /\ Children[n][2] \in promised \/ Children[n][3] \in promised
  ELSE Operands(n) \subseteq promised

SetValue(w) ==
  /\ pc[w] = "run"
  /\ hand[w] \notin promised
  /\ Readable(hand[w])
  /\ promised' = promised \cup {hand[w]}
  /\ UNCHANGED <<poolVars, mainVars>>

(* An exception ends up in the task's future: the promise stays unset.     *)
EndTask(w) ==
  /\ hand[w] \in promised \/ (hand[w] \in Throwing /\ Readable(hand[w]))
  /\ Pool!Finish(w)
  /\ UNCHANGED <<mainVars, promised>>

PoolStep ==
  /\ Pool!Destroy \/ \E w \in Worker : Pool!Fetch(w) \/ Pool!WakeSpuriously(w)
  /\ UNCHANGED <<mainVars, promised>>

Next == \/ Submit \/ AwaitLevel \/ GetRoot
        \/ \E w \in Worker : SetValue(w) \/ EndTask(w)
        \/ PoolStep

Spec == Init /\ [][Next]_vars

(* Threads are scheduled, and the mutex is not given for ever to workers   *)
(* that wake up spuriously while the main thread waits for it.             *)
Fairness == /\ SF_vars(Submit) /\ WF_vars(AwaitLevel) /\ WF_vars(GetRoot)
            /\ WF_vars(Pool!Destroy /\ UNCHANGED <<mainVars, promised>>)
            /\ \A w \in Worker : /\ WF_vars(SetValue(w))
                                 /\ WF_vars(EndTask(w))
                                 /\ WF_vars(Pool!Fetch(w) /\ UNCHANGED <<mainVars, promised>>)
FairSpec == Spec /\ Fairness
-----------------------------------------------------------------------------
TypeOK ==
  /\ Pool!TypeOK
  /\ main \in {"submit", "wait", "get", "return"}
  /\ q \in Seq(Task) /\ left \in 0 .. Len(q) /\ cnt \in 0 .. N
  /\ childCnt \in [Task -> 0 .. CounterMod - 1]
  /\ level \subseteq Task /\ promised \subseteq Task

(* A worker that has a task finds that its operands' tasks have ended, and *)
(* their values unless they threw: the barrier between levels keeps the    *)
(* workers, however few, from blocking on tasks that wait behind them.     *)
Thrown == finished \ promised
NeverBlocks == \A w \in Worker : pc[w] = "run" => Operands(hand[w]) \subseteq promised \cup Thrown

(* The inner loop has a node to add as often as it turns, and counts every *)
(* node exactly once, the wrapped counter of node 0 notwithstanding.       *)
CountsNodes == /\ main = "submit" => left \in 1 .. Len(q)
               /\ Len(accepted) = cnt /\ Cardinality(Pool!Elems(accepted)) = cnt

(* peval keeps the pool's rules (no task twice, none after destruction).   *)
UsesPool == Pool!Spec

(* Nodes are done operands first, and the answer is given when all are.    *)
Flow == INSTANCE Dataflow WITH done <- finished, answered <- (main = "return")
ImplementsDataflow == Flow!Spec

(* The value of the expression is computed, with any number of threads,    *)
(* unless the evaluation of some node throws.                              *)
Answers == <>(main = "return" \/ Thrown # {})
=============================================================================
