------------------------- MODULE ThreadPool_proofs -------------------------
(* Safety of the thread pool for any number of workers and tasks.          *)
EXTENDS ThreadPool, SequenceTheorems, TLAPS

(* m_running is false exactly once the destructor has begun.               *)
Stopped == running <=> owner = "using"

(* A worker leaves, or is about to look whether it may, only when the pool *)
(* is stopped; and it leaves only an empty queue.                          *)
Leavers == \A w \in Worker : /\ pc[w] \in {"empty", "exit"} => ~ running
                             /\ pc[w] = "exit" => queue = << >>

(* Tasks given out are finished or in the hand of a worker that runs them. *)
Running == {w \in Worker : pc[w] = "run"}
Hands == /\ \A w \in Worker : pc[w] = "run" <=> hand[w] # None
         /\ Elems(started) = finished \cup {hand[w] : w \in Running}

(* The owner has joined every worker.                                      *)
Joined == owner = "gone" => \A w \in Worker : pc[w] = "exit"

(* The inductive invariant.                                                *)
PoolInv == TypeOK /\ InOrder /\ Stopped /\ Leavers /\ Hands /\ Joined

-----------------------------------------------------------------------------
(* Appending to a sequence adds one element to those it has.               *)
LEMMA ElemsAppend ==
  ASSUME NEW S, NEW s \in Seq(S), NEW e \in S
  PROVE  Elems(Append(s, e)) = Elems(s) \cup {e}
BY AppendProperties DEF Elems

(* Moving the head of one sequence to the end of another keeps their       *)
(* concatenation.                                                          *)
LEMMA MoveHead ==
  ASSUME NEW S, NEW s \in Seq(S), NEW t \in Seq(S), t # << >>
  PROVE  Append(s, Head(t)) \o Tail(t) = s \o t
BY HeadTailProperties, ConcatProperties, AppendProperties, SMTT(30)

-----------------------------------------------------------------------------
THEOREM PoolInit_PoolInv == PoolInit => PoolInv
<1> SUFFICES ASSUME PoolInit PROVE PoolInv
  OBVIOUS
<1>1. TypeOK
  <2>1. queue \in Seq(Task) /\ accepted \in Seq(Task) /\ started \in Seq(Task)
    BY EmptySeq DEF PoolInit
  <2>2. \A w \in Worker : pc[w] = "blocking" <=> mutex = w
    BY WorkerAssumption DEF PoolInit
  <2>3. QED
    BY <2>1, <2>2 DEF PoolInit, TypeOK, Labels, Stages
<1>2. InOrder
  BY DEF PoolInit, InOrder
<1>3. Stopped /\ Leavers /\ Joined
  BY DEF PoolInit, Stopped, Leavers, Joined
<1>4. Hands
  <2>1. Running = {}
    BY DEF PoolInit, Running
  <2>2. Elems(started) = {} /\ finished = {}
    BY DEF PoolInit, Elems
  <2>3. QED
    BY <2>1, <2>2 DEF PoolInit, Hands
<1>5. QED
  BY <1>1, <1>2, <1>3, <1>4 DEF PoolInv

(* push leaves the invariant, whoever calls it.                            *)
LEMMA PushStep ==
  ASSUME PoolInv, NEW t \in Task, Push(t)
  PROVE  PoolInv'
<1>0. Append(started \o queue, t) = started \o Append(queue, t)
  <2>1. started \in Seq(Task) /\ queue \in Seq(Task) /\ <<t>> \in Seq(Task)
    BY DEF PoolInv, TypeOK
  <2>2. started \o queue \in Seq(Task)
    BY <2>1, ConcatProperties
  <2>3. Append(started \o queue, t) = (started \o queue) \o <<t>>
    BY <2>2, AppendIsConcat
  <2>4. Append(queue, t) = queue \o <<t>>
    BY <2>1, AppendIsConcat
  <2>5. (started \o queue) \o <<t>> = started \o (queue \o <<t>>)
    BY <2>1, ConcatAssociative
  <2>6. QED
    BY <2>3, <2>4, <2>5
<1> USE DEF PoolInv
<1>1. CASE Accept(t)
  <2> USE <1>1 DEF Push, Accept
  <2>1. /\ pc' \in [Worker -> Labels]
        /\ \A w \in Worker : pc'[w] = pc[w] \/ (pc[w] = "waiting" /\ pc'[w] = "pop")
    BY DEF TypeOK, NotifyOne, Goto, Waiting, Labels
  <2>2. TypeOK'
    BY <2>1 DEF TypeOK
  <2>3. InOrder'
    BY <1>0 DEF InOrder
  <2>4. Stopped' /\ Leavers'
    BY <2>1 DEF Stopped, Leavers
  <2>5. Running' = Running
    BY <2>1 DEF Running
  <2>6. Hands'
    BY <2>1, <2>5, ZenonT(60) DEF Hands, Elems
  <2>7. Joined'
    BY DEF Joined, Stopped
  <2>8. QED
    BY <2>2, <2>3, <2>4, <2>6, <2>7
<1>2. CASE Reject(t)
  <2> USE <1>2 DEF Push, Reject
  <2>1. TypeOK' /\ InOrder' /\ Stopped' /\ Leavers' /\ Joined'
    BY DEF TypeOK, InOrder, Stopped, Leavers, Joined
  <2>2. Hands'
    BY DEF Hands, Running, Elems
  <2>3. QED
    BY <2>1, <2>2
<1>3. QED
  BY <1>1, <1>2 DEF Push

(* The steps that move only workers that run nothing.                      *)
LEMMA IdleStep ==
  ASSUME PoolInv,
         UNCHANGED <<hand, history, queue, running>>,
         pc' \in [Worker -> Labels],
         \A w \in Worker : pc'[w] = "run" <=> pc[w] = "run"
  PROVE  InOrder' /\ Hands'
<1>1. Running' = Running
  BY DEF Running
<1>2. QED
  BY <1>1 DEF PoolInv, InOrder, Hands, Elems, history

LEMMA TakeStep ==
  ASSUME PoolInv, NEW w \in Worker, Take(w)
  PROVE  PoolInv'
<1> USE DEF PoolInv, Take, Goto
<1>1. Head(queue) \in Task /\ Tail(queue) \in Seq(Task)
  BY HeadTailProperties DEF TypeOK
<1>2. TypeOK'
  BY <1>1 DEF TypeOK, Labels
<1>3. InOrder'
  BY MoveHead DEF InOrder, TypeOK
<1>4. Stopped' /\ Leavers' /\ Joined'
  BY DEF Stopped, Leavers, Joined, TypeOK
<1>5. Hands'
  <2>1. Running' = Running \cup {w}
    BY DEF Running, TypeOK
  <2>2. w \notin Running
    BY DEF Running
  <2>3. \A v \in Running : hand'[v] = hand[v]
    BY <2>2 DEF Running, TypeOK
  <2>4. hand'[w] = Head(queue)
    BY DEF TypeOK
  <2>5. Elems(started') = Elems(started) \cup {Head(queue)}
    BY <1>1, ElemsAppend DEF TypeOK
  <2>6. {hand'[v] : v \in Running'} = {hand[v] : v \in Running} \cup {Head(queue)}
    BY <2>1, <2>3, <2>4
  <2>7. \A v \in Worker : pc'[v] = "run" <=> hand'[v] # None
    BY <1>1, TaskAssumption DEF Hands, TypeOK
  <2>8. Elems(started)' = Elems(started')
    BY DEF Elems
  <2>9. QED
    BY <2>5, <2>6, <2>7, <2>8 DEF Hands
<1>6. QED
  BY <1>2, <1>3, <1>4, <1>5

LEMMA FinishStep ==
  ASSUME PoolInv, NEW w \in Worker, Finish(w)
  PROVE  PoolInv'
<1> USE DEF PoolInv, Finish, Goto
<1>1. hand[w] \in Task
  BY DEF TypeOK, Hands
<1>2. TypeOK'
  BY <1>1 DEF TypeOK, Labels
<1>3. InOrder' /\ Stopped' /\ Leavers' /\ Joined'
  BY DEF InOrder, Stopped, Leavers, Joined, TypeOK
<1>4. Hands'
  <2>1. Running' = Running \ {w} /\ w \in Running
    BY DEF Running, TypeOK
  <2>2. \A v \in Running' : hand'[v] = hand[v]
    BY <2>1 DEF Running, TypeOK
  <2>3. {hand[v] : v \in Running} = {hand'[v] : v \in Running'} \cup {hand[w]}
    BY <2>1, <2>2
  <2>4. \A v \in Worker : pc'[v] = "run" <=> hand'[v] # None
    BY DEF Hands, TypeOK
  <2>5. QED
    BY <2>3, <2>4 DEF Hands, Elems
<1>5. QED
  BY <1>2, <1>3, <1>4

LEMMA FetchStep ==
  ASSUME PoolInv, NEW w \in Worker, Fetch(w) \/ WakeSpuriously(w)
  PROVE  PoolInv'
<1>1. CASE Take(w)
  BY <1>1, TakeStep
<1>2. CASE PopNothing(w)
  <2> USE <1>2 DEF PoolInv, PopNothing, Goto
  <2>1. TypeOK' /\ Stopped' /\ Leavers' /\ Joined'
    BY DEF TypeOK, Labels, Stopped, Leavers, Joined, history
  <2>2. QED
    BY <2>1, IdleStep DEF TypeOK
<1>3. CASE FindNothing(w)
  <2> USE <1>3 DEF PoolInv, FindNothing, Goto
  <2>1. TypeOK' /\ Stopped' /\ Leavers' /\ Joined'
    BY WorkerAssumption DEF TypeOK, Labels, Stopped, Leavers, Joined, history
  <2>2. QED
    BY <2>1, IdleStep DEF TypeOK
<1>4. CASE Block(w)
  <2> USE <1>4 DEF PoolInv, Block, Goto
  <2>1. TypeOK' /\ Stopped' /\ Leavers' /\ Joined'
    BY WorkerAssumption DEF TypeOK, Labels, Stopped, Leavers, Joined, history
  <2>2. QED
    BY <2>1, IdleStep DEF TypeOK
<1>5. CASE CheckRunning(w)
  <2> USE <1>5 DEF PoolInv, CheckRunning, Goto
  <2>1. TypeOK' /\ Stopped' /\ Leavers' /\ Joined'
    BY DEF TypeOK, Labels, Stopped, Leavers, Joined, history
  <2>2. QED
    BY <2>1, IdleStep DEF TypeOK
<1>6. CASE CheckEmpty(w)
  <2> USE <1>6 DEF PoolInv, CheckEmpty, Goto
  <2>1. TypeOK' /\ Stopped' /\ Leavers' /\ Joined'
    BY DEF TypeOK, Labels, Stopped, Leavers, Joined, history
  <2>2. QED
    BY <2>1, IdleStep DEF TypeOK
<1>7. CASE WakeSpuriously(w)
  <2> USE <1>7 DEF PoolInv, WakeSpuriously, Goto
  <2>1. TypeOK' /\ Stopped' /\ Leavers' /\ Joined'
    BY DEF TypeOK, Labels, Stopped, Leavers, Joined, history
  <2>2. QED
    BY <2>1, IdleStep DEF TypeOK
<1>8. QED
  BY <1>1, <1>2, <1>3, <1>4, <1>5, <1>6, <1>7 DEF Fetch

LEMMA OwnerStep ==
  ASSUME PoolInv, Stop \/ Destroy
  PROVE  PoolInv'
<1>1. CASE Stop
  <2> USE <1>1 DEF PoolInv, Stop, workers, history
  <2>1. TypeOK' /\ InOrder' /\ Stopped' /\ Leavers' /\ Joined'
    BY DEF TypeOK, Stages, InOrder, Stopped, Leavers, Joined
  <2>2. Hands'
    BY DEF Hands, Running, Elems
  <2>3. QED
    BY <2>1, <2>2
<1>2. CASE SetAlwaysPop
  <2> USE <1>2 DEF PoolInv, SetAlwaysPop, workers, history
  <2>1. TypeOK' /\ InOrder' /\ Stopped' /\ Leavers' /\ Joined'
    BY DEF TypeOK, Stages, InOrder, Stopped, Leavers, Joined
  <2>2. Hands'
    BY DEF Hands, Running, Elems
  <2>3. QED
    BY <2>1, <2>2
<1>3. CASE NotifyAll
  <2> USE <1>3 DEF PoolInv, NotifyAll
  <2>1. \A w \in Worker : pc'[w] = pc[w] \/ (pc[w] = "waiting" /\ pc'[w] = "pop")
    BY DEF Waiting
  <2>2. TypeOK'
    BY <2>1 DEF TypeOK, Stages, Labels, history
  <2>3. Stopped' /\ Leavers' /\ Joined'
    BY <2>1 DEF Stopped, Leavers, Joined, history
  <2>4. QED
    BY <2>1, <2>2, <2>3, IdleStep DEF TypeOK
<1>4. CASE Join
  <2> USE <1>4 DEF PoolInv, Join, workers, history
  <2>1. TypeOK' /\ InOrder' /\ Stopped' /\ Leavers' /\ Joined'
    BY DEF TypeOK, Stages, InOrder, Stopped, Leavers, Joined
  <2>2. Hands'
    BY DEF Hands, Running, Elems
  <2>3. QED
    BY <2>1, <2>2
<1>5. QED
  BY <1>1, <1>2, <1>3, <1>4 DEF Destroy

(* Every step of the pool preserves the invariant.                         *)
THEOREM Next_PoolInv == PoolInv /\ [Next]_poolVars => PoolInv'
<1> SUFFICES ASSUME PoolInv, [Next]_poolVars PROVE PoolInv'
  OBVIOUS
<1>1. ASSUME NEW t \in Task, AddTask(t) PROVE PoolInv'
  BY <1>1, PushStep DEF AddTask
<1>2. ASSUME NEW w \in Worker, Fetch(w) \/ WakeSpuriously(w) PROVE PoolInv'
  BY <1>2, FetchStep
<1>3. ASSUME NEW w \in Worker, Finish(w) PROVE PoolInv'
  BY <1>3, FinishStep
<1>4. ASSUME NEW w \in Worker, NEW t \in Task, Spawn(w, t) PROVE PoolInv'
  BY <1>4, PushStep DEF Spawn
<1>5. CASE Stop \/ Destroy
  BY <1>5, OwnerStep
<1>6. CASE UNCHANGED poolVars
  <2> USE <1>6 DEF poolVars, workers, history, PoolInv
  <2>1. TypeOK' /\ InOrder' /\ Stopped' /\ Leavers' /\ Joined'
    BY DEF TypeOK, InOrder, Stopped, Leavers, Joined
  <2>2. Hands'
    BY DEF Hands, Running, Elems
  <2>3. QED
    BY <2>1, <2>2
<1>7. QED
  BY <1>1, <1>2, <1>3, <1>4, <1>5, <1>6 DEF Next

THEOREM Spec_PoolInv == Spec => []PoolInv
BY PoolInit_PoolInv, Next_PoolInv, PTL DEF Spec

-----------------------------------------------------------------------------
(* The pool is type-correct, and its mutex is held between two steps only  *)
(* by the one worker that is about to wait.                                *)
THEOREM TypeCorrect == Spec => []TypeOK
<1>1. PoolInv => TypeOK
  BY DEF PoolInv
<1>2. QED
  BY <1>1, Spec_PoolInv, PTL

(* For every number of workers, tasks are given out in the order they were *)
(* accepted, and none is skipped.                                          *)
THEOREM FirstInFirstOut == Spec => []InOrder
<1>1. PoolInv => InOrder
  BY DEF PoolInv
<1>2. QED
  BY <1>1, Spec_PoolInv, PTL

(* For every number of workers, and whatever tasks the running tasks try   *)
(* to add, all accepted tasks are finished when the destructor returns.    *)
THEOREM DestructorDrains == Spec => []DrainedWhenGone
<1>1. ASSUME PoolInv, owner = "gone"
      PROVE  finished = Elems(accepted)
  <2> USE <1>1 DEF PoolInv
  <2>1. \A w \in Worker : pc[w] = "exit"
    BY DEF Joined
  <2>2. queue = << >>
    BY <2>1, WorkerAssumption DEF Leavers
  <2>3. accepted = started
    BY <2>2, ConcatEmptySeq DEF InOrder, TypeOK
  <2>4. Running = {}
    BY <2>1 DEF Running
  <2>5. Elems(started) = finished
    BY <2>4 DEF Hands
  <2>6. QED
    BY <2>3, <2>5
<1>2. PoolInv => DrainedWhenGone
  BY <1>1 DEF DrainedWhenGone
<1>3. QED
  BY <1>2, Spec_PoolInv, PTL
=============================================================================
