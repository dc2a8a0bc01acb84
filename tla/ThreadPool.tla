---------------------------- MODULE ThreadPool ----------------------------
(***************************************************************************)
(* src/parallel: worker threads that take tasks from one                   *)
(* SimpleConcurrenceQueue, the owner that adds tasks and at last destroys  *)
(* the pool, and tasks that add tasks.                                     *)
(*                                                                         *)
(* A critical section is one step, except where pop finds nothing: there   *)
(* the mutex is held from the test of the predicate until the thread is    *)
(* in the wait set, because notifyAllPop, which takes no mutex, may come   *)
(* between the two.  m_alwaysPop is a plain bool written without the       *)
(* mutex; a reader gets its old or its new value.                          *)
(***************************************************************************)
EXTENDS Naturals, Sequences, FiniteSets

CONSTANTS
  Worker,   \* m_threads
  Task,     \* the tasks that may be added, each once
  None      \* no worker, no task

ASSUME WorkerAssumption == Worker # {} /\ None \notin Worker
ASSUME TaskAssumption == None \notin Task

VARIABLES
  running,    \* m_running
  alwaysPop,  \* m_tasks.m_alwaysPop
  queue,      \* m_tasks.m_data
  mutex,      \* the worker that holds m_tasks.m_mutex between two steps
  pc,         \* where each worker is
  hand,       \* the task each worker executes
  owner,      \* where the owner is
  accepted,   \* history: the tasks push took, in order
  started,    \* history: the tasks pop gave out, in order
  finished,   \* the tasks that were executed: their futures are ready
  rejected    \* the tasks push refused

workers == <<mutex, pc, hand>>
history == <<accepted, started, finished, rejected>>
poolVars == <<running, alwaysPop, queue, workers, owner, history>>

Elems(s) == {s[i] : i \in DOMAIN s}
Waiting == {w \in Worker : pc[w] = "waiting"}

PoolInit ==
  /\ running = TRUE
  /\ alwaysPop = FALSE
  /\ queue = << >>
  /\ mutex = None
  /\ pc = [w \in Worker |-> "pop"]
  /\ hand = [w \in Worker |-> None]
  /\ owner = "using"
  /\ accepted = << >> /\ started = << >> /\ finished = {} /\ rejected = {}

Goto(w, label) == pc' = [pc EXCEPT ![w] = label]
-----------------------------------------------------------------------------
(* addTask: push the task and notify one waiting worker, if m_running.     *)
NotifyOne == IF Waiting = {} THEN UNCHANGED pc ELSE \E w \in Waiting : Goto(w, "pop")

(* Mutant: push notifies nobody.                                           *)
AcceptSilently(t) ==
  /\ running
  /\ queue' = Append(queue, t)
  /\ accepted' = Append(accepted, t)
  /\ UNCHANGED <<pc, rejected>>

Accept(t) ==
  /\ running
  /\ queue' = Append(queue, t)
  /\ accepted' = Append(accepted, t)
  /\ NotifyOne
  /\ UNCHANGED rejected

Reject(t) ==
  /\ ~ running
  /\ rejected' = rejected \cup {t}
  /\ UNCHANGED <<queue, accepted, pc>>

Push(t) ==
  /\ mutex = None
  /\ Accept(t) \/ Reject(t)
  /\ UNCHANGED <<running, alwaysPop, mutex, hand, owner, started, finished>>

Fresh(t) == t \notin Elems(accepted) \cup rejected

AddTask(t)  == owner = "using" /\ Fresh(t) /\ Push(t)
Spawn(w, t) == pc[w] = "run" /\ Fresh(t) /\ Push(t)

-----------------------------------------------------------------------------
(* Mutant: the front is read and not removed.                              *)
TakeWithoutPop(w) ==
  /\ pc[w] = "pop" /\ mutex = None /\ queue # << >>
  /\ hand' = [hand EXCEPT ![w] = Head(queue)]
  /\ started' = Append(started, Head(queue))
  /\ Goto(w, "run")
  /\ UNCHANGED <<running, alwaysPop, queue, mutex, owner, accepted, finished, rejected>>

(* The loop of a worker.  m_tasks.pop(task): the front of the queue,       *)
Take(w) ==
  /\ pc[w] = "pop" /\ mutex = None /\ queue # << >>
  /\ hand' = [hand EXCEPT ![w] = Head(queue)]
  /\ queue' = Tail(queue)
  /\ started' = Append(started, Head(queue))
  /\ Goto(w, "run")
  /\ UNCHANGED <<running, alwaysPop, mutex, owner, accepted, finished, rejected>>

(* or nothing, once m_alwaysPop is set,                                    *)
PopNothing(w) ==
  /\ pc[w] = "pop" /\ mutex = None /\ queue = << >> /\ alwaysPop
  /\ Goto(w, "check")
  /\ UNCHANGED <<running, alwaysPop, queue, mutex, hand, owner, history>>

(* or the predicate fails, and then the worker waits.                      *)
FindNothing(w) ==
  /\ pc[w] = "pop" /\ mutex = None /\ queue = << >> /\ ~ alwaysPop
  /\ mutex' = w
  /\ Goto(w, "blocking")
  /\ UNCHANGED <<running, alwaysPop, queue, hand, owner, history>>

(* Mutant: the wait does not release the mutex.                            *)
BlockHoldingMutex(w) ==
  /\ pc[w] = "blocking"
  /\ Goto(w, "waiting")
  /\ UNCHANGED <<running, alwaysPop, queue, mutex, hand, owner, history>>

Block(w) ==
  /\ pc[w] = "blocking"
  /\ mutex' = None
  /\ Goto(w, "waiting")
  /\ UNCHANGED <<running, alwaysPop, queue, hand, owner, history>>

WakeSpuriously(w) ==
  /\ pc[w] = "waiting"
  /\ Goto(w, "pop")
  /\ UNCHANGED <<running, alwaysPop, queue, mutex, hand, owner, history>>

(* task() returns.                                                         *)
Finish(w) ==
  /\ pc[w] = "run"
  /\ finished' = finished \cup {hand[w]}
  /\ hand' = [hand EXCEPT ![w] = None]
  /\ Goto(w, "check")
  /\ UNCHANGED <<running, alwaysPop, queue, mutex, owner, accepted, started, rejected>>

(* Mutant: a stopped worker leaves without looking at the queue.           *)
LeaveWhenStopped(w) ==
  /\ pc[w] = "check"
  /\ Goto(w, IF running THEN "pop" ELSE "exit")
  /\ UNCHANGED <<running, alwaysPop, queue, mutex, hand, owner, history>>

(* Mutant: the test of empty() is inverted.                                *)
CheckNotEmpty(w) ==
  /\ pc[w] = "empty" /\ mutex = None
  /\ Goto(w, IF queue = << >> THEN "pop" ELSE "exit")
  /\ UNCHANGED <<running, alwaysPop, queue, mutex, hand, owner, history>>

(* if (!m_running && m_tasks.empty()) return;                              *)
CheckRunning(w) ==
  /\ pc[w] = "check"
  /\ Goto(w, IF running THEN "pop" ELSE "empty")
  /\ UNCHANGED <<running, alwaysPop, queue, mutex, hand, owner, history>>

CheckEmpty(w) ==
  /\ pc[w] = "empty" /\ mutex = None
  /\ Goto(w, IF queue = << >> THEN "exit" ELSE "pop")
  /\ UNCHANGED <<running, alwaysPop, queue, mutex, hand, owner, history>>

-----------------------------------------------------------------------------
(* ~ThreadPool: m_running = false; notifyAllPop(), in two steps; join.     *)
Stop ==
  /\ owner = "using"
  /\ owner' = "stopping"
  /\ running' = FALSE
  /\ UNCHANGED <<alwaysPop, queue, workers, history>>

SetAlwaysPop ==
  /\ owner = "stopping"
  /\ owner' = "notifying"
  /\ alwaysPop' = TRUE
  /\ UNCHANGED <<running, queue, workers, history>>

NotifyAll ==
  /\ owner = "notifying"
  /\ owner' = "joining"
  /\ pc' = [w \in Worker |-> IF w \in Waiting THEN "pop" ELSE pc[w]]
  /\ UNCHANGED <<running, alwaysPop, queue, mutex, hand, history>>

Join ==
  /\ owner = "joining"
  /\ \A w \in Worker : pc[w] = "exit"
  /\ owner' = "gone"
  /\ UNCHANGED <<running, alwaysPop, queue, workers, history>>

-----------------------------------------------------------------------------
(* All the steps of a worker but executing its task.                       *)
Fetch(w) == \/ Take(w) \/ PopNothing(w) \/ FindNothing(w) \/ Block(w)
            \/ CheckRunning(w) \/ CheckEmpty(w)
Destroy == SetAlwaysPop \/ NotifyAll \/ Join

Next ==
  \/ \E t \in Task : AddTask(t)
  \/ \E w \in Worker : \/ Fetch(w) \/ WakeSpuriously(w) \/ Finish(w)
                       \/ \E t \in Task : Spawn(w, t)
  \/ Stop
  \/ Destroy

Spec == PoolInit /\ [][Next]_poolVars

(* Threads are scheduled, tasks return, and a destructor once entered goes *)
(* on; nobody has to add a task or destroy the pool, and no wake-up is     *)
(* owed to a thread that was not notified.                                 *)
Fairness == /\ \A w \in Worker : WF_poolVars(Fetch(w)) /\ WF_poolVars(Finish(w))
            /\ WF_poolVars(Destroy)
FairSpec == Spec /\ Fairness
-----------------------------------------------------------------------------
Labels == {"pop", "blocking", "waiting", "run", "check", "empty", "exit"}
Stages == {"using", "stopping", "notifying", "joining", "gone"}

(* Types, and the mutex is held exactly by a worker about to wait.         *)
TypeOK ==
  /\ running \in BOOLEAN /\ alwaysPop \in BOOLEAN
  /\ queue \in Seq(Task) /\ accepted \in Seq(Task) /\ started \in Seq(Task)
  /\ mutex \in Worker \cup {None}
  /\ pc \in [Worker -> Labels]
  /\ hand \in [Worker -> Task \cup {None}]
  /\ owner \in Stages
  /\ finished \subseteq Task /\ rejected \subseteq Task
  /\ \A w \in Worker : pc[w] = "blocking" <=> mutex = w

(* Tasks are given out in the order they were accepted, none twice and     *)
(* none skipped, however many workers pop.                                 *)
InOrder == accepted = started \o queue

(* When the destructor returns, every task the pool accepted has been      *)
(* executed: no worker leaves while a task is queued, and none is accepted *)
(* after the last one left.                                                *)
DrainedWhenGone == owner = "gone" => finished = Elems(accepted)

(* Every accepted task is executed, even if workers sleep when it arrives  *)
(* and even if the destructor starts at once: push's notify_one is enough. *)
EveryTaskRuns == \A t \in Task : t \in Elems(accepted) ~> t \in finished

(* The destructor returns if notify_all found no worker between the test   *)
(* of the predicate and the wait, that is, if it left none asleep.         *)
JoinReturnsUnlessMissed ==
  (owner = "joining" /\ \A w \in Worker : pc[w] \notin {"blocking", "waiting"})
    ~> owner = "gone"

(* The destructor returns.                                                 *)
JoinReturns == owner = "stopping" ~> owner = "gone"
=============================================================================
