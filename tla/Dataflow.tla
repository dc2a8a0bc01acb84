----------------------------- MODULE Dataflow -----------------------------
(* What a parallel evaluation of a tree promises: a node is done only when *)
(* all its operands are, and the answer comes when every node is done.     *)
EXTENDS Sequences

CONSTANTS Task, Children
VARIABLES done, answered

Init == done = {} /\ answered = FALSE

Evaluate(n) == /\ n \notin done
               /\ \A i \in DOMAIN Children[n] : Children[n][i] \in done
               /\ done' = done \cup {n}
               /\ UNCHANGED answered

Answer == /\ done = Task
          /\ ~ answered
          /\ answered' = TRUE
          /\ UNCHANGED done

Next == (\E n \in Task : Evaluate(n)) \/ Answer

Spec == Init /\ [][Next]_<<done, answered>>
=============================================================================
