------------------------------ MODULE NodeTree ------------------------------
(* The trees of nodes that the parser makes and peval works through: nodes *)
(* 0, 1, ... of the NodePool, children gives the operands of each.         *)
EXTENDS Integers, Sequences, FiniteSets

(* Operands come before their operator, no node is an operand twice, and   *)
(* all but the last one, the root, are operands.                           *)
IsTree(children) ==
  LET nodes == DOMAIN children
      root  == Cardinality(nodes) - 1
  IN  /\ nodes = 0 .. root /\ nodes # {}
      /\ \A n \in nodes : children[n] \in Seq(0 .. n - 1)
      /\ \A n, m \in nodes : \A i \in DOMAIN children[n], j \in DOMAIN children[m] :
           children[n][i] = children[m][j] => n = m /\ i = j
      /\ \A c \in nodes \ {root} : \E n \in nodes : \E i \in DOMAIN children[n] : children[n][i] = c
=============================================================================
