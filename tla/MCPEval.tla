------------------------------ MODULE MCPEval ------------------------------
(* ((0 op 1) ? 3 : op 4) op 7, a tree whose leaves are added at once and   *)
(* whose operators get their last operand on different levels.             *)
EXTENDS PEval

Nodes == 0 .. 8
Tree == [n \in Nodes |-> CASE n = 2 -> <<0, 1>>
                           [] n = 5 -> <<4>>
                           [] n = 6 -> <<2, 3, 5>>
                           [] n = 8 -> <<6, 7>>
                           [] OTHER -> << >>]
=============================================================================
