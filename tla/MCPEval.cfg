SPECIFICATION FairSpec
CONSTANTS
  Worker = {w1, w2, w3}
  None = None
  Task <- Nodes
  Children <- Tree
  Conditional = {6}
  Throwing = {2, 3}
  CounterMod = 16
INVARIANTS TypeOK NeverBlocks CountsNodes
PROPERTIES UsesPool ImplementsDataflow Answers
CHECK_DEADLOCK FALSE
