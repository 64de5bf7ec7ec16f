--------------------------- MODULE MCPriorityQueue ----------------------------
EXTENDS PriorityQueue, TLC
CONSTANTS w1, w2, w3, i1, i2, i3, i4

OneLevel == [i \in Items |-> "medium"]
ThreeLevels ==
  [i \in Items |-> CASE i = i1 -> "high" [] i = i2 -> "low" [] OTHER -> "medium"]
=============================================================================
