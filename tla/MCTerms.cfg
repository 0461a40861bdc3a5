\* The pairs are remembered after the second, where the program takes 4096.
CONSTANTS
  Width = 4
  Precision = 3
  Threshold = 2
  Heaps <- MCHeaps
  Pairs <- MCPairs
SPECIFICATION Spec
INVARIANTS UnifySolves OrderIsStandard CopyIsVariant MatchIsUnify
PROPERTY WalksEnd
\* A call ends.
CHECK_DEADLOCK FALSE
