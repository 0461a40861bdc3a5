CONSTANTS
  Heaps <- MCHeaps
  RootCount = 2
SPECIFICATION FairSpec
CHECK_DEADLOCK FALSE
INVARIANTS MarksReachable
PROPERTY MarkingEnds
