CONSTANTS
  main = main
  aux = aux
  Files = {main, aux}
  Text = Text
  None = None
  Items <- MCItems
  Answers = {1, 2}
  Outputs = {1, 2}
  CaptureMax = 2
  MaxNest <- MCNest
  MaxOwn = 2
  MaxBags = 3
SPECIFICATION Spec
CHECK_DEADLOCK FALSE
INVARIANTS OwnAnswers OwnOutput OuterLoadKept IdleIsClean
PROPERTY LoadIsWhole
