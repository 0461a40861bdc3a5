CONSTANTS
  X = X
  D = D
  fa = fa
  fb = fb
  c = c
  Fresh = Fresh
  ClauseVar = ClauseVar
  ExistenceError = ExistenceError
  ResourceError = ResourceError
  Vars = {X, D}
  Terms = {fa, fb, c, ExistenceError, ResourceError}
  KeyOf <- MCKeyOf
  Preds <- MCPreds
  Goals <- FindingGoalSet
  Programs <- BoundBall
SPECIFICATION Spec
INVARIANT UncaughtBallIsThrown
