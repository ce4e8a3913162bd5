CONSTANTS
  f1 = f1
  f2 = f2
  e1 = e1
  e2 = e2
  Fns = {f1, f2}
  MaxParallel = 1
  Errors = {e1, e2}
  combineErrors <- IgnoreE1
SPECIFICATION LiveSpec
INVARIANTS ParallelBounded ValueOwned CloseWaitsForAll ResultReported
PROPERTIES TryCompletes
