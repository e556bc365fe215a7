SPECIFICATION Spec
CONSTANTS
  w1 = w1
  w2 = w2
  Evaluations = {w1, w2}
  CallBudget = 4
  MaxCandidates = 2
CHECK_DEADLOCK FALSE
INVARIANT LastWordIsNewest
