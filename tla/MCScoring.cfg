SPECIFICATION Spec
CONSTANTS
  Searches <- MCSearches
  Objectives <- MCObjectives
  Now <- MCNow
CHECK_DEADLOCK FALSE
INVARIANTS
  TypeOK
  EveryOptionIsJudged
  RanksArePreferences
  SelectedIsBest
  OrderIndependent
  RelaxedExceedsBudget
