CONSTANTS
  BudgetBound = 1
  MaxMetric = 2
SPECIFICATION Spec
INVARIANTS
  ChecksAreExact
  ConjunctionIsSound
PROPERTY AnswersStand
CHECK_DEADLOCK FALSE
