CONSTANTS
  States = {"s", "t", "g"}
  Actions = {"a", "b"}
  Inputs <- MCInputs
  Precision = 5
  One = 128
  Probabilities = {8, 64, 120, 128}
  Tolerance = 8
  MaxIterations = 6
SPECIFICATION MCSpec
INVARIANTS
  RankCertificate
  IsLeastFixpoint
  RoundsReconcile
  ImpossibleIsZero
  CertainIsNearOne
PROPERTY Terminates
CHECK_DEADLOCK FALSE
