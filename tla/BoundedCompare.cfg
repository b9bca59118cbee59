CONSTANTS
  Alphabet <- MCAlphabet
  MaxLength = 2
  Readings = {"Unknown", "Satisfied", "opaque"}
  Outside = {"opaque"}
  Budgets = {0, 1, 3, 6, 7, 8}
SPECIFICATION SearchSpec
INVARIANTS
  WitnessIsFirst
  FirewallIsHonest
  CountsReconcile
CHECK_DEADLOCK FALSE
