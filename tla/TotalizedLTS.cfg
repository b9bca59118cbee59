CONSTANTS
  States = {"s1", "s2"}
  Labels = {"approval", "Complete"}
  TerminalLabels = {"Complete"}
  Values = {"x", "y"}
  Absent = Absent
  NotACollection = NotACollection
  Adapters <- MCAdapters
  Starts <- MCStarts
  MaxWord = 4
SPECIFICATION Spec
INVARIANTS
  ResidualIsTheRun
  AgreementSharesTheOffset
PROPERTY ImplementsResidual
CHECK_DEADLOCK FALSE
