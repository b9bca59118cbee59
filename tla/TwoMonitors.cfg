CONSTANTS
  Bound = 2
  TriggerTag = "export"
  ResponseTag = "approval"
  Tags = {"export", "approval"}
  Keys = {"guard"}
  GuardKey = "guard"
  Ticks <- MCTicks
  Shift = 5
  Advances = {0, 1, 2}
  MaxWord = 3
  Entries <- MCEntries
  Names = {1, 3, 20}
  Unnumbered = {20}
  Clocks = {1, 2}
SPECIFICATION MCSpec
INVARIANTS
  TimeIsRelative
  NamesDecideNothing
  CardsAreLegal
PROPERTIES
  ImplementsResidual
  NumberingGoesOn
CHECK_DEADLOCK FALSE
