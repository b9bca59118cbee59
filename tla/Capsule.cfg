CONSTANTS
  Bound = 2
  TriggerTag = "export"
  ResponseTag = "approval"
  Tags = {"export", "approval"}
  Keys = {"guard"}
  GuardKey = "guard"
  Ticks <- MCTicks
SPECIFICATION CSpec
CONSTANTS
  SourceEvents <- MCSourceEvents
  Budgets = {0, 1, 2, 3}
  MaxTrace = 4
  MaxWord = 2
INVARIANTS
  OpenCardFaithful
  TailCardFaithful
  RestoreIsSound
CHECK_DEADLOCK FALSE
