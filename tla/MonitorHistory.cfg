CONSTANTS
  Bound = 2
  TriggerTag = "export"
  ResponseTag = "approval"
  Tags = {"export", "approval"}
  Keys = {"guard"}
  GuardKey = "guard"
  Ticks <- MCTicks
SPECIFICATION MCSpec
INVARIANT BreachIsPaidFor
PROPERTY ImplementsOracles
