CONSTANTS
  Bound = 2
  TriggerTag = "export"
  ResponseTag = "approval"
  Tags = {"export", "approval"}
  Keys = {"guard", "other"}
  GuardKey = "guard"
  Ticks <- MCTicks
SPECIFICATION Spec
INVARIANTS
  TypeOK
  LedgerSound
  LinearTokens
  NoOvertaking
  NoWastedCandidate
PROPERTY NoRetraction
