CONSTANTS
  SubjectFields <- MCSubjectFields
  Artifacts <- MCArtifacts
  Scopes = {"v1", "v2"}
  Modalities = {"P", "X"}
  Patterns = {"A", "B"}
  Items <- MCItems
  MaxBundle = 3
  Requirements <- MCRequirements
  Height <- MCHeight
  Estimates <- MCEstimates
  MaxReports = 3
  Outcomes = {"refuse", "comply", "stall"}
  Whole = 4
SPECIFICATION MCSpec
INVARIANTS
  AnswersDoNotGuess
  
  ErrorIsTheBestRules
PROPERTY ReportsAreCountedOnce
CHECK_DEADLOCK FALSE
