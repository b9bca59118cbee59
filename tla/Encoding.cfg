CONSTANTS
  Scalars <- MCScalars
  MaxScalars = 2
  MaxContainers = 2
  MaxItems = 2
SPECIFICATION EncodingSpec
INVARIANTS
  DigestIsStructure
  EqualityIsStructure
CHECK_DEADLOCK FALSE
