CONSTANTS
  Aliases = {1, 2, 3}
  TokenTicks = {1, 2, 3}
  Triggers = {0}
  Deadlines = {1, 2, 3}
SPECIFICATION Spec
INVARIANT AllocationIsThePass
CHECK_DEADLOCK FALSE
