\* What the comments in the loop say of every stop.
SPECIFICATION Spec
CONSTANTS
  Filters = {"rot13", "colorize"}
  Counts <- Boundary
  Signals = TRUE
INVARIANTS
  InspectedIsEntry
CHECK_DEADLOCK FALSE
