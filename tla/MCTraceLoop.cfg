\* Both filters, with signals.
SPECIFICATION LiveSpec
CONSTANTS
  Filters = {"rot13", "colorize"}
  Counts <- Boundary
  Signals = TRUE
INVARIANTS
  PhaseByParity
  ProgramUnaware
  
  OverrunNeedsLongWrite
PROPERTIES
  FilterSpec
  TraceeResumed
CHECK_DEADLOCK FALSE
