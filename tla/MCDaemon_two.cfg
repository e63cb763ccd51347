\* Two processes: holding one while commands work on the other.
SPECIFICATION Spec
CONSTANTS
  Pids = {p1, p2}
  NoPid = NoPid
  Ops = {"Pause", "Resume", "ColorizeStderr"}
  Ttys = {"valid"}
  MaxTtys = 0
SYMMETRY Symmetry
INVARIANTS
  IdleHoldsOnlyPaused
PROPERTIES
  PauseEndsOnly
  CustodySpec
