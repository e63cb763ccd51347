\* A mapping of ten bytes, and every buffer in it.
SPECIFICATION Spec
CONSTANTS
  Last = 9
  Bytes <- Letters
INVARIANTS
  Restored
  SentRotated
  FailureLeavesPrefix
  SecondPassSucceeds
CHECK_DEADLOCK FALSE
