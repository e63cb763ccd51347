\* Three processes, one that starts, and every kind of trouble.
SPECIFICATION Spec
CONSTANTS
  NPids = 3
  Programs <- AllOnes
  Terminal = 0
  MaxStarts = 1
INVARIANTS
  NoneMissed
  PlainNamesRight
  PanicNeedsCause
PROPERTIES
  ScanEnds
CHECK_DEADLOCK FALSE
