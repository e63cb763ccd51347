\* Names with blanks against the comment on the field of tty_nr.
SPECIFICATION Spec
CONSTANTS
  NPids = 1
  Programs <- ManyNames
  Terminal = 0
  MaxStarts = 0
INVARIANT
  TtyNrIsField7
CHECK_DEADLOCK FALSE
